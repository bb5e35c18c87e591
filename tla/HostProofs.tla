----------------------------- MODULE HostProofs -----------------------------
(***************************************************************************)
(* Proofs about what the host keeps for others.  First the queue of the    *)
(* compress requests, for any number of requests and windows and any       *)
(* length of the ack memory: the safety properties of CompressQueue, and   *)
(* that it implements RequestHandoff.  Then the settings and the registry, *)
(* for any extensions, any other programs and however often keys fail,     *)
(* processes die and others interfere: the keys are right at every moment, *)
(* a sync that ends without an error has done everything, and nobody loses *)
(* what is theirs.                                                         *)
(***************************************************************************)
EXTENDS CompressQueue, Registration, FiniteSetTheorems, TLAPS

(***************************************************************************)
(* The queue.                                                              *)
(***************************************************************************)


\* Only requests that have arrived are queued, and only the front is leased.
FrontOnly ==
    /\ \A r \in queued : r <= nextId
    /\ \A r \in Requests : Leased(r) => IsFront(r)

\* A window lives as long as its session; no window is there while one is built.
SessionOfWindow ==
    /\ session # None <=> window = "open"
    /\ opener \in {"absent", "build"} => window = "none"

\* A thread with a request has room for it (the bound on arrivals).
RoomForLaunch ==
    opener \in {"found", "absent"} /\ carries => nextId < MaxRequests

\* Generations are issued in order.
GensIssued ==
    /\ \A r \in Requests : lease[r].gen <= nextGen
    /\ \A call \in sent : call[2][2] <= nextGen

\* What the window holds is the leased front until its ack has been carried
\* out; it has gone no further than the lease says.
HeldIsLeased ==
    IF held = NoPair
       THEN stage = "leased"
       ELSE /\ session # None
            /\ held[1] <= nextId /\ held[2] <= nextGen
            /\ Matches(held) \/ (stage = "applied" /\ held[1] \notin queued)
            /\ stage # "applied" =>
                  /\ applied[held[1]] = 0
                  /\ <<"ack", held>> \notin sent
            /\ stage # "leased" /\ Matches(held) =>
                  lease[held[1]].dispatched \/ (stage = "applied" /\ held[1] \in Empty)

\* Nothing has been said of a lease that its window does not know of.
UnheardIsFresh ==
    \A r \in Requests :
        (Leased(r) /\ held # <<r, lease[r].gen>>) =>
            /\ ~lease[r].dispatched
            /\ \A kind \in {"dispatch", "ack"} : <<kind, <<r, lease[r].gen>>>> \notin sent

\* A request that has been carried out once is gone from the queue or about to be closed.
OnceIsEnough ==
    \A r \in Requests :
        /\ applied[r] <= 1
        /\ applied[r] > 0 =>
              /\ r <= nextId
              /\ r \in queued =>
                    Leased(r) /\ lease[r].dispatched /\ stage = "applied"

\* The inductive invariant.
IInv ==
    /\ TypeOK
    /\ FrontOnly
    /\ SessionOfWindow
    /\ RoomForLaunch
    /\ GensIssued
    /\ NoStrandedLease
    /\ HeldIsLeased
    /\ UnheardIsFresh
    /\ MarkedByHolder
    /\ OnceIsEnough

-----------------------------------------------------------------------------
\* The initial state satisfies the invariant.
LEMMA InitInv == Init => IInv
<1> SUFFICES ASSUME Init PROVE IInv
  OBVIOUS
<1>1. \A r \in Requests : ~Leased(r) /\ lease[r] = NoLease /\ applied[r] = 0
  BY DEF Init, Leased
<1>2. TypeOK
  <2>1. NoLease \in Leases
    BY DEF Leases, NoLease
  <2>2. lease \in [Requests -> Leases] /\ applied \in [Requests -> Nat]
    BY <2>1 DEF Init
  <2>3. nextId \in 0 .. MaxRequests /\ windows \in 0 .. MaxWindows
    BY QueueAssumption DEF Init
  <2>4. opener \in OpenerSteps /\ window \in WindowStates
    BY DEF Init, OpenerSteps, WindowStates
  <2> QED BY <2>2, <2>3, <2>4 DEF Init, TypeOK, Pauses
<1>3. FrontOnly /\ SessionOfWindow /\ RoomForLaunch /\ NoStrandedLease /\ HeldIsLeased
  BY <1>1 DEF Init, FrontOnly, SessionOfWindow, RoomForLaunch, NoStrandedLease, HeldIsLeased
<1>4. GensIssued /\ UnheardIsFresh /\ MarkedByHolder /\ OnceIsEnough
  BY <1>1 DEF Init, GensIssued, UnheardIsFresh, MarkedByHolder, OnceIsEnough, NoLease
<1> QED BY <1>2, <1>3, <1>4 DEF IInv

\* The steps of the opening threads that leave the queue and its client alone.
LEMMA OpenerInv ==
  ASSUME IInv, pause' \in Pauses,
         (\E launch \in BOOLEAN : Enter(launch)) \/ BuildFails \/ Forget
  PROVE  IInv'
<1>1. UNCHANGED <<queued, lease, nextId, nextGen, recent, ready, session, windows,
                  look, held, stage, sent, applied>>
  BY DEF Enter, BuildFails, Forget, queueVars, clientVars
<1>2. TypeOK'
  <2>1. window' \in WindowStates /\ buildFailed' \in BOOLEAN
    BY DEF IInv, TypeOK, Enter, BuildFails, Forget, WindowStates
  <2>2. opener' \in OpenerSteps /\ carries' \in BOOLEAN
    BY DEF IInv, TypeOK, Enter, BuildFails, Forget, OpenerSteps
  <2>3. reopening' \in Nat
    BY DEF IInv, TypeOK, Enter, BuildFails, Forget
  <2> QED BY <1>1, <2>1, <2>2, <2>3 DEF IInv, TypeOK
<1>3. (SessionOfWindow /\ RoomForLaunch)'
  BY <1>1 DEF IInv, TypeOK, SessionOfWindow, RoomForLaunch, Enter, BuildFails, Forget
<1>4. (FrontOnly /\ NoStrandedLease /\ HeldIsLeased)'
  BY <1>1 DEF IInv, FrontOnly, NoStrandedLease, HeldIsLeased, Leased, IsFront, Matches
<1>5. (GensIssued /\ UnheardIsFresh /\ MarkedByHolder /\ OnceIsEnough)'
  BY <1>1 DEF IInv, GensIssued, UnheardIsFresh, MarkedByHolder, OnceIsEnough, Leased
<1> QED BY <1>2, <1>3, <1>4, <1>5 DEF IInv

\* A request is appended: the front, if there is one, stays the front.
LEMMA PushInv == ASSUME IInv, pause' \in Pauses, AppendLaunch \/ Prepare PROVE IInv'
<1> USE QueueAssumption
<1>1. /\ UNCHANGED <<lease, nextGen, recent, session, windows, window, reopening,
                     buildFailed, held, stage, sent, applied>>
      /\ ready' \in BOOLEAN /\ look' \in BOOLEAN
  BY DEF IInv, TypeOK, AppendLaunch, Prepare, clientVars
<1>2. opener' \in OpenerSteps /\ carries' \in BOOLEAN
  BY DEF IInv, TypeOK, AppendLaunch, Prepare, OpenerSteps
<1>3. \/ queued' = queued /\ nextId' = nextId
      \/ nextId' = nextId + 1 /\ queued' = queued \cup {nextId + 1} /\ nextId < MaxRequests
  <2>1. (carries /\ Push) \/ UNCHANGED <<nextId, queued>>
    BY DEF AppendLaunch, Prepare, PushLaunch
  <2>2. opener \in {"found", "absent"}
    BY DEF AppendLaunch, Prepare
  <2>3. carries => nextId < MaxRequests
    BY <2>2 DEF IInv, RoomForLaunch
  <2> QED BY <2>1, <2>3 DEF Push
<1>4. nextId' \in 0 .. MaxRequests /\ queued' \subseteq Requests
  <2>1. nextId \in 0 .. MaxRequests /\ queued \subseteq Requests
    BY DEF IInv, TypeOK
  <2>2. CASE queued' = queued /\ nextId' = nextId
    BY <2>1, <2>2
  <2>3. CASE /\ nextId' = nextId + 1 /\ nextId < MaxRequests
             /\ queued' = queued \cup {nextId + 1}
    <3>1. nextId + 1 \in 0 .. MaxRequests /\ nextId + 1 \in Requests
      BY <2>1, <2>3 DEF Requests
    <3> QED BY <2>1, <2>3, <3>1
  <2> QED BY <1>3, <2>2, <2>3
<1>5. TypeOK'
  BY <1>1, <1>2, <1>4 DEF IInv, TypeOK
<1>6. (SessionOfWindow /\ RoomForLaunch)'
  BY <1>1, <1>3 DEF IInv, TypeOK, SessionOfWindow, RoomForLaunch, AppendLaunch, Prepare
<1>7. \A r \in Requests : Leased(r)' = Leased(r)
  BY <1>1 DEF Leased
<1>8. \A r \in Requests : r \in queued => IsFront(r)' = IsFront(r)
  <2>1. nextId \in Nat /\ \A r \in queued : r \in Nat /\ r <= nextId
    BY DEF IInv, TypeOK, FrontOnly, Requests
  <2> QED BY <1>3, <2>1 DEF IsFront
<1>9. FrontOnly'
  BY <1>3, <1>4, <1>7, <1>8 DEF IInv, TypeOK, FrontOnly, IsFront, Requests
<1>10. (NoStrandedLease /\ GensIssued /\ UnheardIsFresh /\ MarkedByHolder)'
  BY <1>1, <1>7 DEF IInv, NoStrandedLease, GensIssued, UnheardIsFresh, MarkedByHolder
<1>11. HeldIsLeased'
  <2>1. held # NoPair => held[1] \in Requests
    BY DEF IInv, TypeOK, Pairs
  <2>2. held # NoPair /\ held[1] \in queued => Matches(held)' = Matches(held)
    BY <1>1, <1>7, <1>8, <2>1 DEF Matches
  <2>3. held # NoPair /\ held[1] \notin queued => ~Matches(held) /\ held[1] \notin queued'
    BY <1>3, <2>1 DEF IInv, TypeOK, HeldIsLeased, Matches, IsFront, Requests
  <2>4. held # NoPair => held[1] <= nextId'
    BY <1>3, <2>1 DEF IInv, TypeOK, HeldIsLeased, Requests
  <2>5. held # NoPair => (Matches(held)' <=> Matches(held))
    BY <1>1, <2>2, <2>3 DEF Matches, IsFront
  <2> QED BY <1>1, <2>2, <2>3, <2>4, <2>5 DEF IInv, HeldIsLeased
<1>12. OnceIsEnough'
  BY <1>1, <1>3, <1>7 DEF IInv, TypeOK, OnceIsEnough, Requests
<1> QED BY <1>5, <1>6, <1>9, <1>10, <1>11, <1>12 DEF IInv
\* A window is built: no session is open, hence no lease and nothing held.
LEMMA BuildInv == ASSUME IInv, pause' \in Pauses, Build PROVE IInv'
<1> USE QueueAssumption
<1>1. /\ UNCHANGED <<queued, lease, nextId, nextGen, recent, ready, reopening, buildFailed,
                     sent, applied>>
      /\ windows < MaxWindows /\ windows' = windows + 1 /\ session' = windows + 1
      /\ window' = "open" /\ look' = TRUE /\ opener' = "free" /\ carries' = FALSE
      /\ held' = NoPair /\ stage' = "leased"
  BY DEF Build, LetGo, queueVars
<1>2. windows' \in 0 .. MaxWindows /\ session' \in Sessions
  <2>1. windows \in 0 .. MaxWindows
    BY DEF IInv, TypeOK
  <2> QED BY <1>1, <2>1 DEF Sessions
<1>3. TypeOK'
  BY <1>1, <1>2 DEF IInv, TypeOK, WindowStates, OpenerSteps
<1>4. session = None /\ held = NoPair
  BY DEF Build, IInv, SessionOfWindow, HeldIsLeased
<1>5. \A r \in Requests : ~Leased(r) /\ ~Leased(r)'
  BY <1>1, <1>4 DEF IInv, NoStrandedLease, Leased
<1>6. (SessionOfWindow /\ RoomForLaunch)'
  BY <1>1, <1>2 DEF SessionOfWindow, RoomForLaunch, Sessions, None
<1>7. (FrontOnly /\ GensIssued /\ MarkedByHolder)'
  BY <1>1, <1>5 DEF IInv, FrontOnly, GensIssued, MarkedByHolder
<1>8. (NoStrandedLease /\ HeldIsLeased /\ UnheardIsFresh)'
  BY <1>1, <1>5 DEF NoStrandedLease, HeldIsLeased, UnheardIsFresh
<1>9. OnceIsEnough'
  BY <1>1, <1>5 DEF IInv, OnceIsEnough
<1> QED BY <1>3, <1>6, <1>7, <1>8, <1>9 DEF IInv

\* The window dies: its lease goes back or, once marked, goes with its request.
LEMMA DestroyInv == ASSUME IInv, pause' \in Pauses, Destroy PROVE IInv'
<1> DEFINE mine == {r \in queued : Leased(r) /\ lease[r].session = session}
<1>1. /\ UNCHANGED <<nextId, nextGen, recent, ready, windows, opener, carries, buildFailed,
                     sent, applied>>
      /\ window = "open" /\ window' = "dying" /\ session' = None /\ look' = FALSE
      /\ held' = NoPair /\ stage' = "leased"
      /\ queued' = queued \ {r \in mine : lease[r].dispatched}
      /\ lease' = [r \in Requests |-> IF r \in mine THEN NoLease ELSE lease[r]]
      /\ reopening' = reopening \/ reopening' = reopening + 1
  BY DEF Destroy, LetGo, ReleaseSession
<1>2. \A r \in Requests : Leased(r) => r \in mine
  BY DEF IInv, FrontOnly, IsFront, NoStrandedLease
<1>3. \A r \in Requests : lease'[r] = NoLease /\ ~Leased(r)'
  BY <1>1, <1>2 DEF Leased
<1>4. TypeOK'
  <2>1. NoLease \in Leases
    BY DEF NoLease, Leases
  <2>2. lease' \in [Requests -> Leases] /\ queued' \subseteq Requests
    BY <1>1, <2>1 DEF IInv, TypeOK
  <2>3. reopening' \in Nat /\ windows' \in 0 .. MaxWindows
    BY <1>1 DEF IInv, TypeOK
  <2> QED BY <1>1, <2>2, <2>3 DEF IInv, TypeOK, WindowStates
<1>5. (SessionOfWindow /\ RoomForLaunch)'
  BY <1>1 DEF IInv, SessionOfWindow, RoomForLaunch
<1>6. (FrontOnly /\ GensIssued)'
  <2>1. nextGen \in Nat
    BY DEF IInv, TypeOK
  <2>2. \A r \in Requests : lease'[r].gen <= nextGen
    BY <1>3, <2>1 DEF NoLease
  <2> QED BY <1>1, <1>3, <2>2 DEF IInv, FrontOnly, GensIssued
<1>7. (NoStrandedLease /\ HeldIsLeased /\ UnheardIsFresh /\ MarkedByHolder)'
  BY <1>1, <1>3 DEF NoStrandedLease, HeldIsLeased, UnheardIsFresh, MarkedByHolder, NoLease
<1>8. OnceIsEnough'
  BY <1>1, <1>2 DEF IInv, OnceIsEnough
<1> QED BY <1>4, <1>5, <1>6, <1>7, <1>8 DEF IInv
\* What dispatch() does to the leases: it may mark the one its pair names.
LEMMA MarkLease ==
  ASSUME IInv, NEW p \in Pairs, Dispatch(p)
  PROVE  /\ lease' \in [Requests -> Leases]
         /\ \A r \in Requests :
               /\ lease'[r].gen = lease[r].gen /\ lease'[r].session = lease[r].session
               /\ Leased(r)' <=> Leased(r)
               /\ lease[r].dispatched => lease'[r].dispatched
               /\ lease'[r].dispatched => lease[r].dispatched \/ (Matches(p) /\ r = p[1])
         /\ Matches(p) => lease'[p[1]].dispatched
<1>1. lease \in [Requests -> Leases]
  BY DEF IInv, TypeOK
<1>2. CASE ~Matches(p)
  BY <1>1, <1>2 DEF Dispatch, Leased
<1>3. CASE Matches(p)
  <2>1. lease' = [lease EXCEPT ![p[1]].dispatched = TRUE] /\ p[1] \in Requests
    BY <1>3 DEF Dispatch, Pairs
  <2>2. \A r \in Requests : r # p[1] => lease'[r] = lease[r]
    BY <1>1, <2>1
  <2>3. /\ lease'[p[1]] \in Leases /\ lease'[p[1]].dispatched = TRUE
        /\ lease'[p[1]].gen = lease[p[1]].gen /\ lease'[p[1]].session = lease[p[1]].session
    BY <1>1, <2>1 DEF Leases
  <2>4. Leased(p[1]) /\ Leased(p[1])'
    BY <1>3, <2>3 DEF Matches, Leased, NoLease
  <2>5. lease' \in [Requests -> Leases]
    BY <1>1, <2>1, <2>2, <2>3
  <2>6. \A r \in Requests : Leased(r)' <=> Leased(r)
    BY <2>2, <2>4 DEF Leased
  <2> QED BY <1>3, <2>2, <2>3, <2>5, <2>6
<1> QED BY <1>2, <1>3

\* A dispatch of the pair p that has been sent, by the window or late, keeps
\* what the queue and the lease are about, and marks no lease but the held one.
LEMMA DispatchInv ==
  ASSUME IInv, pause' \in Pauses, NEW p \in Pairs, Dispatch(p),
         UNCHANGED <<queued, recent, nextId, nextGen, ready, openVars, look, held, applied>>,
         \/ <<"dispatch", p>> \in sent /\ UNCHANGED <<sent, stage>>
         \/ /\ p = held /\ held # NoPair /\ stage = "leased" /\ p[1] \notin Empty
            /\ sent' = sent \cup {<<"dispatch", p>>}
            /\ stage' \in {"leased", "dispatched"}
  PROVE  IInv'
<1>1. /\ lease' \in [Requests -> Leases]
      /\ \A r \in Requests :
            /\ lease'[r].gen = lease[r].gen /\ lease'[r].session = lease[r].session
            /\ Leased(r)' <=> Leased(r)
            /\ lease[r].dispatched => lease'[r].dispatched
            /\ lease'[r].dispatched => lease[r].dispatched \/ (Matches(p) /\ r = p[1])
      /\ Matches(p) => lease'[p[1]].dispatched
  BY MarkLease
<1>2. <<"dispatch", p>> \in sent' /\ sent \subseteq sent'
      /\ (\A q \in Pairs : <<"ack", q>> \in sent' => <<"ack", q>> \in sent)
      /\ (\A q \in Pairs : <<"dispatch", q>> \in sent' => <<"dispatch", q>> \in sent \/ q = p)
  OBVIOUS
<1>3. p \in Requests \X Nat /\ p = <<p[1], p[2]>>
  BY DEF Pairs
<1>4. Matches(p) => held = p
  BY <1>3 DEF IInv, UnheardIsFresh, Matches
<1>5. TypeOK'
  BY <1>1 DEF IInv, TypeOK, openVars, Calls
<1>6. (FrontOnly /\ SessionOfWindow /\ RoomForLaunch /\ NoStrandedLease)'
  BY <1>1 DEF IInv, FrontOnly, IsFront, SessionOfWindow, RoomForLaunch, NoStrandedLease, openVars
<1>7. GensIssued'
  <2>1. p[2] <= nextGen
    BY <1>1, <1>3 DEF IInv, TypeOK, GensIssued, HeldIsLeased, Matches
  <2> QED BY <1>1, <2>1 DEF IInv, GensIssued
<1>8. \A q \in Pairs : Matches(q)' <=> Matches(q)
  BY <1>1 DEF Matches, IsFront, Pairs
<1>9. HeldIsLeased'
  BY <1>1, <1>2, <1>8 DEF IInv, TypeOK, HeldIsLeased, openVars, Pairs
<1>10. UnheardIsFresh'
  <2> SUFFICES ASSUME NEW r \in Requests, Leased(r), held # <<r, lease[r].gen>>
               PROVE  /\ ~lease'[r].dispatched
                      /\ <<"dispatch", <<r, lease[r].gen>>>> \notin sent'
                      /\ <<"ack", <<r, lease[r].gen>>>> \notin sent'
    BY <1>1 DEF UnheardIsFresh
  <2>1. /\ ~lease[r].dispatched
        /\ <<"dispatch", <<r, lease[r].gen>>>> \notin sent
        /\ <<"ack", <<r, lease[r].gen>>>> \notin sent
    BY DEF IInv, UnheardIsFresh
  <2>2. IsFront(r) /\ <<r, lease[r].gen>> \in Pairs
    BY DEF IInv, TypeOK, FrontOnly, Leases, Pairs
  <2>3. ~(Matches(p) /\ r = p[1]) /\ p # <<r, lease[r].gen>>
    BY <1>3, <1>4, <2>2 DEF Matches
  <2> QED BY <1>1, <1>2, <2>1, <2>2, <2>3
<1>11. MarkedByHolder'
  BY <1>1, <1>2, <1>3 DEF IInv, MarkedByHolder, Matches
<1>12. OnceIsEnough'
  BY <1>1 DEF IInv, OnceIsEnough
<1> QED BY <1>5, <1>6, <1>7, <1>9, <1>10, <1>11, <1>12 DEF IInv
\* Asking for the front: a session gets the lease it already has, or a new one.
LEMMA LeaseInv == ASSUME IInv, pause' \in Pauses, Lease PROVE IInv'
<1>1. /\ UNCHANGED <<queued, nextId, recent, openVars, stage, sent, applied>>
      /\ ready' = TRUE /\ held = NoPair /\ session # None
      /\ look' \in BOOLEAN
  BY DEF Lease, IInv, TypeOK, SessionOfWindow
<1>2. stage = "leased"
  BY <1>1 DEF IInv, HeldIsLeased
<1>3. CASE UNCHANGED <<lease, nextGen, held>>
  <2>1. \A r \in Requests : Leased(r)' = Leased(r)
    BY <1>3 DEF Leased
  <2>2. TypeOK'
    BY <1>1, <1>3 DEF IInv, TypeOK, openVars
  <2>3. (FrontOnly /\ SessionOfWindow /\ RoomForLaunch /\ NoStrandedLease)'
    BY <1>1, <1>3, <2>1
       DEF IInv, FrontOnly, IsFront, SessionOfWindow, RoomForLaunch, NoStrandedLease, openVars
  <2>4. (GensIssued /\ HeldIsLeased /\ UnheardIsFresh /\ MarkedByHolder /\ OnceIsEnough)'
    BY <1>1, <1>3, <2>1
       DEF IInv, GensIssued, HeldIsLeased, UnheardIsFresh, MarkedByHolder, OnceIsEnough
  <2> QED BY <2>2, <2>3, <2>4 DEF IInv
<1>4. CASE \E r \in queued : /\ IsFront(r) /\ Leased(r)
                             /\ UNCHANGED <<lease, nextGen>>
                             /\ held' = <<r, lease[r].gen>>
  <2>1. PICK r \in Requests : /\ IsFront(r) /\ Leased(r)
                              /\ UNCHANGED <<lease, nextGen>>
                              /\ held' = <<r, lease[r].gen>>
    BY <1>4 DEF IInv, TypeOK
  <2>2. /\ lease[r].gen \in Nat /\ held' \in Pairs /\ held' # NoPair
        /\ held'[1] = r /\ held'[2] = lease[r].gen
    BY <2>1 DEF IInv, TypeOK, Leases, Pairs, NoPair, None, Requests
  <2>3. \A q \in Requests : Leased(q)' = Leased(q) /\ IsFront(q)' = IsFront(q)
    BY <1>1, <2>1 DEF Leased, IsFront
  <2>4. held # <<r, lease[r].gen>>
    BY <1>1, <2>2, <2>1
  <2>5. /\ ~lease[r].dispatched
        /\ <<"ack", <<r, lease[r].gen>>>> \notin sent
        /\ r \in queued /\ r <= nextId /\ lease[r].gen <= nextGen
    BY <2>1, <2>4 DEF IInv, UnheardIsFresh, FrontOnly, GensIssued, IsFront
  <2>6. applied[r] = 0
    BY <2>5 DEF IInv, TypeOK, OnceIsEnough
  <2>7. TypeOK'
    BY <1>1, <2>1, <2>2 DEF IInv, TypeOK, openVars
  <2>8. (FrontOnly /\ SessionOfWindow /\ RoomForLaunch /\ NoStrandedLease /\ MarkedByHolder)'
    BY <1>1, <2>1, <2>3
       DEF IInv, FrontOnly, SessionOfWindow, RoomForLaunch, NoStrandedLease, MarkedByHolder, openVars
  <2>9. (GensIssued /\ OnceIsEnough)'
    BY <1>1, <2>1, <2>3 DEF IInv, GensIssued, OnceIsEnough
  <2>10. HeldIsLeased'
    BY <1>1, <1>2, <2>1, <2>2, <2>3, <2>5, <2>6 DEF HeldIsLeased, Matches, openVars
  <2>11. UnheardIsFresh'
    <3>1. \A q \in Requests : Leased(q) => q = r
      BY <2>1 DEF IInv, FrontOnly, IsFront, Requests
    <3> QED BY <2>1, <2>3, <3>1 DEF UnheardIsFresh
  <2> QED BY <2>7, <2>8, <2>9, <2>10, <2>11 DEF IInv
<1>5. CASE \E r \in queued : /\ IsFront(r) /\ ~Leased(r)
                             /\ nextGen' = nextGen + 1
                             /\ lease' = [lease EXCEPT ![r] =
                                   [gen |-> nextGen + 1, session |-> session,
                                    dispatched |-> FALSE]]
                             /\ held' = <<r, lease'[r].gen>> \/ held' = held
  <2>1. PICK r \in Requests :
               /\ IsFront(r) /\ ~Leased(r)
               /\ nextGen' = nextGen + 1
               /\ lease' = [lease EXCEPT ![r] =
                     [gen |-> nextGen + 1, session |-> session, dispatched |-> FALSE]]
               /\ held' = <<r, lease'[r].gen>> \/ held' = held
    BY <1>5 DEF IInv, TypeOK
  <2>2. nextGen \in Nat /\ lease \in [Requests -> Leases] /\ r \in queued
    BY <2>1 DEF IInv, TypeOK, IsFront
  <2>3. /\ lease'[r] = [gen |-> nextGen + 1, session |-> session, dispatched |-> FALSE]
        /\ \A q \in Requests : q # r => lease'[q] = lease[q]
    BY <2>1, <2>2
  <2>4. \A q \in Requests : q # r => ~Leased(q) /\ ~Leased(q)'
    <3>1. \A q \in Requests : IsFront(q) => q = r
      BY <2>1 DEF IsFront, Requests
    <3> QED BY <2>3, <3>1 DEF IInv, FrontOnly, Leased
  <2>5. Leased(r)' /\ lease'[r].gen = nextGen + 1 /\ ~lease'[r].dispatched
        /\ lease'[r].session = session
    BY <2>2, <2>3 DEF Leased, NoLease
  <2>6. held' = <<r, nextGen + 1>> \/ held' = NoPair
    BY <1>1, <2>1, <2>5
  <2>7. TypeOK'
    <3>1. lease'[r] \in Leases
      BY <2>2, <2>3 DEF Leases, IInv, TypeOK
    <3>2. lease' \in [Requests -> Leases]
      BY <2>1, <2>2, <3>1
    <3>3. held' \in Pairs \cup {NoPair} /\ nextGen' \in Nat
      BY <2>1, <2>2, <2>6 DEF Pairs
    <3> QED BY <1>1, <3>2, <3>3 DEF IInv, TypeOK, openVars
  <2>8. (FrontOnly /\ SessionOfWindow /\ RoomForLaunch /\ NoStrandedLease)'
    BY <1>1, <2>1, <2>4, <2>5
       DEF IInv, FrontOnly, IsFront, SessionOfWindow, RoomForLaunch, NoStrandedLease, openVars
  <2>9. GensIssued'
    <3>1. \A q \in Requests : lease[q].gen \in Nat
      BY <2>2 DEF Leases
    <3>2. \A call \in sent : call[2][2] \in Nat
      BY DEF IInv, TypeOK, Calls, Pairs
    <3> QED BY <1>1, <2>1, <2>2, <2>3, <2>5, <3>1, <3>2 DEF IInv, GensIssued
  <2>10. applied[r] = 0 /\ r <= nextId
    BY <2>1, <2>2 DEF IInv, TypeOK, OnceIsEnough, FrontOnly
  <2>11. \A kind \in {"dispatch", "ack"} : <<kind, <<r, nextGen + 1>>>> \notin sent
    BY <2>2 DEF IInv, GensIssued
  <2>12. HeldIsLeased'
    <3>1. CASE held' = NoPair
      BY <1>1, <1>2, <3>1 DEF HeldIsLeased
    <3>2. CASE held' = <<r, nextGen + 1>>
      <4>1. held'[1] = r /\ held'[2] = nextGen + 1 /\ held' # NoPair
        BY <3>2 DEF NoPair, None, Requests
      <4>2. Matches(held)'
        BY <1>1, <2>1, <2>5, <4>1 DEF Matches, IsFront
      <4>3. held'[2] <= nextGen'
        BY <2>1, <2>2, <4>1
      <4> QED BY <1>1, <1>2, <2>10, <2>11, <3>2, <4>1, <4>2, <4>3 DEF HeldIsLeased, openVars
    <3> QED BY <2>6, <3>1, <3>2
  <2>13. UnheardIsFresh'
    BY <1>1, <2>4, <2>5, <2>11 DEF UnheardIsFresh
  <2>14. (MarkedByHolder /\ OnceIsEnough)'
    BY <1>1, <2>1, <2>3, <2>4, <2>5, <2>10 DEF IInv, MarkedByHolder, OnceIsEnough
  <2> QED BY <2>7, <2>8, <2>9, <2>12, <2>13, <2>14 DEF IInv
<1> QED BY <1>1, <1>3, <1>4, <1>5 DEF Lease, LeaseTo
\* Only the pause changes: the window is kept, or goes on, or a job has failed to start.
LEMMA PauseInv ==
  ASSUME IInv, pause' \in Pauses,
         UNCHANGED <<queueVars, openVars, look, held, stage, sent, applied>>
  PROVE  IInv'
<1>1. \A r \in Requests : (Leased(r)' <=> Leased(r)) /\ (IsFront(r)' <=> IsFront(r))
  BY DEF queueVars, Leased, IsFront
<1>2. Matches(held)' <=> Matches(held)
  BY DEF queueVars, Matches, Leased, IsFront
<1>3. TypeOK'
  BY DEF queueVars, openVars, IInv, TypeOK
<1>4. (FrontOnly /\ SessionOfWindow /\ RoomForLaunch /\ GensIssued /\ NoStrandedLease)'
  BY <1>1 DEF queueVars, openVars, IInv, FrontOnly,
     SessionOfWindow, RoomForLaunch, GensIssued, NoStrandedLease
<1>5. (HeldIsLeased /\ UnheardIsFresh /\ MarkedByHolder /\ OnceIsEnough)'
  BY <1>1, <1>2 DEF queueVars, openVars, IInv, HeldIsLeased,
     UnheardIsFresh, MarkedByHolder, OnceIsEnough
<1> QED BY <1>3, <1>4, <1>5 DEF IInv

\* A request without paths is passed over, one with paths is carried out.
LEMMA ApplyInv ==
  ASSUME IInv, pause' \in Pauses, Ignore \/ Apply, stage' # stage
  PROVE  IInv'
<1>1. /\ UNCHANGED <<queueVars, openVars, look, held, sent>>
      /\ held # NoPair /\ stage # "applied" /\ stage' = "applied"
      /\ \/ stage = "leased" /\ held[1] \in Empty /\ applied' = applied
         \/ stage = "dispatched" /\ applied' = [applied EXCEPT ![held[1]] = @ + 1]
  BY DEF Ignore, Apply
<1>2. held \in Pairs /\ held[1] \in Requests /\ held[2] \in Nat
  BY <1>1 DEF IInv, TypeOK, Pairs
<1>3. /\ Matches(held) /\ applied[held[1]] = 0 /\ held[1] <= nextId
      /\ stage = "dispatched" => lease[held[1]].dispatched
  BY <1>1 DEF IInv, HeldIsLeased
<1>4. \A r \in Requests : (Leased(r)' <=> Leased(r)) /\ (IsFront(r)' <=> IsFront(r))
  BY <1>1 DEF Leased, IsFront, queueVars
<1>5. TypeOK'
  BY <1>1, <1>2 DEF IInv, TypeOK, queueVars, openVars
<1>6. (FrontOnly /\ SessionOfWindow /\ RoomForLaunch /\ GensIssued)'
  BY <1>1, <1>4
     DEF IInv, FrontOnly, SessionOfWindow, RoomForLaunch, GensIssued, queueVars, openVars
<1>7. (NoStrandedLease /\ UnheardIsFresh /\ MarkedByHolder)'
  BY <1>1, <1>4
     DEF IInv, NoStrandedLease, UnheardIsFresh, MarkedByHolder, queueVars, openVars
<1>8. HeldIsLeased'
  <2>1. Matches(held)'
    BY <1>1, <1>2, <1>3, <1>4 DEF Matches, queueVars
  <2> QED BY <1>1, <1>3, <2>1 DEF IInv, HeldIsLeased, queueVars, openVars
<1>9. OnceIsEnough'
  <2>1. Leased(held[1])
    BY <1>3 DEF Matches
  <2> QED BY <1>1, <1>2, <1>3, <1>4, <2>1
          DEF IInv, TypeOK, OnceIsEnough, queueVars
<1> QED BY <1>5, <1>6, <1>7, <1>8, <1>9 DEF IInv

\* An ack of the pair p, by the window or late, closes nothing but the request
\* the window has brought to its end.
LEMMA AckInv ==
  ASSUME IInv, pause' \in Pauses, NEW p \in Pairs, Ack(p),
         UNCHANGED <<nextId, nextGen, ready, openVars, look, applied>>,
         \/ <<"ack", p>> \in sent /\ UNCHANGED <<sent, held, stage>>
         \/ /\ p = held /\ held # NoPair /\ stage = "applied"
            /\ sent' = sent \cup {<<"ack", p>>}
            /\ LetGo \/ UNCHANGED <<held, stage>>
  PROVE  IInv'
<1>1. p[1] \in Requests /\ p[2] \in Nat /\ p = <<p[1], p[2]>>
  BY DEF Pairs
<1>2. Matches(p) => /\ held = p /\ held # NoPair /\ stage = "applied"
                    /\ Leased(p[1]) /\ IsFront(p[1]) /\ p[1] <= nextId
  <2> SUFFICES ASSUME Matches(p)
               PROVE  /\ held = p /\ held # NoPair /\ stage = "applied"
                      /\ Leased(p[1]) /\ IsFront(p[1]) /\ p[1] <= nextId
    OBVIOUS
  <2>1. Leased(p[1]) /\ IsFront(p[1]) /\ lease[p[1]].gen = p[2] /\ p[1] \in queued
    BY DEF Matches, IsFront
  <2>2. p # NoPair
    BY <1>1 DEF NoPair, None, Requests
  <2>3. held = p
    BY <1>1, <2>1 DEF IInv, UnheardIsFresh
  <2>4. stage = "applied"
    BY <2>2, <2>3 DEF IInv, HeldIsLeased
  <2> QED BY <2>1, <2>2, <2>3, <2>4 DEF IInv, FrontOnly
<1>3. TypeOK'
  <2>1. NoLease \in Leases
    BY DEF NoLease, Leases
  <2>2. lease' \in [Requests -> Leases] /\ queued' \subseteq Requests
    BY <2>1 DEF IInv, TypeOK, Ack
  <2>3. recent' \subseteq Pairs
    BY DEF IInv, TypeOK, Ack, Remember
  <2>4. sent' \subseteq Calls /\ held' \in Pairs \cup {NoPair}
        /\ stage' \in {"leased", "dispatched", "applied"}
    BY DEF IInv, TypeOK, Calls, LetGo
  <2> QED BY <2>2, <2>3, <2>4 DEF IInv, TypeOK, openVars
<1>4. (SessionOfWindow /\ RoomForLaunch)'
  BY DEF IInv, SessionOfWindow, RoomForLaunch, openVars
<1>5. \A call \in sent' : call \in sent \/ call = <<"ack", held>>
  OBVIOUS
<1>6. p[2] <= nextGen
  BY DEF IInv, GensIssued, HeldIsLeased
<1>7. CASE ~Matches(p)
  <2>1. UNCHANGED <<queued, lease, recent>>
    BY <1>7 DEF Ack
  <2>2. \A r \in Requests : (Leased(r)' <=> Leased(r)) /\ (IsFront(r)' <=> IsFront(r))
    BY <2>1 DEF Leased, IsFront
  <2>3. (FrontOnly /\ GensIssued /\ NoStrandedLease)'
    BY <1>6, <2>1, <2>2 DEF IInv, FrontOnly, GensIssued, NoStrandedLease, openVars
  <2>4. held # NoPair /\ stage = "applied" /\ ~Matches(held) => held[1] \notin queued
    BY DEF IInv, HeldIsLeased
  <2>5. \A r \in Requests : Leased(r) => r \in queued
    BY DEF IInv, FrontOnly, IsFront
  <2>6. p = held /\ held' = NoPair => \A r \in Requests : Leased(r) => held # <<r, lease[r].gen>>
    BY <1>1, <1>7, <2>5 DEF Matches, IInv, FrontOnly
  <2>7. HeldIsLeased'
    <3>1. CASE UNCHANGED <<held, stage>>
      <4>1. stage # "applied" => sent' = sent
        OBVIOUS
      <4>2. held # NoPair => (Matches(held)' <=> Matches(held))
        <5>1. held # NoPair => held[1] \in Requests
          BY DEF IInv, TypeOK, Pairs
        <5> QED BY <2>1, <2>2, <3>1, <5>1 DEF Matches
      <4> QED BY <2>1, <3>1, <4>1, <4>2 DEF IInv, HeldIsLeased, openVars
    <3>2. CASE LetGo
      BY <3>2 DEF LetGo, HeldIsLeased
    <3> QED BY <3>1, <3>2
  <2>8. UnheardIsFresh'
    <3> SUFFICES ASSUME NEW r \in Requests, Leased(r), held' # <<r, lease[r].gen>>
                 PROVE  /\ ~lease[r].dispatched
                        /\ \A kind \in {"dispatch", "ack"} :
                              <<kind, <<r, lease[r].gen>>>> \notin sent'
      BY <2>1, <2>2 DEF UnheardIsFresh
    <3>1. held # <<r, lease[r].gen>>
      BY <2>6 DEF LetGo
    <3>2. <<r, lease[r].gen>> # p
      BY <1>1, <1>7 DEF Matches, IInv, FrontOnly
    <3> QED BY <3>1, <3>2 DEF IInv, UnheardIsFresh
  <2>9. (MarkedByHolder /\ OnceIsEnough)'
    <3>1. \A r \in Requests : r \in queued /\ applied[r] > 0 =>
             /\ Leased(r) /\ lease[r].dispatched /\ stage = "applied"
             /\ held = <<r, lease[r].gen>>
      BY DEF IInv, OnceIsEnough, UnheardIsFresh
    <3>2. \A r \in Requests : r \in queued /\ applied[r] > 0 => stage' = "applied"
      BY <1>1, <1>7, <3>1 DEF Matches, IInv, FrontOnly, LetGo
    <3> QED BY <2>1, <2>2, <3>2 DEF IInv, MarkedByHolder, OnceIsEnough
  <2> QED BY <1>3, <1>4, <2>3, <2>7, <2>8, <2>9 DEF IInv
<1>8. CASE Matches(p)
  <2>1. /\ queued' = queued \ {p[1]}
        /\ lease' = [lease EXCEPT ![p[1]] = NoLease]
    BY <1>8 DEF Ack
  <2>2. \A r \in Requests : Leased(r) => r = p[1]
    BY <1>1, <1>2, <1>8 DEF IInv, FrontOnly, IsFront, Requests
  <2>3. \A r \in Requests : ~Leased(r)' /\ lease'[r] = NoLease
    BY <1>1, <2>1, <2>2 DEF IInv, TypeOK, Leased
  <2>4. (FrontOnly /\ NoStrandedLease /\ MarkedByHolder /\ UnheardIsFresh)'
    BY <2>1, <2>3 DEF IInv, FrontOnly, NoStrandedLease, MarkedByHolder, UnheardIsFresh, NoLease
  <2>5. GensIssued'
    <3>1. nextGen \in Nat /\ \A r \in Requests : lease'[r].gen = 0
      BY <2>3 DEF IInv, TypeOK, NoLease
    <3> QED BY <1>6, <2>3, <3>1 DEF IInv, GensIssued
  <2>6. HeldIsLeased'
    <3>1. CASE LetGo
      BY <3>1 DEF LetGo, HeldIsLeased
    <3>2. CASE UNCHANGED <<held, stage>>
      <4>1. ~Matches(held)' /\ held[1] \notin queued'
        BY <1>2, <1>8, <2>1, <3>2 DEF Matches, IsFront
      <4> QED BY <1>2, <1>8, <3>2, <4>1 DEF IInv, HeldIsLeased, openVars
    <3> QED BY <3>1, <3>2
  <2>7. OnceIsEnough'
    <3>1. \A r \in Requests : r \in queued /\ applied[r] > 0 => r = p[1]
      BY <2>2 DEF IInv, OnceIsEnough
    <3> QED BY <2>1, <3>1 DEF IInv, OnceIsEnough
  <2> QED BY <1>3, <1>4, <2>4, <2>5, <2>6, <2>7 DEF IInv
<1> QED BY <1>7, <1>8

\* A call that is sent and not carried out yet.
LEMMA DelayInv == ASSUME IInv, pause' \in Pauses, Delay PROVE IInv'
<1>1. /\ UNCHANGED <<queueVars, openVars, look, held, stage, applied>>
      /\ held # NoPair
      /\ \/ stage = "leased" /\ sent' = sent \cup {<<"dispatch", held>>}
         \/ stage = "applied" /\ sent' = sent \cup {<<"ack", held>>}
  BY DEF Delay
<1>2. held \in Pairs /\ held[2] <= nextGen
  BY <1>1 DEF IInv, TypeOK, HeldIsLeased
<1>3. \A r \in Requests : (Leased(r)' <=> Leased(r)) /\ (IsFront(r)' <=> IsFront(r))
  BY <1>1 DEF Leased, IsFront, queueVars
<1>4. TypeOK'
  BY <1>1, <1>2 DEF IInv, TypeOK, Calls, queueVars, openVars
<1>5. (FrontOnly /\ SessionOfWindow /\ RoomForLaunch /\ GensIssued /\ NoStrandedLease)'
  BY <1>1, <1>2, <1>3
     DEF IInv, FrontOnly, SessionOfWindow, RoomForLaunch, GensIssued, NoStrandedLease,
         queueVars, openVars
<1>6. HeldIsLeased'
  <2>1. Matches(held)' <=> Matches(held)
    BY <1>1, <1>2, <1>3 DEF Matches, Pairs, queueVars
  <2> QED BY <1>1, <2>1 DEF IInv, HeldIsLeased, queueVars, openVars
<1>7. (UnheardIsFresh /\ MarkedByHolder /\ OnceIsEnough)'
  BY <1>1, <1>3 DEF IInv, UnheardIsFresh, MarkedByHolder, OnceIsEnough, queueVars
<1> QED BY <1>4, <1>5, <1>6, <1>7 DEF IInv
-----------------------------------------------------------------------------
\* A step leaves the pause in its type.
LEMMA PauseType == ASSUME IInv, [Next]_vars PROVE pause' \in Pauses
<1>1. pause \in Pauses
  BY DEF IInv, TypeOK
<1>2. CASE (\E launch \in BOOLEAN : Enter(launch)) \/ Open \/ BuildFails \/ Destroy \/ Forget
  BY <1>1, <1>2 DEF Enter, Open, AppendLaunch, Prepare, Build, BuildFails, Destroy, Forget,
     clientVars, Pauses
<1>3. CASE Client \/ KeepOrPoke \/ Delay
  BY <1>1, <1>3 DEF Client, Lease, CallDispatch, Ignore, Apply, CallAck, KeepOrPoke, Delay,
     Heard, Lost, Pauses
<1>4. CASE (\E call \in sent : Late(call)) \/ UNCHANGED vars
  BY <1>1, <1>4 DEF Late, vars, clientVars
<1> QED BY <1>2, <1>3, <1>4 DEF Next

\* Every step of the queue, its openers and its window keeps the invariant.
LEMMA NextInv == IInv /\ [Next]_vars => IInv'
<1> SUFFICES ASSUME IInv, [Next]_vars PROVE IInv'
  OBVIOUS
<1>0. pause' \in Pauses
  BY PauseType
<1>1. ASSUME NEW launch \in BOOLEAN, Enter(launch) PROVE IInv'
  BY <1>0, <1>1, OpenerInv
<1>2. CASE Open \/ BuildFails \/ Destroy \/ Forget
  BY <1>0, <1>2, PushInv, BuildInv, OpenerInv, DestroyInv DEF Open
<1>3. CASE CallDispatch
  <2>1. held \in Pairs /\ held # NoPair /\ Matches(held)
    BY <1>3 DEF CallDispatch, IInv, TypeOK, HeldIsLeased
  <2>2. DispatchAnswer(held) # "stale"
    BY <2>1 DEF DispatchAnswer
  <2>3. UNCHANGED held /\ stage' \in {"leased", "dispatched"}
    BY <1>3, <2>2 DEF CallDispatch
  <2> QED BY <1>0, <1>3, <2>1, <2>3, DispatchInv DEF CallDispatch
<1>4. CASE CallAck
  <2>1. held \in Pairs
    BY <1>4 DEF CallAck, IInv, TypeOK
  <2> QED BY <1>0, <1>4, <2>1, AckInv DEF CallAck
<1>5. CASE Lease \/ Delay
  BY <1>0, <1>5, LeaseInv, DelayInv
<1>6. CASE Ignore \/ Apply \/ KeepOrPoke
  <2>1. CASE stage' = stage
    <3>1. UNCHANGED <<queueVars, openVars, look, held, stage, sent, applied>>
      BY <1>6, <2>1 DEF Ignore, Apply, KeepOrPoke
    <3> QED BY <1>0, <3>1, PauseInv
  <2>2. CASE stage' # stage
    BY <1>0, <1>6, <2>2, ApplyInv DEF KeepOrPoke
  <2> QED BY <2>1, <2>2
<1>7. ASSUME NEW call \in sent, Late(call) PROVE IInv'
  <2>1. call = <<call[1], call[2]>> /\ call[2] \in Pairs
    BY DEF IInv, TypeOK, Calls
  <2>2. CASE call[1] = "dispatch" /\ Dispatch(call[2]) /\ UNCHANGED <<queued, recent>>
    BY <1>0, <1>7, <2>1, <2>2, DispatchInv DEF Late, clientVars
  <2>3. CASE call[1] = "ack" /\ Ack(call[2])
    BY <1>0, <1>7, <2>1, <2>3, AckInv DEF Late, clientVars
  <2> QED BY <1>7, <2>2, <2>3 DEF Late
<1>8. CASE UNCHANGED vars
  BY <1>0, <1>8, PauseInv DEF vars, clientVars
<1> QED BY <1>1, <1>2, <1>3, <1>4, <1>5, <1>6, <1>7, <1>8 DEF Next, Client

\* The inductive invariant holds in every reachable state.
THEOREM Invariance == Spec => []IInv
  BY InitInv, NextInv, PTL DEF Spec

\* Type correctness of the queue and its surroundings.
THEOREM TypeCorrect == Spec => []TypeOK
  BY Invariance, PTL DEF IInv

\* No request is carried out twice, whatever answers are lost, whatever calls
\* arrive late and however often the window dies.
THEOREM NeverTwice == Spec => []AtMostOnce
<1>1. IInv => AtMostOnce
  BY DEF IInv, OnceIsEnough, AtMostOnce
<1> QED BY <1>1, Invariance, PTL

\* A lease always belongs to the window that is open.
THEOREM LeaseOfTheLiving == Spec => []NoStrandedLease
  BY Invariance, PTL DEF IInv

\* A lease is marked only by a call about this very lease.
THEOREM MarksAreOwn == Spec => []MarkedByHolder
  BY Invariance, PTL DEF IInv

\* dispatch, ack and release_session: nothing is carried out twice.
THEOREM OnlyOnce == Spec => []CarriedOutOnce
  BY TypeCorrect, NeverTwice, PTL DEF CarriedOutOnce

\* lease and release_session: leases and their marks have their owner.
THEOREM LeasesHaveOwners == Spec => []LeasesOwned
  BY LeaseOfTheLiving, MarksAreOwn, PTL DEF LeasesOwned

-----------------------------------------------------------------------------
(* The queue implements RequestHandoff. *)

\* A request that changes its state alone.
LEMMA OneMoves ==
  ASSUME NEW r \in Requests, NEW to,
         StateOf'[r] = to,
         \A q \in Requests : q # r => StateOf'[q] = StateOf[q]
  PROVE  StateOf' = [StateOf EXCEPT ![r] = to]
  BY DEF StateOf

\* Nothing of the queue changes: a stuttering step of the protocol.
LEMMA SameState ==
  ASSUME UNCHANGED <<queued, lease, nextId>> PROVE UNCHANGED StateOf
  BY DEF StateOf, Leased

\* An appended request arrives.
LEMMA PushMaps == ASSUME IInv, AppendLaunch \/ Prepare PROVE [H!HandoffNext]_StateOf
<1> USE QueueAssumption
<1>1. CASE UNCHANGED <<nextId, queued>>
  <2>1. UNCHANGED lease
    BY DEF AppendLaunch, Prepare
  <2> QED BY <1>1, <2>1, SameState
<1>2. CASE carries /\ Push
  <2> DEFINE r == nextId + 1
  <2>1. UNCHANGED lease /\ nextId' = r /\ queued' = queued \cup {r}
    BY <1>2 DEF AppendLaunch, Prepare, Push
  <2>2. nextId < MaxRequests
    <3>1. opener \in {"found", "absent"}
      BY DEF AppendLaunch, Prepare
    <3> QED BY <1>2, <3>1 DEF IInv, RoomForLaunch
  <2>3. nextId \in Nat /\ r \in Requests
    <3>1. nextId \in Nat
      BY DEF IInv, TypeOK
    <3> QED BY <2>2, <3>1 DEF Requests
  <2>4. ~Leased(r)
    BY <2>3 DEF IInv, FrontOnly, IsFront
  <2>5. StateOf[r] = "unborn" /\ StateOf'[r] = "waiting"
    BY <2>1, <2>3, <2>4 DEF StateOf, Leased
  <2>6. \A q \in Requests : q # r => StateOf'[q] = StateOf[q]
    BY <2>1, <2>3 DEF StateOf, Leased, Requests
  <2>7. \A q \in Requests : q < r => StateOf[q] # "unborn"
    BY <2>3 DEF StateOf, Requests
  <2>8. StateOf' = [StateOf EXCEPT ![r] = "waiting"]
    BY <2>3, <2>5, <2>6, OneMoves
  <2>9. H!Arrive(r)
    BY <2>5, <2>7, <2>8 DEF H!Arrive, H!Becomes, H!Requests, Requests
  <2> QED BY <2>3, <2>9 DEF H!HandoffNext, H!Requests, Requests
<1> QED BY <1>1, <1>2 DEF AppendLaunch, Prepare, PushLaunch
\* The front is leased: an offer, or the same offer once more.
LEMMA LeaseMaps == ASSUME IInv, Lease PROVE [H!HandoffNext]_StateOf
<1>1. UNCHANGED <<queued, nextId>>
  BY DEF Lease
<1>2. CASE UNCHANGED lease
  BY <1>1, <1>2, SameState
<1>3. CASE \E r \in queued : /\ IsFront(r) /\ ~Leased(r)
                             /\ lease' = [lease EXCEPT ![r] =
                                   [gen |-> nextGen + 1, session |-> session,
                                    dispatched |-> FALSE]]
  <2>1. PICK r \in Requests : /\ IsFront(r) /\ ~Leased(r) /\ r \in queued
                              /\ lease' = [lease EXCEPT ![r] =
                                    [gen |-> nextGen + 1, session |-> session,
                                     dispatched |-> FALSE]]
    BY <1>3 DEF IInv, TypeOK
  <2>2. lease \in [Requests -> Leases] /\ nextGen \in Nat /\ nextId \in Nat
    BY DEF IInv, TypeOK
  <2>3. /\ lease'[r] = [gen |-> nextGen + 1, session |-> session, dispatched |-> FALSE]
        /\ \A q \in Requests : q # r => lease'[q] = lease[q]
    BY <2>1, <2>2
  <2>4. Leased(r)' /\ ~lease'[r].dispatched /\ r <= nextId
    BY <2>1, <2>2, <2>3 DEF Leased, NoLease, IInv, FrontOnly
  <2>5. StateOf[r] = "waiting" /\ StateOf'[r] = "offered"
    BY <1>1, <2>1, <2>2, <2>4 DEF StateOf, Requests
  <2>6. \A q \in Requests : q # r => StateOf'[q] = StateOf[q]
    BY <1>1, <2>3 DEF StateOf, Leased
  <2>7. \A q \in Requests : q < r => StateOf[q] = "closed"
    BY <2>1, <2>2, <2>4 DEF StateOf, IsFront, Requests
  <2>8. StateOf' = [StateOf EXCEPT ![r] = "offered"]
    BY <2>5, <2>6, OneMoves
  <2>9. H!Offer(r)
    BY <2>5, <2>7, <2>8 DEF H!Offer, H!Becomes, H!Requests, Requests
  <2> QED BY <2>9 DEF H!HandoffNext, H!Requests, Requests
<1> QED BY <1>1, <1>2, <1>3 DEF Lease, LeaseTo

\* A lease is marked: the request is handed over, or was already.
LEMMA DispatchMaps ==
  ASSUME IInv, NEW p \in Pairs, Dispatch(p), UNCHANGED <<queued, nextId>>
  PROVE  [H!HandoffNext]_StateOf
<1>1. \A r \in Requests :
         /\ Leased(r)' <=> Leased(r)
         /\ lease[r].dispatched => lease'[r].dispatched
         /\ lease'[r].dispatched => lease[r].dispatched \/ (Matches(p) /\ r = p[1])
  BY MarkLease
<1>2. CASE ~Matches(p)
  <2>1. UNCHANGED lease
    BY <1>2 DEF Dispatch
  <2> QED BY <2>1, SameState
<1>3. CASE Matches(p) /\ lease[p[1]].dispatched
  <2>1. \A r \in Requests : StateOf'[r] = StateOf[r]
    BY <1>1, <1>3 DEF StateOf
  <2> QED BY <2>1 DEF StateOf
<1>4. CASE Matches(p) /\ ~lease[p[1]].dispatched
  <2> DEFINE r == p[1]
  <2>1. r \in Requests /\ r \in queued /\ Leased(r) /\ nextId \in Nat /\ r <= nextId
    BY <1>4 DEF Pairs, Matches, IsFront, IInv, TypeOK, FrontOnly
  <2>2. lease'[r].dispatched
    BY <1>4, MarkLease
  <2>3. StateOf[r] = "offered" /\ StateOf'[r] = "handed"
    BY <1>1, <1>4, <2>1, <2>2 DEF StateOf, Requests
  <2>4. \A q \in Requests : q # r => StateOf'[q] = StateOf[q]
    BY <1>1 DEF StateOf
  <2>5. StateOf' = [StateOf EXCEPT ![r] = "handed"]
    BY <2>1, <2>3, <2>4, OneMoves
  <2>6. H!HandOver(r)
    BY <2>3, <2>5 DEF H!HandOver, H!Becomes
  <2> QED BY <2>1, <2>6 DEF H!HandoffNext, H!Requests, Requests
<1> QED BY <1>2, <1>3, <1>4

\* The request of an ack is closed: it was handed over or has nothing to do.
LEMMA AckMaps ==
  ASSUME IInv, NEW p \in Pairs, Ack(p), UNCHANGED nextId,
         <<"ack", p>> \in sent \/ (p = held /\ held # NoPair /\ stage = "applied")
  PROVE  [H!HandoffNext]_StateOf
<1>1. CASE ~Matches(p)
  <2>1. UNCHANGED <<queued, lease>>
    BY <1>1 DEF Ack
  <2> QED BY <2>1, SameState
<1>2. CASE Matches(p)
  <2> DEFINE r == p[1]
  <2>1. /\ r \in Requests /\ r \in queued /\ Leased(r) /\ nextId \in Nat /\ r <= nextId
        /\ lease[r].gen = p[2] /\ p = <<r, p[2]>> /\ p # NoPair
    BY <1>2 DEF Pairs, Matches, IsFront, IInv, TypeOK, FrontOnly, NoPair, None, Requests
  <2>2. p = held
    BY <2>1 DEF IInv, UnheardIsFresh
  <2>3. stage = "applied"
    BY <2>1, <2>2 DEF IInv, HeldIsLeased
  <2>4. lease[r].dispatched \/ r \in Empty
    BY <1>2, <2>1, <2>2, <2>3 DEF IInv, HeldIsLeased
  <2>5. queued' = queued \ {r} /\ lease' = [lease EXCEPT ![r] = NoLease]
    BY <1>2 DEF Ack
  <2>6. /\ StateOf[r] = "handed" \/ (r \in Empty /\ StateOf[r] = "offered")
        /\ StateOf'[r] = "closed"
    BY <2>1, <2>4, <2>5 DEF StateOf, Requests
  <2>7. \A q \in Requests : q # r => StateOf'[q] = StateOf[q]
    <3>1. \A q \in Requests : q # r => lease'[q] = lease[q]
      BY <2>5 DEF IInv, TypeOK
    <3> QED BY <2>5, <3>1 DEF StateOf, Leased
  <2>8. StateOf' = [StateOf EXCEPT ![r] = "closed"]
    BY <2>1, <2>6, <2>7, OneMoves
  <2>9. H!Close(r)
    BY <2>6, <2>8 DEF H!Close, H!Becomes
  <2> QED BY <2>1, <2>9 DEF H!HandoffNext, H!Requests, Requests
<1> QED BY <1>1, <1>2

\* The window dies: what it was offered goes back, what it was handed is over.
LEMMA DestroyMaps == ASSUME IInv, Destroy PROVE [H!HandoffNext]_StateOf
<1> DEFINE mine == {r \in queued : Leased(r) /\ lease[r].session = session}
<1>1. /\ UNCHANGED nextId
      /\ queued' = queued \ {r \in mine : lease[r].dispatched}
      /\ lease' = [r \in Requests |-> IF r \in mine THEN NoLease ELSE lease[r]]
  BY DEF Destroy, ReleaseSession
<1>2. \A r \in Requests : Leased(r) => r \in mine /\ r \in queued
  BY DEF IInv, FrontOnly, IsFront, NoStrandedLease
<1>3. \A r \in Requests : ~Leased(r)'
  BY <1>1, <1>2 DEF Leased
<1>4. CASE \A r \in Requests : ~Leased(r)
  <2>1. queued' = queued
    BY <1>1, <1>4 DEF IInv, TypeOK
  <2>2. \A r \in Requests : StateOf'[r] = StateOf[r]
    BY <1>1, <1>3, <1>4, <2>1 DEF StateOf
  <2> QED BY <2>2 DEF StateOf
<1>5. ASSUME NEW r \in Requests, Leased(r) PROVE [H!HandoffNext]_StateOf
  <2>1. r \in queued /\ r \in mine /\ nextId \in Nat /\ r <= nextId
    BY <1>2, <1>5 DEF IInv, TypeOK, FrontOnly
  <2>2. \A q \in Requests : q # r => ~Leased(q)
    BY <1>5 DEF IInv, FrontOnly, IsFront, Requests
  <2>3. \A q \in Requests : q # r => (q \in queued' <=> q \in queued)
    BY <1>1, <2>2
  <2>4. \A q \in Requests : q # r => StateOf'[q] = StateOf[q]
    BY <1>1, <1>3, <2>2, <2>3 DEF StateOf
  <2>5. CASE lease[r].dispatched
    <3>1. StateOf[r] = "handed" /\ StateOf'[r] = "closed"
      BY <1>1, <1>5, <2>1, <2>5 DEF StateOf, Requests
    <3>2. StateOf' = [StateOf EXCEPT ![r] = "closed"]
      BY <2>4, <3>1, OneMoves
    <3>3. H!Close(r)
      BY <3>1, <3>2 DEF H!Close, H!Becomes
    <3> QED BY <3>3 DEF H!HandoffNext, H!Requests, Requests
  <2>6. CASE ~lease[r].dispatched
    <3>1. StateOf[r] = "offered" /\ StateOf'[r] = "waiting"
      BY <1>1, <1>3, <1>5, <2>1, <2>6 DEF StateOf, Requests
    <3>2. StateOf' = [StateOf EXCEPT ![r] = "waiting"]
      BY <2>4, <3>1, OneMoves
    <3>3. H!TakeBack(r)
      BY <3>1, <3>2 DEF H!TakeBack, H!Becomes
    <3> QED BY <3>3 DEF H!HandoffNext, H!Requests, Requests
  <2> QED BY <2>5, <2>6
<1> QED BY <1>4, <1>5

\* Every step of the queue is a step of the protocol or leaves it where it is.
LEMMA StepMaps == IInv /\ [Next]_vars => [H!HandoffNext]_StateOf
<1> SUFFICES ASSUME IInv, [Next]_vars PROVE [H!HandoffNext]_StateOf
  OBVIOUS
<1>1. CASE \/ \E launch \in BOOLEAN : Enter(launch)
           \/ Build \/ BuildFails \/ Forget \/ Ignore \/ Apply \/ KeepOrPoke \/ Delay
           \/ UNCHANGED vars
  <2>1. UNCHANGED <<queued, lease, nextId>>
    BY <1>1 DEF Enter, Build, BuildFails, Forget, Ignore, Apply, KeepOrPoke, Delay,
              vars, queueVars
  <2> QED BY <2>1, SameState
<1>2. CASE AppendLaunch \/ Prepare \/ Destroy \/ Lease
  BY <1>2, PushMaps, DestroyMaps, LeaseMaps
<1>3. CASE CallDispatch
  <2>1. held \in Pairs
    BY <1>3 DEF CallDispatch, IInv, TypeOK
  <2> QED BY <1>3, <2>1, DispatchMaps DEF CallDispatch
<1>4. CASE CallAck
  <2>1. held \in Pairs
    BY <1>4 DEF CallAck, IInv, TypeOK
  <2> QED BY <1>4, <2>1, AckMaps DEF CallAck
<1>5. ASSUME NEW call \in sent, Late(call) PROVE [H!HandoffNext]_StateOf
  <2>1. call = <<call[1], call[2]>> /\ call[2] \in Pairs
    BY DEF IInv, TypeOK, Calls
  <2>2. CASE call[1] = "dispatch" /\ Dispatch(call[2]) /\ UNCHANGED <<queued, recent>>
    BY <1>5, <2>1, <2>2, DispatchMaps DEF Late
  <2>3. CASE call[1] = "ack" /\ Ack(call[2])
    BY <1>5, <2>1, <2>3, AckMaps DEF Late
  <2> QED BY <1>5, <2>2, <2>3 DEF Late
<1> QED BY <1>1, <1>2, <1>3, <1>4, <1>5 DEF Next, Open, Client

\* The queue, its openers and its window implement the hand-off protocol:
\* requests are offered in order, and none is offered after it was handed over.
THEOREM QueueImplementsHandoff == Spec => Handoff
<1>1. Init => H!HandoffInit
  BY QueueAssumption DEF Init, StateOf, H!HandoffInit, H!Requests, Requests
<1> QED BY <1>1, StepMaps, Invariance, PTL DEF Spec, Handoff, H!HandoffSpec

(***************************************************************************)
(* The settings and the registry.                                          *)
(***************************************************************************)
On      == {"progid", "backup", "class", "list"}
Off     == {"unchoose", "restore", "unlist", "unprogid", "forget"}
MenuOps == {"clsid", "link", "unlink", "unclsid", "package", "unpackage"}

\* What can be in `work`.
StepSet ==
    ((On \cup Off) \X Ext) \cup ({"assoc", "synced"} \X SUBSET Ext)
    \cup ({"menu", "remenu", "menus"} \X BOOLEAN) \cup ({"link", "unlink"} \X Handlers)
    \cup ({"clsid", "unclsid", "package", "unpackage"} \X {"menu"})
    \cup ({"save"} \X Settings) \cup ({"drop"} \X {"file"})
Steps == Range(work)
\* The next step.
Turn(op, x) == work # <<>> /\ Head(work) = <<op, x>>

KeySet == [class : Others \cup {Ours, Nobody}, backup : Others \cup {Nobody, NoBackup},
           progid : Places \cup {Nowhere}, listed : BOOLEAN, choice : Others \cup {Ours, Nobody}]
WinSet == [at : {"idle", "open", "read", "saved"}, copy : Settings, base : SUBSET Ext,
           seen : Files, then : {"nothing", "assoc", "menu", "reset"}]
PastSet == [owner : [Ext -> Others \cup {Nobody}], wish : SUBSET Ext, lost : BOOLEAN,
            excused : SUBSET (Ext \cup {"menu"}), taken : SUBSET Ext]
Types ==
    /\ RegTypeOK
    /\ work \in Seq(StepSet)
    /\ win \in [Windows -> WinSet] /\ past \in PastSet
    /\ left \in [DOMAIN Bounds -> Nat]

(* The order of the work.                                                  *)
Rank(s) ==
    CASE s[1] \in MenuOps -> 1
      [] s[1] \in {"menu", "remenu", "menus"} -> 2
      [] s[1] = "save" -> 3
      [] s[1] \in On \cup Off -> 4
      [] s[1] \in {"assoc", "synced"} -> 5
      [] s[1] = "drop" -> 6
\* The menu goes first, and each of the other things is there once.
Before(s, t) == Rank(s) < Rank(t) \/ (Rank(s) = Rank(t) /\ Rank(s) \in {1, 4})
Sorted(seq) == \A i, j \in 1..Len(seq) : i < j => Before(seq[i], seq[j])

\* The key that is written before the one of an operation.
Later == (On \cup Off) \ {"progid", "unchoose"}
Prior(op) ==
    CASE op = "backup" -> "progid" [] op = "class" -> "backup" [] op = "list" -> "class"
      [] op = "restore" -> "unchoose" [] op = "unlist" -> "restore"
      [] op = "unprogid" -> "unlist" [] op = "forget" -> "unprogid"
InOrder(seq) ==
    \A i \in 2..Len(seq) : seq[i][1] \in Later => seq[i - 1] = <<Prior(seq[i][1]), seq[i][2]>>
\* What is left of a list is cut at its front only.
Follow(seq) ==
    \A i \in 1..Len(seq) :
        /\ seq[i][1] = "restore" => i + 2 <= Len(seq) /\ seq[i + 2] = <<"unprogid", seq[i][2]>>
        /\ seq[i][1] = "unlist" => i + 1 <= Len(seq) /\ seq[i + 1] = <<"unprogid", seq[i][2]>>
\* A list from its first key on.
FromStart(seq) == Len(seq) > 0 => seq[1][1] \notin Later

\* The steps of a sync are followed by its end, which says what each is for.
EndComes(seq) ==
    \A s \in Range(seq) : s[1] \in On \cup Off =>
        \E wanted \in SUBSET Ext :
            <<"synced", wanted>> \in Range(seq) /\ (s[2] \in wanted <=> s[1] \in On)
\* When a sync of the associations has begun the menu has been done.
Expanded(seq) == \A s, t \in Range(seq) : s[1] = "synced" => Rank(t) >= 4
\* A save is followed by the sync of what it saves, and nothing is saved by /uninst.
Saving(seq) ==
    \A s \in Range(seq) : s[1] = "save" =>
        /\ \A t \in Range(seq) : t[1] = "assoc" => t[2] = s[2].assoc
        /\ \A t \in Range(seq) : t[1] # "drop"
MenuEnd(seq) ==
    \A s \in Range(seq) :
        /\ s[1] \in {"clsid", "link", "package"} => <<"menus", TRUE>> \in Range(seq)
        /\ s[1] \in {"unlink", "unclsid"} => <<"menus", FALSE>> \in Range(seq)
Agenda(seq) ==
    /\ Sorted(seq) /\ InOrder(seq) /\ Follow(seq)
    /\ EndComes(seq) /\ Expanded(seq) /\ Saving(seq) /\ MenuEnd(seq)

(* The keys of an extension.                                               *)
Taken(e) == reg[e].class = Ours \/ e \in past.taken
\* What an operation finds of the key it writes.
Found(op, k, owner) ==
    /\ op \in {"backup", "class", "list"} => k.progid = place
    /\ op = "class" => k.backup = owner
    /\ op = "list" => k.backup # NoBackup
    /\ op \in {"restore", "unlist", "unprogid", "forget"} => k.choice # Ours
    /\ op \in {"unlist", "unprogid", "forget"} => k.class # Ours
    /\ op \in {"unprogid", "forget"} => ~k.listed
\* What has been written when it is an operation's turn.
Begun ==
    \A e \in Ext, op \in Later : Turn(op, e) =>
        /\ op \in {"backup", "class", "list"} => reg[e].progid = place
        /\ op = "list" => Taken(e)
        /\ e \notin past.excused => Found(op, reg[e], past.owner[e])
Settled(e) ==
    /\ reg[e].progid = place /\ reg[e].listed /\ Taken(e)
    /\ e \notin past.excused => reg[e].backup # NoBackup
\* What a sync is to do has been done or is ahead.
Progress ==
    \A wanted \in SUBSET Ext : <<"synced", wanted>> \in Steps =>
        \A e \in Ext :
            IF e \in wanted THEN <<"list", e>> \in Steps \/ Settled(e)
            ELSE <<"forget", e>> \in Steps \/ e \in past.excused \/ reg[e].backup = NoBackup
\* What is not held is not ours at all; what is ours has its owner as the backup, what
\* is not is the owner's; what is offered, or chosen, can be opened.
Consistent(k, owner) ==
    /\ k.backup = NoBackup => k.class # Ours /\ k.choice # Ours /\ ~k.listed
    /\ k.class # Ours => k.class = owner
    /\ k.class = Ours => k.backup = owner
    /\ k.listed \/ k.choice = Ours => k.progid # Nowhere
Clear == \A e \in Ext \ past.excused : Consistent(reg[e], past.owner[e])
Keys == Begun /\ Progress /\ Clear

\* The menu: what is to be switched on or off has been, or is ahead.
Menu ==
    /\ <<"menus", TRUE>> \in Steps =>
        /\ shell.clsid = place \/ <<"clsid", "menu">> \in Steps
        /\ \A h \in Handlers : h \in shell.links \/ <<"link", h>> \in Steps
    /\ <<"menus", FALSE>> \in Steps =>
        \/ "menu" \in past.excused
        \/ /\ shell.clsid = Nowhere \/ <<"unclsid", "menu">> \in Steps
           /\ shell.package = Nowhere \/ <<"unpackage", "menu">> \in Steps
           /\ \A h \in Handlers : h \notin shell.links \/ <<"unlink", h>> \in Steps

(* What the user wants.                                                    *)
Saver == \E w \in Windows : win[w].at = "read"
WorkWish ==
    \A s \in Steps :
        /\ s[1] \in {"assoc", "synced"} => past.wish \subseteq s[2]
        /\ s[1] = "save" => past.wish \subseteq s[2].assoc
        /\ s[1] = "drop" => past.wish = {}
FileWish == Trusted /\ ~Saver => past.wish \subseteq Load.assoc
\* What the only window that has read the file is about to write.
ReadWish ==
    \A w \in Windows :
        win[w].at = "read" /\ ~Overlaps(w) /\ file = win[w].seen /\ Trusted /\ Load.assoc = win[w].base
            => past.wish \subseteq win[w].copy.assoc
WinWish ==
    /\ win["settings"].at \in {"open", "saved"} => win["settings"].copy.assoc = win["settings"].base
    /\ win["settings"].at = "saved" => past.wish \subseteq win["settings"].copy.assoc
    /\ win["banner"].at \in {"read", "saved"} => win["banner"].copy.assoc # {}
    /\ win["after"].then = "nothing"
Wish == WorkWish /\ FileWish /\ ReadWish /\ WinWish
\* Only /inst and /uninst write or delete the settings between two keys.
Hooked == \A s \in Steps : s[1] \in {"save", "drop"} => app = "hook"

RegInv == Types /\ Agenda(work) /\ Hooked /\ Keys /\ Menu /\ (~past.lost => Wish)

-----------------------------------------------------------------------------
(* Sequences of work.                                                       *)

\* A numbering of a finite set without repetition numbers all of it.
LEMMA AllNumbered ==
  ASSUME NEW S, IsFiniteSet(S), NEW f \in [1..Cardinality(S) -> S],
         \A i, j \in 1..Cardinality(S) : i # j => f[i] # f[j]
  PROVE  /\ Cardinality(S) \in Nat /\ f \in Seq(S) /\ Len(f) = Cardinality(S)
         /\ \A x \in S : \E i \in 1..Len(f) : f[i] = x
<1>1. Cardinality(S) \in Nat
  BY FS_CardinalityType
<1>2. f \in Seq(S) /\ Len(f) = Cardinality(S)
  BY <1>1
<1>3. f \in Injection(1..Cardinality(S), S)
  BY DEF Injection, IsInjective
<1>4. Cardinality(1..Cardinality(S)) = Cardinality(S)
  BY <1>1, FS_Interval
<1>5. f \in Surjection(1..Cardinality(S), S)
  BY <1>3, <1>4, FS_Injection
<1> QED
  BY <1>1, <1>2, <1>5 DEF Surjection

LEMMA OrderOf ==
  ASSUME NEW S, IsFiniteSet(S), NEW f \in SetToSeqs(S)
  PROVE  f \in Seq(S) /\ \A x \in S : \E i \in 1..Len(f) : f[i] = x
BY AllNumbered DEF SetToSeqs

LEMMA SomeOrder ==
  ASSUME NEW S, IsFiniteSet(S)
  PROVE  SetToSeq(S) \in Seq(S) /\ \A x \in S : \E i \in 1..Len(SetToSeq(S)) : SetToSeq(S)[i] = x
<1>1. PICK f \in Surjection(1..Cardinality(S), S) : f \in Injection(1..Cardinality(S), S)
  BY FS_CardinalityType DEF ExistsBijection, Bijection
<1>2. \E g \in [1..Cardinality(S) -> S] : IsInjective(g)
  BY <1>1 DEF Injection
<1>3. SetToSeq(S) \in [1..Cardinality(S) -> S] /\ IsInjective(SetToSeq(S))
  BY <1>2 DEF SetToSeq
<1> QED
  BY <1>3, AllNumbered DEF IsInjective

\* What is in a sequence.
LEMMA InTail ==
  ASSUME NEW S, NEW s \in Seq(S), s # <<>>
  PROVE  /\ Tail(s) \in Seq(S) /\ Head(s) \in S
         /\ Range(s) = {Head(s)} \cup Range(Tail(s))
<1>1. Tail(s) \in Seq(S) /\ Len(Tail(s)) = Len(s) - 1 /\ Head(s) = s[1] /\ Len(s) \in Nat \ {0}
  OBVIOUS
<1>2. \A i \in 1..Len(s) - 1 : Tail(s)[i] = s[i + 1]
  OBVIOUS
<1>3. ASSUME NEW x \in Range(s) PROVE x = Head(s) \/ x \in Range(Tail(s))
  <2>1. PICK i \in 1..Len(s) : x = s[i]
    BY <1>3 DEF Range
  <2>2. CASE i # 1
    <3>1. i - 1 \in 1..Len(s) - 1
      BY <2>2, <1>1
    <3>2. Tail(s)[i - 1] = x
      BY <2>1, <3>1, <1>2
    <3>3. DOMAIN Tail(s) = 1..Len(s) - 1
      BY <1>1
    <3> QED
      BY <3>1, <3>2, <3>3 DEF Range
  <2> QED
    BY <2>1, <2>2, <1>1
<1>4. ASSUME NEW x \in Range(Tail(s)) PROVE x \in Range(s)
  <2>1. PICK i \in 1..Len(s) - 1 : x = Tail(s)[i]
    BY <1>4, <1>1 DEF Range
  <2> QED
    BY <2>1, <1>1, <1>2 DEF Range
<1>5. Head(s) \in Range(s) /\ Head(s) \in S
  BY <1>1 DEF Range
<1> QED
  BY <1>1, <1>3, <1>4, <1>5

LEMMA InConcat ==
  ASSUME NEW S, NEW s \in Seq(S), NEW t \in Seq(S)
  PROVE  /\ s \o t \in Seq(S) /\ Len(s \o t) = Len(s) + Len(t)
         /\ \A i \in 1..Len(s \o t) :
               \/ i \in 1..Len(s) /\ (s \o t)[i] = s[i]
               \/ i - Len(s) \in 1..Len(t) /\ (s \o t)[i] = t[i - Len(s)]
         /\ \A i \in 1..Len(s) : (s \o t)[i] = s[i]
         /\ \A i \in 1..Len(t) : (s \o t)[i + Len(s)] = t[i]
         /\ Range(s \o t) = Range(s) \cup Range(t)
<1>1. s \o t \in Seq(S) /\ Len(s \o t) = Len(s) + Len(t) /\ Len(s) \in Nat /\ Len(t) \in Nat
  OBVIOUS
<1>2. \A i \in 1..Len(s \o t) :
         \/ i \in 1..Len(s) /\ (s \o t)[i] = s[i]
         \/ i - Len(s) \in 1..Len(t) /\ (s \o t)[i] = t[i - Len(s)]
  BY <1>1
<1>3. \A i \in 1..Len(s) : (s \o t)[i] = s[i]
  BY <1>1
<1>4. \A i \in 1..Len(t) : (s \o t)[i + Len(s)] = t[i]
  BY <1>1
<1>5. Range(s \o t) \subseteq Range(s) \cup Range(t)
  BY <1>1, <1>2 DEF Range
<1>6. Range(s) \subseteq Range(s \o t)
  BY <1>1, <1>3 DEF Range
<1>7. ASSUME NEW x \in Range(t) PROVE x \in Range(s \o t)
  <2>1. PICK i \in 1..Len(t) : x = t[i]
    BY <1>7 DEF Range
  <2>2. i + Len(s) \in 1..Len(s \o t) /\ (s \o t)[i + Len(s)] = x
    BY <2>1, <1>1, <1>4
  <2> QED
    BY <2>2, <1>1 DEF Range
<1> QED
  BY <1>1, <1>2, <1>3, <1>4, <1>5, <1>6, <1>7

LEMMA InOne ==
  ASSUME NEW S, NEW x \in S
  PROVE  <<x>> \in Seq(S) /\ Len(<<x>>) = 1 /\ <<x>>[1] = x /\ Range(<<x>>) = {x}
BY DEF Range

LEMMA InNone ==
  ASSUME NEW S PROVE <<>> \in Seq(S) /\ Range(<<>>) = {} /\ Len(<<>>) = 0
BY DEF Range

\* The orders hold of what is left of a sequence.
LEMMA OrderLeft ==
  ASSUME NEW S, NEW s \in Seq(S), NEW k \in 1..Len(s) + 1, NEW t \in Seq(S),
         Len(t) = Len(s) - k + 1, \A i \in 1..Len(t) : t[i] = s[i + k - 1],
         Sorted(s), InOrder(s), Follow(s)
  PROVE  /\ Sorted(t) /\ InOrder(t) /\ Follow(t) /\ Range(t) \subseteq Range(s)
<1>0. Len(s) \in Nat /\ Len(t) \in Nat
  OBVIOUS
<1>1. Sorted(t)
  <2> SUFFICES ASSUME NEW i \in 1..Len(t), NEW j \in 1..Len(t), i < j PROVE Before(t[i], t[j])
    BY DEF Sorted
  <2>1. i + k - 1 \in 1..Len(s) /\ j + k - 1 \in 1..Len(s) /\ i + k - 1 < j + k - 1
    BY <1>0
  <2>2. Before(s[i + k - 1], s[j + k - 1])
    BY <2>1 DEF Sorted
  <2> QED
    BY <2>2
<1>2. InOrder(t)
  <2> SUFFICES ASSUME NEW i \in 2..Len(t), t[i][1] \in Later
               PROVE  t[i - 1] = <<Prior(t[i][1]), t[i][2]>>
    BY DEF InOrder
  <2>1. i + k - 1 \in 2..Len(s) /\ t[i] = s[i + k - 1] /\ i - 1 \in 1..Len(t)
        /\ (i - 1) + k - 1 = (i + k - 1) - 1
    BY <1>0
  <2>2. t[i - 1] = s[(i + k - 1) - 1]
    BY <2>1
  <2>3. s[(i + k - 1) - 1] = <<Prior(s[i + k - 1][1]), s[i + k - 1][2]>>
    BY <2>1 DEF InOrder
  <2> QED
    BY <2>1, <2>2, <2>3
<1>3. Follow(t)
  <2> SUFFICES ASSUME NEW i \in 1..Len(t)
               PROVE  /\ t[i][1] = "restore" => i + 2 <= Len(t) /\ t[i + 2] = <<"unprogid", t[i][2]>>
                      /\ t[i][1] = "unlist" => i + 1 <= Len(t) /\ t[i + 1] = <<"unprogid", t[i][2]>>
    BY DEF Follow
  <2>1. i + k - 1 \in 1..Len(s) /\ t[i] = s[i + k - 1]
    BY <1>0
  <2>2. CASE t[i][1] = "restore"
    <3>1. (i + k - 1) + 2 <= Len(s) /\ s[(i + k - 1) + 2] = <<"unprogid", t[i][2]>>
      BY <2>1, <2>2 DEF Follow
    <3>2. i + 2 \in 1..Len(t) /\ (i + k - 1) + 2 = (i + 2) + k - 1
      BY <3>1, <1>0
    <3>3. t[i + 2] = s[(i + k - 1) + 2]
      BY <3>2
    <3>4. t[i + 2] = <<"unprogid", t[i][2]>> /\ i + 2 <= Len(t)
      BY <3>1, <3>2, <3>3
    <3> QED
      BY <3>4, <2>2
  <2>3. CASE t[i][1] = "unlist"
    <3>1. (i + k - 1) + 1 <= Len(s) /\ s[(i + k - 1) + 1] = <<"unprogid", t[i][2]>>
      BY <2>1, <2>3 DEF Follow
    <3>2. i + 1 \in 1..Len(t) /\ (i + k - 1) + 1 = (i + 1) + k - 1
      BY <3>1, <1>0
    <3>3. t[i + 1] = s[(i + k - 1) + 1]
      BY <3>2
    <3>4. t[i + 1] = <<"unprogid", t[i][2]>> /\ i + 1 <= Len(t)
      BY <3>1, <3>2, <3>3
    <3> QED
      BY <3>4, <2>3
  <2> QED
    BY <2>2, <2>3
<1>4. Range(t) \subseteq Range(s)
  <2> SUFFICES ASSUME NEW i \in 1..Len(t) PROVE t[i] \in Range(s)
    BY DEF Range
  <2>1. i + k - 1 \in 1..Len(s) /\ t[i] = s[i + k - 1]
    BY <1>0
  <2> QED
    BY <2>1 DEF Range
<1> QED
  BY <1>1, <1>2, <1>3, <1>4

\* The orders hold of one sequence after the other, if the second begins a list.
LEMMA OrderJoined ==
  ASSUME NEW S, NEW s \in Seq(S), NEW t \in Seq(S), FromStart(t),
         Sorted(s), InOrder(s), Follow(s), Sorted(t), InOrder(t), Follow(t),
         \A x \in Range(s), y \in Range(t) : Before(x, y)
  PROVE  Sorted(s \o t) /\ InOrder(s \o t) /\ Follow(s \o t)
<1> DEFINE u == s \o t
<1>0. Len(s) \in Nat /\ Len(t) \in Nat /\ Len(u) = Len(s) + Len(t)
  BY InConcat
<1>a. \A i \in 1..Len(s) : u[i] = s[i] /\ s[i] \in Range(s)
  BY InConcat DEF Range
<1>b. \A i \in Len(s) + 1..Len(u) : u[i] = t[i - Len(s)] /\ i - Len(s) \in 1..Len(t) /\ t[i - Len(s)] \in Range(t)
  BY <1>0, InConcat DEF Range
<1> HIDE DEF u
<1>1. Sorted(u)
  <2> SUFFICES ASSUME NEW i \in 1..Len(u), NEW j \in 1..Len(u), i < j PROVE Before(u[i], u[j])
    BY DEF Sorted
  <2>1. CASE j <= Len(s)
    BY <2>1, <1>0, <1>a DEF Sorted
  <2>2. CASE i <= Len(s) /\ j > Len(s)
    BY <2>2, <1>0, <1>a, <1>b
  <2>3. CASE i > Len(s)
    <3>1. i \in Len(s) + 1..Len(u) /\ j \in Len(s) + 1..Len(u) /\ i - Len(s) < j - Len(s)
      BY <2>3, <1>0
    <3> QED
      BY <3>1, <1>b DEF Sorted
  <2> QED
    BY <2>1, <2>2, <2>3, <1>0
<1>2. InOrder(u)
  <2> SUFFICES ASSUME NEW i \in 2..Len(u), u[i][1] \in Later
               PROVE  u[i - 1] = <<Prior(u[i][1]), u[i][2]>>
    BY DEF InOrder
  <2>1. CASE i <= Len(s)
    <3>1. i \in 2..Len(s) /\ i - 1 \in 1..Len(s) /\ u[i] = s[i] /\ u[i - 1] = s[i - 1]
      BY <2>1, <1>0, <1>a
    <3> QED
      BY <3>1 DEF InOrder
  <2>2. CASE i = Len(s) + 1
    BY <2>2, <1>0, <1>b DEF FromStart
  <2>3. CASE i > Len(s) + 1
    <3>1. /\ i \in Len(s) + 1..Len(u) /\ i - 1 \in Len(s) + 1..Len(u)
          /\ i - Len(s) \in 2..Len(t) /\ (i - 1) - Len(s) = (i - Len(s)) - 1
      BY <2>3, <1>0
    <3>2. u[i] = t[i - Len(s)] /\ u[i - 1] = t[(i - Len(s)) - 1]
      BY <3>1, <1>b
    <3> QED
      BY <3>1, <3>2 DEF InOrder
  <2> QED
    BY <2>1, <2>2, <2>3, <1>0
<1>3. Follow(u)
  <2> SUFFICES ASSUME NEW i \in 1..Len(u)
               PROVE  /\ u[i][1] = "restore" => i + 2 <= Len(u) /\ u[i + 2] = <<"unprogid", u[i][2]>>
                      /\ u[i][1] = "unlist" => i + 1 <= Len(u) /\ u[i + 1] = <<"unprogid", u[i][2]>>
    BY DEF Follow
  <2>1. CASE i <= Len(s)
    <3>1. i \in 1..Len(s) /\ u[i] = s[i]
      BY <2>1, <1>a
    <3>2. CASE u[i][1] = "restore"
      <4>1. i + 2 <= Len(s) /\ s[i + 2] = <<"unprogid", u[i][2]>>
        BY <3>1, <3>2 DEF Follow
      <4>2. i + 2 \in 1..Len(s)
        BY <4>1, <1>0
      <4> QED
        BY <4>1, <4>2, <1>a, <1>0, <3>2
    <3>3. CASE u[i][1] = "unlist"
      <4>1. i + 1 <= Len(s) /\ s[i + 1] = <<"unprogid", u[i][2]>>
        BY <3>1, <3>3 DEF Follow
      <4>2. i + 1 \in 1..Len(s)
        BY <4>1, <1>0
      <4> QED
        BY <4>1, <4>2, <1>a, <1>0, <3>3
    <3> QED
      BY <3>2, <3>3
  <2>2. CASE i > Len(s)
    <3>1. i \in Len(s) + 1..Len(u) /\ i - Len(s) \in 1..Len(t) /\ u[i] = t[i - Len(s)]
      BY <2>2, <1>0, <1>b
    <3>2. CASE u[i][1] = "restore"
      <4>1. (i - Len(s)) + 2 <= Len(t) /\ t[(i - Len(s)) + 2] = <<"unprogid", u[i][2]>>
        BY <3>1, <3>2 DEF Follow
      <4>2. i + 2 \in Len(s) + 1..Len(u) /\ (i + 2) - Len(s) = (i - Len(s)) + 2
        BY <4>1, <3>1, <1>0
      <4> QED
        BY <4>1, <4>2, <1>b, <1>0, <3>2
    <3>3. CASE u[i][1] = "unlist"
      <4>1. (i - Len(s)) + 1 <= Len(t) /\ t[(i - Len(s)) + 1] = <<"unprogid", u[i][2]>>
        BY <3>1, <3>3 DEF Follow
      <4>2. i + 1 \in Len(s) + 1..Len(u) /\ (i + 1) - Len(s) = (i - Len(s)) + 1
        BY <4>1, <3>1, <1>0
      <4> QED
        BY <4>1, <4>2, <1>b, <1>0, <3>3
    <3> QED
      BY <3>2, <3>3
  <2> QED
    BY <2>1, <2>2, <1>0
<1> QED
  BY <1>1, <1>2, <1>3 DEF u

-----------------------------------------------------------------------------
(* The lists of keys.                                                       *)

\* Everything in the same of the two classes that may repeat is in order.
LEMMA SameRank ==
  ASSUME NEW seq, NEW n \in {1, 4}, \A i \in 1..Len(seq) : Rank(seq[i]) = n
  PROVE  Sorted(seq)
BY DEF Sorted, Before

\* The place i of a list of rows of n is in this row and this column.
Row(i, n) == 1 + ((i - 1) \div n)
Col(i, n) == 1 + ((i - 1) % n)
Place(k, j, n) == n * (k - 1) + j
Size(n, rows) == n * rows

LEMMA RowAndCol ==
  ASSUME NEW n \in {1, 4, 5}, NEW rows \in Nat, NEW i \in 1..Size(n, rows)
  PROVE  Row(i, n) \in 1..rows /\ Col(i, n) \in 1..n /\ i = Place(Row(i, n), Col(i, n), n)
<1>1. CASE n = 1
  BY <1>1 DEF Row, Col, Place, Size
<1>2. CASE n = 4
  BY <1>2 DEF Row, Col, Place, Size
<1>3. CASE n = 5
  BY <1>3 DEF Row, Col, Place, Size
<1> QED
  BY <1>1, <1>2, <1>3

LEMMA PlaceOf ==
  ASSUME NEW n \in {1, 4, 5}, NEW rows \in Nat, NEW k \in 1..rows, NEW j \in 1..n
  PROVE  Place(k, j, n) \in 1..Size(n, rows)
<1>1. CASE n = 1
  BY <1>1 DEF Place, Size
<1>2. CASE n = 4
  BY <1>2 DEF Place, Size
<1>3. CASE n = 5
  BY <1>3 DEF Place, Size
<1> QED
  BY <1>1, <1>2, <1>3

LEMMA OfPlace ==
  ASSUME NEW n \in {1, 4, 5}, NEW k \in Nat \ {0}, NEW j \in 1..n
  PROVE  /\ Row(Place(k, j, n), n) = k /\ Col(Place(k, j, n), n) = j
<1>1. CASE n = 1
  BY <1>1 DEF Row, Col, Place
<1>2. CASE n = 4
  BY <1>2 DEF Row, Col, Place
<1>3. CASE n = 5
  BY <1>3 DEF Row, Col, Place
<1> QED
  BY <1>1, <1>2, <1>3

\* From column c to column j of the same row.
Shift(i, j, c) == i + j - c

LEMMA SameRow ==
  ASSUME NEW n \in {1, 4, 5}, NEW k \in Nat \ {0}, NEW j \in 1..n, NEW c \in 1..n
  PROVE  Shift(Place(k, c, n), j, c) = Place(k, j, n)
<1>1. CASE n = 1
  BY <1>1 DEF Place, Shift
<1>2. CASE n = 4
  BY <1>2 DEF Place, Shift
<1>3. CASE n = 5
  BY <1>3 DEF Place, Shift
<1> QED
  BY <1>1, <1>2, <1>3

\* W lists the keys `ops` of each of the extensions `exts`.
Lists(W, ops, exts, n) ==
    /\ Len(W) = Size(n, Len(exts)) /\ Len(W) \in Nat /\ W = [i \in 1..Len(W) |-> W[i]]
    /\ \A i \in 1..Len(W) : W[i] = <<ops[Col(i, n)], exts[Row(i, n)]>>

LEMMA Rows ==
  ASSUME NEW ops, NEW exts, NEW n \in {1, 4, 5}, Len(ops) = n, Len(exts) \in Nat
  PROVE  Lists(Each(ops, exts), ops, exts, n)
<1> DEFINE W == Each(ops, exts)
<1>1. Size(n, Len(exts)) \in Nat
  BY DEF Size
<1>2. W = [i \in 1..Size(n, Len(exts)) |-> <<ops[Col(i, n)], exts[Row(i, n)]>>]
  BY DEF Each, Row, Col, Size
<1> HIDE DEF W
<1>3. W \in Seq({W[i] : i \in 1..Size(n, Len(exts))}) /\ Len(W) = Size(n, Len(exts))
  BY <1>1, <1>2
<1> QED
  BY <1>1, <1>2, <1>3 DEF Lists, W

LEMMA Listed ==
  ASSUME NEW W, NEW ops, NEW exts, NEW n, Lists(W, ops, exts, n),
         NEW S, \A i \in 1..Len(W) : W[i] \in S
  PROVE  W \in Seq(S)
BY DEF Lists

\* Neighbours in a row.
Neighbour(W, ops, n, i, j) ==
    Shift(i, j, Col(i, n)) \in 1..Len(W) /\ W[Shift(i, j, Col(i, n))] = <<ops[j], W[i][2]>>

LEMMA InRow ==
  ASSUME NEW W, NEW ops, NEW exts, NEW n \in {1, 4, 5}, Len(exts) \in Nat, Lists(W, ops, exts, n),
         NEW i \in 1..Len(W), NEW j \in 1..n
  PROVE  Neighbour(W, ops, n, i, j)
<1> DEFINE k == Row(i, n)
           c == Col(i, n)
<1>0. Len(W) = Size(n, Len(exts))
  BY DEF Lists
<1>1. k \in 1..Len(exts) /\ c \in 1..n /\ i = Place(k, c, n)
  BY <1>0, RowAndCol
<1>2. W[i] = <<ops[c], exts[k]>>
  BY DEF Lists
<1> HIDE DEF k, c
<1>3. Place(k, j, n) \in 1..Size(n, Len(exts))
  BY <1>1, PlaceOf
<1>3a. Row(Place(k, j, n), n) = k /\ Col(Place(k, j, n), n) = j
  BY <1>1, OfPlace
<1>3b. Shift(Place(k, c, n), j, c) = Place(k, j, n)
  BY <1>1, SameRow
<1>4. W[Place(k, j, n)] = <<ops[j], exts[k]>>
  BY <1>0, <1>3, <1>3a DEF Lists
<1> QED
  BY <1>0, <1>1, <1>2, <1>3, <1>3a, <1>3b, <1>4 DEF c, Neighbour

LEMMA InList ==
  ASSUME NEW W, NEW ops, NEW exts, NEW n \in {1, 4, 5}, Len(exts) \in Nat, Lists(W, ops, exts, n),
         NEW i \in 1..Len(W)
  PROVE  /\ Col(i, n) \in 1..n /\ Row(i, n) \in 1..Len(exts)
         /\ W[i][1] = ops[Col(i, n)] /\ W[i][2] = exts[Row(i, n)]
         /\ W[i] = <<ops[Col(i, n)], exts[Row(i, n)]>>
<1>1. i \in 1..Size(n, Len(exts))
  BY DEF Lists
<1>2. Col(i, n) \in 1..n /\ Row(i, n) \in 1..Len(exts)
  BY <1>1, RowAndCol
<1> QED
  BY <1>2 DEF Lists

LEMMA OnList ==
  ASSUME NEW W, NEW ops, NEW exts, NEW n \in {1, 4, 5}, Len(exts) \in Nat, Lists(W, ops, exts, n),
         NEW k \in 1..Len(exts), NEW j \in 1..n
  PROVE  <<ops[j], exts[k]>> \in Range(W)
<1>0. Len(W) = Size(n, Len(exts))
  BY DEF Lists
<1>1. Place(k, j, n) \in 1..Size(n, Len(exts))
  BY PlaceOf
<1>2. Row(Place(k, j, n), n) = k /\ Col(Place(k, j, n), n) = j
  BY OfPlace
<1>3. W[Place(k, j, n)] = <<ops[j], exts[k]>>
  BY <1>0, <1>1, <1>2 DEF Lists
<1> QED
  BY <1>0, <1>1, <1>3 DEF Lists, Range

LEMMA RegisterList ==
  ASSUME NEW exts \in Seq(Ext), NEW W, W = Each(Register, exts)
  PROVE  /\ W \in Seq(On \X Ext) /\ FromStart(W) /\ Sorted(W) /\ InOrder(W) /\ Follow(W)
         /\ \A s \in Range(W) : s \in On \X Ext /\ \E k \in 1..Len(exts) : s[2] = exts[k]
         /\ \A k \in 1..Len(exts) : <<"list", exts[k]>> \in Range(W)
<1>1. /\ Register[1] = "progid" /\ Register[2] = "backup" /\ Register[3] = "class" /\ Register[4] = "list"
      /\ Len(Register) = 4 /\ Register \in Seq(On)
  BY DEF Register, On
<1>2. Lists(W, Register, exts, 4) /\ Len(exts) \in Nat
  BY <1>1, Rows
<1>2a. \A i \in 1..Len(W) : /\ Col(i, 4) \in 1..4 /\ Row(i, 4) \in 1..Len(exts)
                            /\ W[i][1] = Register[Col(i, 4)] /\ W[i][2] = exts[Row(i, 4)]
                            /\ W[i] = <<Register[Col(i, 4)], exts[Row(i, 4)]>>
  BY <1>2, InList
<1>2c. ASSUME NEW k \in 1..Len(exts) PROVE <<Register[4], exts[k]>> \in Range(W)
  <2>1. 4 \in {1, 4, 5} /\ 4 \in 1..4
    OBVIOUS
  <2> QED
    BY <1>2, <2>1, OnList, Zenon
<1>2b. Len(W) \in Nat /\ DOMAIN W = 1..Len(W)
  BY <1>2 DEF Lists
<1>3. \A i \in 1..Len(W) : W[i] \in On \X Ext /\ W[i][1] \in On
  <2> SUFFICES ASSUME NEW i \in 1..Len(W) PROVE W[i] \in On \X Ext /\ W[i][1] \in On
    OBVIOUS
  <2>1. Col(i, 4) \in 1..4 /\ Row(i, 4) \in 1..Len(exts)
        /\ W[i] = <<Register[Col(i, 4)], exts[Row(i, 4)]>>
    BY <1>2a
  <2>2. Register[Col(i, 4)] \in On
    <3>1. Col(i, 4) = 1 \/ Col(i, 4) = 2 \/ Col(i, 4) = 3 \/ Col(i, 4) = 4
      BY <2>1
    <3> QED
      BY <3>1, <1>1 DEF On
  <2>3. exts[Row(i, 4)] \in Ext
    BY <2>1
  <2> QED
    BY <2>1, <2>2, <2>3
<1>3a. W \in Seq(On \X Ext)
  BY <1>2, <1>3, Listed
<1>4. Sorted(W)
  <2>1. \A i \in 1..Len(W) : Rank(W[i]) = 4
    BY <1>3 DEF Rank, On, MenuOps
  <2> QED
    BY <2>1, SameRank
<1>5. ASSUME NEW i \in 1..Len(W), W[i][1] \in Later
      PROVE  i - 1 \in 1..Len(W) /\ W[i - 1] = <<Prior(W[i][1]), W[i][2]>>
  <2>1. Col(i, 4) \in 1..4 /\ W[i][1] = Register[Col(i, 4)]
    BY <1>2a
  <2>2. Col(i, 4) # 1
    BY <2>1, <1>1, <1>5 DEF Later
  <2>3. PICK j \in 1..4 : j + 1 = Col(i, 4)
    <3>1. Col(i, 4) - 1 \in 1..4 /\ (Col(i, 4) - 1) + 1 = Col(i, 4)
      BY <2>1, <2>2
    <3> QED
      BY <3>1
  <2>3a. Shift(i, j, Col(i, 4)) = i - 1
    BY <2>1, <2>3 DEF Shift
  <2>4. i - 1 \in 1..Len(W) /\ W[i - 1] = <<Register[j], W[i][2]>>
    <3>1. Neighbour(W, Register, 4, i, j)
      BY <1>2, InRow
    <3> QED
      BY <3>1, <2>3a DEF Neighbour
  <2>5. Register[j] = Prior(Register[Col(i, 4)])
    <3>1. Col(i, 4) = 2 \/ Col(i, 4) = 3 \/ Col(i, 4) = 4
      BY <2>1, <2>2
    <3> QED
      BY <3>1, <2>3, <1>1 DEF Prior
  <2> QED
    BY <2>1, <2>4, <2>5
<1>6. InOrder(W)
  BY <1>5, <1>2b DEF InOrder
<1>7. FromStart(W)
  BY <1>5, <1>2b DEF FromStart
<1>8. Follow(W)
  BY <1>3 DEF Follow, On
<1>9. \A s \in Range(W) : s \in On \X Ext /\ \E k \in 1..Len(exts) : s[2] = exts[k]
  <2> SUFFICES ASSUME NEW i \in 1..Len(W)
               PROVE  W[i] \in On \X Ext /\ \E k \in 1..Len(exts) : W[i][2] = exts[k]
    BY <1>2b DEF Range
  <2>1. W[i][2] = exts[Row(i, 4)] /\ Row(i, 4) \in 1..Len(exts)
    BY <1>2a
  <2> QED
    BY <2>1, <1>3
<1>10. ASSUME NEW k \in 1..Len(exts) PROVE <<"list", exts[k]>> \in Range(W)
  BY <1>1, <1>2c
<1> QED
  BY <1>3a, <1>4, <1>6, <1>7, <1>8, <1>9, <1>10

LEMMA UnregisterList ==
  ASSUME NEW exts \in Seq(Ext), NEW W, W = Each(Unregister, exts)
  PROVE  /\ W \in Seq(Off \X Ext) /\ FromStart(W) /\ Sorted(W) /\ InOrder(W) /\ Follow(W)
         /\ \A s \in Range(W) : s \in Off \X Ext /\ \E k \in 1..Len(exts) : s[2] = exts[k]
         /\ \A k \in 1..Len(exts) : <<"forget", exts[k]>> \in Range(W)
<1>1. /\ Unregister[1] = "unchoose" /\ Unregister[2] = "restore" /\ Unregister[3] = "unlist"
      /\ Unregister[4] = "unprogid" /\ Unregister[5] = "forget"
      /\ Len(Unregister) = 5 /\ Unregister \in Seq(Off)
  BY DEF Unregister, Off
<1>2. Lists(W, Unregister, exts, 5) /\ Len(exts) \in Nat
  BY <1>1, Rows
<1>2a. \A i \in 1..Len(W) : /\ Col(i, 5) \in 1..5 /\ Row(i, 5) \in 1..Len(exts)
                            /\ W[i][1] = Unregister[Col(i, 5)] /\ W[i][2] = exts[Row(i, 5)]
                            /\ W[i] = <<Unregister[Col(i, 5)], exts[Row(i, 5)]>>
  BY <1>2, InList
<1>2c. ASSUME NEW k \in 1..Len(exts) PROVE <<Unregister[5], exts[k]>> \in Range(W)
  <2>1. 5 \in {1, 4, 5} /\ 5 \in 1..5
    OBVIOUS
  <2> QED
    BY <1>2, <2>1, OnList, Zenon
<1>2b. Len(W) \in Nat /\ DOMAIN W = 1..Len(W)
  BY <1>2 DEF Lists
<1>3. \A i \in 1..Len(W) : W[i] \in Off \X Ext /\ W[i][1] \in Off
  <2> SUFFICES ASSUME NEW i \in 1..Len(W) PROVE W[i] \in Off \X Ext /\ W[i][1] \in Off
    OBVIOUS
  <2>1. Col(i, 5) \in 1..5 /\ Row(i, 5) \in 1..Len(exts)
        /\ W[i] = <<Unregister[Col(i, 5)], exts[Row(i, 5)]>>
    BY <1>2a
  <2>2. Unregister[Col(i, 5)] \in Off
    <3>1. Col(i, 5) = 1 \/ Col(i, 5) = 2 \/ Col(i, 5) = 3 \/ Col(i, 5) = 4 \/ Col(i, 5) = 5
      BY <2>1
    <3> QED
      BY <3>1, <1>1 DEF Off
  <2>3. exts[Row(i, 5)] \in Ext
    BY <2>1
  <2> QED
    BY <2>1, <2>2, <2>3
<1>3a. W \in Seq(Off \X Ext)
  BY <1>2, <1>3, Listed
<1>4. Sorted(W)
  <2>1. \A i \in 1..Len(W) : Rank(W[i]) = 4
    BY <1>3 DEF Rank, Off, MenuOps
  <2> QED
    BY <2>1, SameRank
<1>5. ASSUME NEW i \in 1..Len(W), W[i][1] \in Later
      PROVE  i - 1 \in 1..Len(W) /\ W[i - 1] = <<Prior(W[i][1]), W[i][2]>>
  <2>1. Col(i, 5) \in 1..5 /\ W[i][1] = Unregister[Col(i, 5)]
    BY <1>2a
  <2>2. Col(i, 5) # 1
    BY <2>1, <1>1, <1>5 DEF Later
  <2>3. PICK j \in 1..5 : j + 1 = Col(i, 5)
    <3>1. Col(i, 5) - 1 \in 1..5 /\ (Col(i, 5) - 1) + 1 = Col(i, 5)
      BY <2>1, <2>2
    <3> QED
      BY <3>1
  <2>3a. Shift(i, j, Col(i, 5)) = i - 1
    BY <2>1, <2>3 DEF Shift
  <2>4. i - 1 \in 1..Len(W) /\ W[i - 1] = <<Unregister[j], W[i][2]>>
    <3>1. Neighbour(W, Unregister, 5, i, j)
      BY <1>2, InRow
    <3> QED
      BY <3>1, <2>3a DEF Neighbour
  <2>5. Unregister[j] = Prior(Unregister[Col(i, 5)])
    <3>1. Col(i, 5) = 2 \/ Col(i, 5) = 3 \/ Col(i, 5) = 4 \/ Col(i, 5) = 5
      BY <2>1, <2>2
    <3> QED
      BY <3>1, <2>3, <1>1 DEF Prior
  <2> QED
    BY <2>1, <2>4, <2>5
<1>6. InOrder(W)
  BY <1>5, <1>2b DEF InOrder
<1>7. FromStart(W)
  BY <1>5, <1>2b DEF FromStart
<1>8. ASSUME NEW i \in 1..Len(W), NEW m \in {1, 2}, W[i][1] = IF m = 1 THEN "unlist" ELSE "restore"
      PROVE  i + m <= Len(W) /\ W[i + m] = <<"unprogid", W[i][2]>>
  <2>1. Col(i, 5) \in 1..5 /\ W[i][1] = Unregister[Col(i, 5)]
    BY <1>2a
  <2>2. Col(i, 5) = 4 - m
    <3>1. Col(i, 5) = 1 \/ Col(i, 5) = 2 \/ Col(i, 5) = 3 \/ Col(i, 5) = 4 \/ Col(i, 5) = 5
      BY <2>1
    <3>2. CASE m = 1
      <4>1. Unregister[Col(i, 5)] = "unlist"
        BY <3>2, <2>1, <1>8
      <4> QED
        BY <3>1, <3>2, <4>1, <1>1
    <3>3. CASE m = 2
      <4>1. Unregister[Col(i, 5)] = "restore"
        BY <3>3, <2>1, <1>8
      <4> QED
        BY <3>1, <3>3, <4>1, <1>1
    <3> QED
      BY <3>2, <3>3
  <2>3. Shift(i, 4, Col(i, 5)) = i + m
    BY <2>2 DEF Shift
  <2>4. i + m \in 1..Len(W) /\ W[i + m] = <<Unregister[4], W[i][2]>>
    <3>1. Neighbour(W, Unregister, 5, i, 4)
      BY <1>2, InRow
    <3> QED
      BY <3>1, <2>3 DEF Neighbour
  <2> QED
    BY <2>4, <1>1
<1>9. Follow(W)
  <2> SUFFICES ASSUME NEW i \in 1..Len(W)
               PROVE  /\ W[i][1] = "restore" => i + 2 <= Len(W) /\ W[i + 2] = <<"unprogid", W[i][2]>>
                      /\ W[i][1] = "unlist" => i + 1 <= Len(W) /\ W[i + 1] = <<"unprogid", W[i][2]>>
    BY DEF Follow
  <2>1. ASSUME W[i][1] = "restore" PROVE i + 2 <= Len(W) /\ W[i + 2] = <<"unprogid", W[i][2]>>
    BY <2>1, <1>1, <1>8
  <2>2. ASSUME W[i][1] = "unlist" PROVE i + 1 <= Len(W) /\ W[i + 1] = <<"unprogid", W[i][2]>>
    BY <2>2, <1>1, <1>8
  <2> QED
    BY <2>1, <2>2
<1>10. \A s \in Range(W) : s \in Off \X Ext /\ \E k \in 1..Len(exts) : s[2] = exts[k]
  <2> SUFFICES ASSUME NEW i \in 1..Len(W)
               PROVE  W[i] \in Off \X Ext /\ \E k \in 1..Len(exts) : W[i][2] = exts[k]
    BY <1>2b DEF Range
  <2>1. W[i][2] = exts[Row(i, 5)] /\ Row(i, 5) \in 1..Len(exts)
    BY <1>2a
  <2> QED
    BY <2>1, <1>3
<1>11. ASSUME NEW k \in 1..Len(exts) PROVE <<"forget", exts[k]>> \in Range(W)
  BY <1>1, <1>2c
<1> QED
  BY <1>3a, <1>4, <1>6, <1>7, <1>9, <1>10, <1>11

\* The two handler keys.
LEMMA LinkList ==
  ASSUME NEW op \in {"link", "unlink"}, NEW W, W = Each(<<op>>, SetToSeq(Handlers))
  PROVE  W \in Seq({op} \X Handlers) /\ Range(W) = {op} \X Handlers
<1> DEFINE order == SetToSeq(Handlers)
<1>1. order \in Seq(Handlers) /\ \A h \in Handlers : \E i \in 1..Len(order) : order[i] = h
  BY SomeOrder, RegistrationAssumption
<1>2. W = Each(<<op>>, order)
  OBVIOUS
<1> HIDE DEF order
<1>3. <<op>> \in Seq({op}) /\ Len(<<op>>) = 1 /\ <<op>>[1] = op
  OBVIOUS
<1>4. Lists(W, <<op>>, order, 1) /\ Len(order) \in Nat
  BY <1>1, <1>2, <1>3, Rows
<1>4a. \A i \in 1..Len(W) : W[i] \in {op} \X Handlers
  <2> SUFFICES ASSUME NEW i \in 1..Len(W) PROVE W[i] \in {op} \X Handlers
    OBVIOUS
  <2>1. /\ Col(i, 1) \in 1..1 /\ Row(i, 1) \in 1..Len(order)
        /\ W[i] = <<<<op>>[Col(i, 1)], order[Row(i, 1)]>>
    BY <1>4, InList
  <2>2. Col(i, 1) = 1
    BY <2>1
  <2>3. order[Row(i, 1)] \in Handlers
    BY <2>1, <1>1
  <2>4. W[i] = <<op, order[Row(i, 1)]>>
    BY <2>1, <2>2, <1>3
  <2>5. \A h \in Handlers : <<op, h>> \in {op} \X Handlers
    OBVIOUS
  <2> QED
    BY <2>3, <2>4, <2>5
<1>4b. W \in Seq({op} \X Handlers)
  BY <1>4, <1>4a, Listed
<1>5. Range(W) \subseteq {op} \X Handlers
  BY <1>4b DEF Range
<1>6. ASSUME NEW h \in Handlers PROVE <<op, h>> \in Range(W)
  <2>1. PICK k \in 1..Len(order) : order[k] = h
    BY <1>1
  <2>2. <<<<op>>[1], order[k]>> \in Range(W)
    <3>1. 1 \in {1, 4, 5} /\ 1 \in 1..1
      OBVIOUS
    <3> QED
      BY <1>4, <3>1, OnList, Zenon
  <2> QED
    BY <2>1, <2>2
<1> QED
  BY <1>4b, <1>5, <1>6

-----------------------------------------------------------------------------
(* The work stays in order.                                                 *)

\* A step is an operation with what it is for.
LEMMA StepPair ==
  ASSUME NEW s \in StepSet
  PROVE  /\ s = <<s[1], s[2]>> /\ Rank(s) \in 1..6
         /\ s[1] \in On \cup Off => s[2] \in Ext /\ Rank(s) = 4
         /\ s[1] \in {"assoc", "synced"} => s[2] \in SUBSET Ext /\ Rank(s) = 5
         /\ s[1] \in {"menu", "remenu", "menus"} => s[2] \in BOOLEAN /\ Rank(s) = 2
         /\ s[1] \in {"link", "unlink"} => s[2] \in Handlers
         /\ s[1] \in MenuOps => Rank(s) = 1
         /\ s[1] = "save" => s[2] \in Settings /\ Rank(s) = 3
         /\ s[1] = "drop" => s[2] = "file" /\ Rank(s) = 6
<1>1. CASE s \in (On \cup Off) \X Ext
  BY <1>1 DEF On, Off, MenuOps, Rank
<1>2. CASE s \in {"assoc", "synced"} \X SUBSET Ext
  BY <1>2 DEF On, Off, MenuOps, Rank
<1>3. CASE s \in {"menu", "remenu", "menus"} \X BOOLEAN
  BY <1>3 DEF On, Off, MenuOps, Rank
<1>4. CASE s \in {"link", "unlink"} \X Handlers
  BY <1>4 DEF On, Off, MenuOps, Rank
<1>5. CASE s \in {"clsid", "unclsid", "package", "unpackage"} \X {"menu"}
  BY <1>5 DEF On, Off, MenuOps, Rank
<1>6. CASE s \in {"save"} \X Settings
  BY <1>6 DEF On, Off, MenuOps, Rank
<1>7. CASE s \in {"drop"} \X {"file"}
  BY <1>7 DEF On, Off, MenuOps, Rank
<1> QED
  BY <1>1, <1>2, <1>3, <1>4, <1>5, <1>6, <1>7 DEF StepSet

\* The rank tells what a step is.
LEMMA RankOf ==
  ASSUME NEW s \in StepSet
  PROVE  /\ Rank(s) = 1 => s[1] \in MenuOps
         /\ Rank(s) = 2 => s[1] \in {"menu", "remenu", "menus"}
         /\ Rank(s) = 3 => s[1] = "save"
         /\ Rank(s) = 4 => s[1] \in On \cup Off
         /\ Rank(s) = 5 => s[1] \in {"assoc", "synced"}
         /\ Rank(s) = 6 => s[1] = "drop"
BY DEF StepSet, Rank, On, Off, MenuOps

LEMMA OfRange ==
  ASSUME NEW S, NEW seq \in Seq(S)
  PROVE  /\ \A x \in Range(seq) : x \in S /\ \E i \in 1..Len(seq) : x = seq[i]
         /\ \A i \in 1..Len(seq) : seq[i] \in Range(seq)
BY DEF Range

\* What is left of the work after a step is in order.
LEMMA AgendaLeft ==
  ASSUME NEW s \in Seq(StepSet), NEW k \in 1..Len(s) + 1, NEW t \in Seq(StepSet),
         Len(t) = Len(s) - k + 1, \A i \in 1..Len(t) : t[i] = s[i + k - 1], Agenda(s)
  PROVE  /\ Agenda(t) /\ Range(t) \subseteq Range(s)
         /\ \A x \in Range(s) : x \in Range(t) \/ \A y \in Range(t) : Before(x, y)
<1>0. Len(s) \in Nat /\ Len(t) \in Nat
  OBVIOUS
<1>1. Sorted(t) /\ InOrder(t) /\ Follow(t) /\ Range(t) \subseteq Range(s)
  BY OrderLeft DEF Agenda
<1>2. ASSUME NEW x \in Range(s), x \notin Range(t), NEW y \in Range(t) PROVE Before(x, y)
  <2>1. PICK i \in 1..Len(s) : x = s[i]
    BY OfRange
  <2>2. PICK j \in 1..Len(t) : y = t[j]
    BY OfRange
  <2>3. i < k
    <3> SUFFICES ASSUME i >= k PROVE FALSE
      BY <1>0
    <3>1. i - k + 1 \in 1..Len(t) /\ (i - k + 1) + k - 1 = i
      BY <1>0
    <3>2. t[i - k + 1] = x
      BY <3>1, <2>1
    <3> QED
      BY <3>1, <3>2, <1>2, OfRange
  <2>4. j + k - 1 \in 1..Len(s) /\ i < j + k - 1 /\ y = s[j + k - 1]
    BY <1>0, <2>2, <2>3
  <2> QED
    BY <2>1, <2>4 DEF Agenda, Sorted
<1>3. \A x \in Range(s) : x \in StepSet
  BY OfRange
<1>4. EndComes(t)
  <2> SUFFICES ASSUME NEW x \in Range(t), x[1] \in On \cup Off
               PROVE  \E wanted \in SUBSET Ext :
                          <<"synced", wanted>> \in Range(t) /\ (x[2] \in wanted <=> x[1] \in On)
    BY DEF EndComes
  <2>1. PICK wanted \in SUBSET Ext : <<"synced", wanted>> \in Range(s) /\ (x[2] \in wanted <=> x[1] \in On)
    BY <1>1 DEF Agenda, EndComes
  <2>2. Rank(x) = 4 /\ Rank(<<"synced", wanted>>) = 5
    BY <1>1, <1>3, <2>1, StepPair
  <2>3. <<"synced", wanted>> \in Range(t)
    BY <1>2, <2>1, <2>2 DEF Before
  <2> QED
    BY <2>1, <2>3
<1>5. Expanded(t)
  BY <1>1 DEF Agenda, Expanded
<1>6. Saving(t)
  BY <1>1 DEF Agenda, Saving
<1>7. MenuEnd(t)
  <2> SUFFICES ASSUME NEW x \in Range(t), NEW b \in BOOLEAN,
                      x[1] \in IF b THEN {"clsid", "link", "package"} ELSE {"unlink", "unclsid"}
               PROVE  <<"menus", b>> \in Range(t)
    BY DEF MenuEnd
  <2>1. <<"menus", b>> \in Range(s)
    BY <1>1 DEF Agenda, MenuEnd
  <2>2. Rank(x) = 1 /\ Rank(<<"menus", b>>) = 2
    BY <1>1, <1>3, <2>1, StepPair DEF MenuOps
  <2> QED
    BY <1>2, <2>1, <2>2 DEF Before
<1> QED
  BY <1>1, <1>2, <1>4, <1>5, <1>6, <1>7 DEF Agenda

LEMMA AgendaTail ==
  ASSUME NEW s \in Seq(StepSet), s # <<>>, Agenda(s)
  PROVE  /\ Tail(s) \in Seq(StepSet) /\ Agenda(Tail(s)) /\ Head(s) \in StepSet
         /\ Range(s) = {Head(s)} \cup Range(Tail(s))
         /\ \A y \in Range(Tail(s)) : y \in StepSet /\ Before(Head(s), y)
<1>1. Tail(s) \in Seq(StepSet) /\ Len(Tail(s)) = Len(s) - 2 + 1 /\ 2 \in 1..Len(s) + 1
      /\ \A i \in 1..Len(Tail(s)) : Tail(s)[i] = s[i + 2 - 1]
  OBVIOUS
<1>2. Agenda(Tail(s))
  BY <1>1, AgendaLeft
<1>3. Head(s) \in StepSet /\ Range(s) = {Head(s)} \cup Range(Tail(s))
  BY InTail
<1>4. ASSUME NEW y \in Range(Tail(s)) PROVE y \in StepSet /\ Before(Head(s), y)
  <2>1. PICK i \in 1..Len(Tail(s)) : y = Tail(s)[i]
    BY <1>1, OfRange
  <2>2. i + 1 \in 1..Len(s) /\ 1 \in 1..Len(s) /\ 1 < i + 1 /\ y = s[i + 1] /\ Head(s) = s[1]
    BY <1>1, <2>1
  <2> QED
    BY <2>2 DEF Agenda, Sorted
<1> QED
  BY <1>1, <1>2, <1>3, <1>4

\* A key that needs another one is next after it.
LEMMA HeadPrior ==
  ASSUME NEW s \in Seq(StepSet), s # <<>>, Agenda(s), Tail(s) # <<>>, Head(Tail(s))[1] \in Later
  PROVE  Head(s) = <<Prior(Head(Tail(s))[1]), Head(Tail(s))[2]>>
<1>1. Len(s) \in Nat /\ Len(s) >= 2 /\ Head(Tail(s)) = s[2] /\ Head(s) = s[1]
  OBVIOUS
<1>2. s[2 - 1] = <<Prior(s[2][1]), s[2][2]>>
  BY <1>1 DEF Agenda, InOrder
<1> QED
  BY <1>1, <1>2

\* A sync has one end.
LEMMA OneEnd ==
  ASSUME NEW s \in Seq(StepSet), Agenda(s), NEW x \in Range(s), NEW y \in Range(s),
         Rank(x) = Rank(y), Rank(x) \notin {1, 4}
  PROVE  x = y
<1>1. PICK i \in 1..Len(s) : x = s[i]
  BY OfRange
<1>2. PICK j \in 1..Len(s) : y = s[j]
  BY OfRange
<1>3. Rank(x) \in 1..6
  BY OfRange, StepPair
<1>4. ~ i < j
  BY <1>1, <1>2, <1>3 DEF Agenda, Sorted, Before
<1>5. ~ j < i
  BY <1>1, <1>2, <1>3 DEF Agenda, Sorted, Before
<1> QED
  BY <1>1, <1>2, <1>4, <1>5

\* Steps of the same class that may be repeated, and begin no list.
LEMMA PlainOrder ==
  ASSUME NEW s \in Seq(StepSet), \A x \in Range(s) : Rank(x) = 1
  PROVE  Sorted(s) /\ InOrder(s) /\ Follow(s)
<1>1. \A i \in 1..Len(s) : Rank(s[i]) = 1 /\ s[i] \in StepSet
  BY OfRange
<1>2. Sorted(s)
  BY <1>1, SameRank
<1>3. \A i \in 1..Len(s) : s[i][1] \in MenuOps
  BY <1>1, RankOf
<1>4. InOrder(s)
  BY <1>3 DEF InOrder, MenuOps, Later, On, Off
<1>5. Follow(s)
  BY <1>3 DEF Follow, MenuOps
<1> QED
  BY <1>2, <1>4, <1>5

LEMMA OneOrder ==
  ASSUME NEW x \in StepSet, x[1] \notin On \cup Off
  PROVE  Sorted(<<x>>) /\ InOrder(<<x>>) /\ Follow(<<x>>) /\ FromStart(<<x>>)
<1>1. Len(<<x>>) = 1 /\ <<x>>[1] = x
  OBVIOUS
<1> HIDE DEF Sorted
<1> QED
  BY <1>1 DEF Sorted, InOrder, Follow, FromStart, Later, On, Off

LEMMA NoneOrder ==
  Agenda(<<>>) /\ FromStart(<<>>)
<1>1. Len(<<>>) = 0 /\ Range(<<>>) = {}
  BY InNone
<1> QED
  BY <1>1 DEF Agenda, Sorted, InOrder, Follow, EndComes, Expanded, Saving, MenuEnd, FromStart

\* The rest of the work begins no list in the middle, if a list was not begun.
LEMMA StartLeft ==
  ASSUME NEW s \in Seq(StepSet), s # <<>>, Agenda(s), Head(s)[1] \notin On \cup Off
  PROVE  FromStart(Tail(s))
<1>1. SUFFICES ASSUME Len(Tail(s)) > 0, Tail(s)[1][1] \in Later PROVE FALSE
  BY DEF FromStart
<1>2. Tail(s) # <<>> /\ Head(Tail(s)) = Tail(s)[1]
  BY <1>1
<1>3. Head(s)[1] = Prior(Head(Tail(s))[1])
  BY <1>1, <1>2, HeadPrior
<1>4. Prior(Head(Tail(s))[1]) \in On \cup Off
  BY <1>1, <1>2 DEF Prior, Later, On, Off
<1> QED
  BY <1>3, <1>4

LEMMA Joined ==
  ASSUME NEW S, NEW s \in Seq(S), NEW t \in Seq(S)
  PROVE  s \o t \in Seq(S) /\ Range(s \o t) = Range(s) \cup Range(t)
BY InConcat

LEMMA StartJoined ==
  ASSUME NEW S, NEW s \in Seq(S), NEW t \in Seq(S), FromStart(s), FromStart(t)
  PROVE  FromStart(s \o t)
<1>1. Len(s) \in Nat /\ Len(t) \in Nat /\ Len(s \o t) = Len(s) + Len(t)
  BY InConcat
<1>2. CASE Len(s) # 0
  <2>1. (s \o t)[1] = s[1]
    BY <1>1, <1>2, InConcat
  <2> QED
    BY <1>1, <1>2, <2>1 DEF FromStart
<1>3. CASE Len(s) = 0
  <2>1. s \o t = t
    BY <1>3
  <2> QED
    BY <2>1
<1> QED
  BY <1>2, <1>3

\* t is the work s with the sync of A in the place of the request for it.
SyncWork(t, s, A, ours) ==
    /\ t \in Seq(StepSet) /\ Agenda(t) /\ FromStart(t)
    /\ \A x \in Range(t) : /\ Rank(x) \in {4, 5, 6} /\ x \notin {"assoc"} \X SUBSET Ext
                           /\ x[1] = "synced" => x = <<"synced", A>>
                           /\ x[1] = "drop" => x \in Range(s)
    /\ \A e \in A : <<"list", e>> \in Range(t)
    /\ \A e \in ours \ A : <<"forget", e>> \in Range(t)

\* A sync of the associations in the place of the request.
LEMMA AgendaSync ==
  ASSUME NEW s \in Seq(StepSet), s # <<>>, Agenda(s), NEW A \in SUBSET Ext, Head(s) = <<"assoc", A>>,
         NEW ours \in SUBSET Ext, NEW out \in SetToSeqs(ours \ A), NEW in \in SetToSeqs(A), NEW t,
         t = Each(Unregister, out) \o Each(Register, in) \o <<<<"synced", A>>>> \o Tail(s)
  PROVE  SyncWork(t, s, A, ours)
<1> DEFINE U == Each(Unregister, out)
           R == Each(Register, in)
           E == <<<<"synced", A>>>>
           T == Tail(s)
<1>1. /\ IsFiniteSet(ours \ A) /\ IsFiniteSet(A)
  BY FS_Subset, RegistrationAssumption
<1>2. /\ out \in Seq(ours \ A) /\ \A e \in ours \ A : \E i \in 1..Len(out) : out[i] = e
      /\ in \in Seq(A) /\ \A e \in A : \E i \in 1..Len(in) : in[i] = e
  <2>1. out \in Seq(ours \ A) /\ \A e \in ours \ A : \E i \in 1..Len(out) : out[i] = e
    <3> DEFINE D == ours \ A
    <3>1. IsFiniteSet(D) /\ out \in SetToSeqs(D)
      BY <1>1
    <3> HIDE DEF D
    <3>2. out \in Seq(D) /\ \A e \in D : \E i \in 1..Len(out) : out[i] = e
      BY <3>1, OrderOf, Zenon
    <3> QED
      BY <3>2 DEF D
  <2>2. in \in Seq(A) /\ \A e \in A : \E i \in 1..Len(in) : in[i] = e
    BY <1>1, OrderOf, Zenon
  <2> QED
    BY <2>1, <2>2, Zenon
<1>3. out \in Seq(Ext) /\ in \in Seq(Ext)
  BY <1>2
<1>4. /\ U \in Seq(Off \X Ext) /\ FromStart(U) /\ Sorted(U) /\ InOrder(U) /\ Follow(U)
      /\ \A x \in Range(U) : x \in Off \X Ext /\ \E k \in 1..Len(out) : x[2] = out[k]
      /\ \A k \in 1..Len(out) : <<"forget", out[k]>> \in Range(U)
  BY <1>3, UnregisterList
<1>5. /\ R \in Seq(On \X Ext) /\ FromStart(R) /\ Sorted(R) /\ InOrder(R) /\ Follow(R)
      /\ \A x \in Range(R) : x \in On \X Ext /\ \E k \in 1..Len(in) : x[2] = in[k]
      /\ \A k \in 1..Len(in) : <<"list", in[k]>> \in Range(R)
  BY <1>3, RegisterList
<1>6. /\ T \in Seq(StepSet) /\ Agenda(T) /\ Range(s) = {Head(s)} \cup Range(T)
      /\ \A y \in Range(T) : y \in StepSet /\ Before(Head(s), y)
  BY AgendaTail
<1>7. FromStart(T)
  <2>1. Head(s)[1] \notin On \cup Off
    BY DEF On, Off
  <2> QED
    BY <2>1, StartLeft
<1> HIDE DEF U, R, T
<1>8. U \in Seq(StepSet) /\ R \in Seq(StepSet)
  <2>1. Off \X Ext \subseteq StepSet /\ On \X Ext \subseteq StepSet
    BY DEF StepSet
  <2> QED
    BY <2>1, <1>4, <1>5
<1>9. <<"synced", A>> \in StepSet /\ Rank(<<"synced", A>>) = 5 /\ Head(s) \in StepSet /\ Rank(Head(s)) = 5
  BY StepPair, AgendaTail DEF StepSet
<1>10. E \in Seq(StepSet) /\ Range(E) = {<<"synced", A>>} /\ Sorted(E) /\ InOrder(E) /\ Follow(E) /\ FromStart(E)
  BY <1>9, InOne, OneOrder DEF On, Off
<1> HIDE DEF E
<1>11. \A x \in Range(U) : Rank(x) = 4 /\ x \in StepSet /\ x[1] \in Off /\ x[2] \in ours \ A
  <2> SUFFICES ASSUME NEW x \in Range(U) PROVE Rank(x) = 4 /\ x \in StepSet /\ x[1] \in Off /\ x[2] \in ours \ A
    OBVIOUS
  <2>1. x \in StepSet /\ x[1] \in Off
    BY <1>4 DEF StepSet
  <2>2. PICK k \in 1..Len(out) : x[2] = out[k]
    BY <1>4
  <2>3. x[2] \in ours \ A
    BY <2>2, <1>2
  <2> QED
    BY <2>1, <2>3, StepPair
<1>12. \A x \in Range(R) : Rank(x) = 4 /\ x \in StepSet /\ x[1] \in On /\ x[2] \in A
  <2> SUFFICES ASSUME NEW x \in Range(R) PROVE Rank(x) = 4 /\ x \in StepSet /\ x[1] \in On /\ x[2] \in A
    OBVIOUS
  <2>1. x \in StepSet /\ x[1] \in On
    BY <1>5 DEF StepSet
  <2>2. PICK k \in 1..Len(in) : x[2] = in[k]
    BY <1>5
  <2>3. x[2] \in A
    BY <2>2, <1>2
  <2> QED
    BY <2>1, <2>3, StepPair
<1>13. \A x \in Range(T) : Rank(x) = 6 /\ x \in StepSet /\ x[1] = "drop"
  <2> SUFFICES ASSUME NEW x \in Range(T) PROVE Rank(x) = 6 /\ x \in StepSet /\ x[1] = "drop"
    OBVIOUS
  <2>1. x \in StepSet /\ Rank(x) \in 1..6 /\ Before(Head(s), x)
    BY <1>6, StepPair
  <2>2. Rank(x) = 6
    BY <2>1, <1>9 DEF Before
  <2> QED
    BY <2>1, <2>2, RankOf
<1> DEFINE UR == U \o R
           URE == UR \o E
<1>14. /\ UR \in Seq(StepSet) /\ Range(UR) = Range(U) \cup Range(R)
  BY <1>8, InConcat
<1>15. Sorted(UR) /\ InOrder(UR) /\ Follow(UR)
  BY <1>4, <1>5, <1>8, <1>11, <1>12, OrderJoined DEF Before
<1> HIDE DEF UR
<1>16. /\ URE \in Seq(StepSet) /\ Range(URE) = Range(UR) \cup Range(E)
  BY <1>10, <1>14, InConcat
<1>17. \A x \in Range(UR), y \in Range(E) : Before(x, y)
  <2>1. \A x \in Range(UR) : Rank(x) = 4
    BY <1>11, <1>12, <1>14
  <2>2. \A y \in Range(E) : Rank(y) = 5
    BY <1>9, <1>10
  <2> QED
    BY <2>1, <2>2 DEF Before
<1>18. Sorted(URE) /\ InOrder(URE) /\ Follow(URE)
  BY <1>10, <1>14, <1>15, <1>17, OrderJoined
<1> HIDE DEF URE
<1>19. t = URE \o T
  BY DEF URE, UR, U, R, E, T
<1>20. t \in Seq(StepSet) /\ Range(t) = Range(URE) \cup Range(T)
  <2>1. URE \o T \in Seq(StepSet) /\ Range(URE \o T) = Range(URE) \cup Range(T)
    BY <1>6, <1>16, Joined
  <2> QED
    BY <2>1, <1>19
<1>21. \A x \in Range(URE), y \in Range(T) : Before(x, y)
  <2>1. \A x \in Range(URE) : Rank(x) = 4 \/ Rank(x) = 5
    BY <1>9, <1>10, <1>11, <1>12, <1>14, <1>16
  <2> QED
    BY <2>1, <1>13 DEF Before
<1>22. Sorted(t) /\ InOrder(t) /\ Follow(t)
  BY <1>6, <1>7, <1>16, <1>18, <1>19, <1>21, OrderJoined DEF Agenda
<1>23. Range(t) = Range(U) \cup Range(R) \cup {<<"synced", A>>} \cup Range(T)
  BY <1>10, <1>14, <1>16, <1>20
<1>24. FromStart(t)
  <2>1. FromStart(UR)
    BY <1>4, <1>5, <1>8, StartJoined DEF UR
  <2>2. FromStart(URE)
    BY <2>1, <1>10, <1>14, StartJoined DEF URE
  <2> QED
    BY <2>2, <1>6, <1>7, <1>16, <1>19, StartJoined
<1>25. \A x \in Range(t) : Rank(x) \in {4, 5, 6} /\ x \in StepSet
  BY <1>9, <1>11, <1>12, <1>13, <1>23
<1>26. EndComes(t)
  <2> SUFFICES ASSUME NEW x \in Range(t), x[1] \in On \cup Off PROVE x[2] \in A <=> x[1] \in On
    BY <1>23 DEF EndComes
  <2>1. x \in Range(U) \/ x \in Range(R)
    <3>1. x # <<"synced", A>> /\ x \notin Range(T)
      BY <1>13 DEF On, Off
    <3> QED
      BY <3>1, <1>23
  <2>2. On \cap Off = {}
    BY DEF On, Off
  <2> QED
    BY <2>1, <2>2, <1>11, <1>12
<1>27. Expanded(t) /\ Saving(t) /\ MenuEnd(t)
  <2>1. Expanded(t)
    BY <1>25 DEF Expanded
  <2>2. ASSUME NEW x \in Range(t) PROVE x[1] # "save" /\ x[1] \notin MenuOps
    <3>1. x \in StepSet /\ (Rank(x) = 4 \/ Rank(x) = 5 \/ Rank(x) = 6)
      BY <1>25, Zenon
    <3> QED
      BY <3>1, StepPair
  <2> QED
    BY <2>1, <2>2 DEF Saving, MenuEnd, MenuOps
<1>28. ASSUME NEW x \in Range(t)
       PROVE  /\ x \notin {"assoc"} \X SUBSET Ext
              /\ x[1] = "synced" => x = <<"synced", A>>
              /\ x[1] = "drop" => x \in Range(s)
  <2>1. CASE x \in Range(U) \cup Range(R)
    <3>1. x[1] \in On \cup Off
      BY <2>1, <1>11, <1>12
    <3> QED
      BY <3>1 DEF On, Off
  <2>2. CASE x = <<"synced", A>>
    BY <2>2
  <2>3. CASE x \in Range(T)
    BY <2>3, <1>6, <1>13
  <2> QED
    BY <1>23, <2>1, <2>2, <2>3
<1>29. \A e \in A : <<"list", e>> \in Range(t)
  BY <1>2, <1>5, <1>23
<1>30. \A e \in ours \ A : <<"forget", e>> \in Range(t)
  BY <1>2, <1>4, <1>23
<1> QED
  BY <1>20, <1>22, <1>24, <1>25, <1>26, <1>27, <1>28, <1>29, <1>30 DEF Agenda, SyncWork

\* The keys of the menu in the place of the request.
MenuWork(t, s, pre, b) ==
    /\ t \in Seq(StepSet) /\ Agenda(t) /\ FromStart(t)
    /\ Range(t) = Range(pre) \cup {<<"menus", b>>} \cup Range(Tail(s))
    /\ \A x \in Range(Tail(s)) : x \in StepSet /\ Rank(x) \in 3..6 /\ x[1] # "synced"

LEMMA AgendaMenu ==
  ASSUME NEW s \in Seq(StepSet), s # <<>>, Agenda(s), Head(s)[1] \in {"menu", "remenu"},
         NEW b \in BOOLEAN, NEW pre \in Seq(StepSet),
         \A x \in Range(pre) : /\ Rank(x) = 1
                               /\ x[1] \in {"clsid", "link", "package"} => b
                               /\ x[1] \in {"unlink", "unclsid"} => ~b,
         NEW t, t = pre \o <<<<"menus", b>>>> \o Tail(s)
  PROVE  MenuWork(t, s, pre, b)
<1> DEFINE E == <<<<"menus", b>>>>
           T == Tail(s)
           P == pre \o E
<1>1. Head(s) \in StepSet /\ Rank(Head(s)) = 2
  BY AgendaTail, StepPair
<1>2. /\ T \in Seq(StepSet) /\ Agenda(T) /\ Range(s) = {Head(s)} \cup Range(T)
      /\ \A y \in Range(T) : y \in StepSet /\ Before(Head(s), y)
  BY AgendaTail
<1>3. FromStart(T)
  <2>1. Head(s)[1] \notin On \cup Off
    BY DEF On, Off
  <2> QED
    BY <2>1, StartLeft
<1> HIDE DEF T
<1>4. ASSUME NEW x \in Range(T) PROVE x \in StepSet /\ Rank(x) \in 3..6 /\ x[1] # "synced"
  <2>1. x \in StepSet /\ Rank(x) \in 1..6 /\ Before(Head(s), x)
    BY <1>2, StepPair
  <2>2. Rank(x) \in 3..6
    BY <2>1, <1>1 DEF Before
  <2>3. x[1] # "synced"
    BY <1>1, <1>2 DEF Agenda, Expanded
  <2> QED
    BY <2>1, <2>2, <2>3
<1>5. <<"menus", b>> \in StepSet /\ Rank(<<"menus", b>>) = 2
  BY StepPair DEF StepSet
<1>6. E \in Seq(StepSet) /\ Range(E) = {<<"menus", b>>} /\ Sorted(E) /\ InOrder(E) /\ Follow(E) /\ FromStart(E)
  BY <1>5, InOne, OneOrder DEF On, Off
<1> HIDE DEF E
<1>7. Sorted(pre) /\ InOrder(pre) /\ Follow(pre)
  BY PlainOrder
<1>8. FromStart(pre)
  <2> SUFFICES ASSUME Len(pre) > 0 PROVE pre[1][1] \notin Later
    BY DEF FromStart
  <2>1. pre[1] \in Range(pre) /\ pre[1] \in StepSet
    BY OfRange
  <2>2. pre[1][1] \in MenuOps
    BY <2>1, RankOf
  <2> QED
    BY <2>2 DEF MenuOps, Later, On, Off
<1>9. P \in Seq(StepSet) /\ Range(P) = Range(pre) \cup Range(E)
  BY <1>6, Joined
<1>10. FromStart(P)
  BY <1>6, <1>8, StartJoined, Zenon
<1>11. \A x \in Range(pre), y \in Range(E) : Before(x, y)
  <2> SUFFICES ASSUME NEW x \in Range(pre), NEW y \in Range(E) PROVE Before(x, y)
    OBVIOUS
  <2>1. Rank(x) = 1 /\ y = <<"menus", b>>
    BY <1>6
  <2> QED
    BY <2>1, <1>5 DEF Before
<1>12. Sorted(P) /\ InOrder(P) /\ Follow(P)
  BY <1>6, <1>7, <1>11, OrderJoined
<1> HIDE DEF P
<1>13. t = P \o T
  BY DEF P, E, T
<1>14. t \in Seq(StepSet) /\ Range(t) = Range(P) \cup Range(T)
  <2>1. P \o T \in Seq(StepSet) /\ Range(P \o T) = Range(P) \cup Range(T)
    BY <1>2, <1>9, Joined
  <2> QED
    BY <2>1, <1>13
<1>15. \A x \in Range(P), y \in Range(T) : Before(x, y)
  <2> SUFFICES ASSUME NEW x \in Range(P), NEW y \in Range(T) PROVE Before(x, y)
    OBVIOUS
  <2>1. x \in Range(pre) \/ x = <<"menus", b>>
    BY <1>6, <1>9, Zenon
  <2>2. Rank(x) = 1 \/ Rank(x) = 2
    BY <2>1, <1>5
  <2>3. Rank(y) > 2 /\ Rank(y) \in 3..6
    BY <1>4
  <2> QED
    BY <2>2, <2>3 DEF Before
<1>16. Sorted(t) /\ InOrder(t) /\ Follow(t)
  BY <1>2, <1>3, <1>9, <1>12, <1>13, <1>15, OrderJoined DEF Agenda
<1>17. FromStart(t)
  BY <1>2, <1>3, <1>9, <1>10, <1>13, StartJoined
<1>18. Range(t) = Range(pre) \cup {<<"menus", b>>} \cup Range(T)
  BY <1>6, <1>9, <1>14
<1>19. ASSUME NEW x \in Range(pre) PROVE x[1] \in MenuOps
  BY <1>19, OfRange, RankOf
<1>19a. ASSUME NEW x \in Range(t) PROVE x \in Range(T) \/ x[1] \in MenuOps \/ x[1] = "menus"
  <2>1. x \in Range(pre) \/ x = <<"menus", b>> \/ x \in Range(T)
    BY <1>18, Zenon
  <2> QED
    BY <2>1, <1>19
<1>19b. Range(T) \subseteq Range(t) /\ <<"menus", b>> \in Range(t)
  BY <1>18, Zenon
<1>20. EndComes(t)
  <2> SUFFICES ASSUME NEW x \in Range(t), x[1] \in On \cup Off
               PROVE  \E wanted \in SUBSET Ext :
                          <<"synced", wanted>> \in Range(t) /\ (x[2] \in wanted <=> x[1] \in On)
    BY DEF EndComes
  <2>1. x \in Range(T)
    BY <1>19a DEF On, Off, MenuOps
  <2> QED
    BY <2>1, <1>2, <1>19b DEF Agenda, EndComes
<1>21. \A x \in Range(t) : x[1] # "synced"
  BY <1>4, <1>19a DEF MenuOps
<1>22. Expanded(t)
  BY <1>21 DEF Expanded
<1>23. Saving(t)
  <2> SUFFICES ASSUME NEW x \in Range(t), x[1] = "save"
               PROVE  \A y \in Range(t) : (y[1] = "assoc" => y[2] = x[2].assoc) /\ y[1] # "drop"
    BY DEF Saving
  <2>1. x \in Range(T)
    BY <1>19a DEF MenuOps
  <2>2. \A y \in Range(T) : (y[1] = "assoc" => y[2] = x[2].assoc) /\ y[1] # "drop"
    BY <2>1, <1>2 DEF Agenda, Saving
  <2>3. \A y \in Range(t) : y \in Range(T) \/ (y[1] # "assoc" /\ y[1] # "drop")
    BY <1>19a DEF MenuOps
  <2> QED
    BY <2>2, <2>3
<1>24. MenuEnd(t)
  <2> SUFFICES ASSUME NEW x \in Range(t), NEW c \in BOOLEAN,
                      x[1] \in IF c THEN {"clsid", "link", "package"} ELSE {"unlink", "unclsid"}
               PROVE  <<"menus", c>> \in Range(t)
    BY DEF MenuEnd
  <2>1. x \in Range(pre)
    <3>1. x \notin Range(T)
      <4> SUFFICES ASSUME x \in Range(T) PROVE FALSE
        OBVIOUS
      <4>1. x \in StepSet /\ Rank(x) \in 3..6
        BY <1>4
      <4>2. Rank(x) = 1
        BY <4>1, StepPair DEF MenuOps
      <4> QED
        BY <4>1, <4>2
    <3>2. x # <<"menus", b>>
      <4> SUFFICES ASSUME x = <<"menus", b>> PROVE FALSE
        OBVIOUS
      <4>1. x[1] = "menus"
        OBVIOUS
      <4> QED
        BY <4>1
    <3> QED
      BY <3>1, <3>2, <1>18, Zenon
  <2>2. b = c
    BY <2>1
  <2> QED
    BY <2>2, <1>19b
<1> QED
  BY <1>4, <1>14, <1>16, <1>17, <1>18, <1>20, <1>22, <1>23, <1>24 DEF Agenda, T, MenuWork

\* What is to be done with the two handler keys and the CLSID.
LEMMA ConnectSteps ==
  /\ Connect \in Seq(StepSet)
  /\ Range(Connect) = {<<"clsid", "menu">>} \cup ({"link"} \X Handlers)
<1>1. <<"clsid", "menu">> \in StepSet /\ {"link"} \X Handlers \subseteq StepSet
  BY DEF StepSet
<1>2. /\ Each(<<"link">>, SetToSeq(Handlers)) \in Seq({"link"} \X Handlers)
      /\ Range(Each(<<"link">>, SetToSeq(Handlers))) = {"link"} \X Handlers
  BY LinkList
<1>3. Each(<<"link">>, SetToSeq(Handlers)) \in Seq(StepSet)
  BY <1>1, <1>2
<1>4. <<<<"clsid", "menu">>>> \in Seq(StepSet) /\ Range(<<<<"clsid", "menu">>>>) = {<<"clsid", "menu">>}
  BY <1>1, InOne
<1> DEFINE a == <<<<"clsid", "menu">>>>
           c == Each(<<"link">>, SetToSeq(Handlers))
<1> HIDE DEF a, c
<1>4a. a \in Seq(StepSet) /\ c \in Seq(StepSet)
  BY <1>3, <1>4 DEF a, c
<1>5. a \o c \in Seq(StepSet) /\ Range(a \o c) = Range(a) \cup Range(c)
  BY <1>4a, Joined
<1>6. Connect = a \o c
  BY DEF Connect, a, c
<1> QED
  BY <1>2, <1>4, <1>5, <1>6 DEF a, c

LEMMA DisconnectSteps ==
  /\ Disconnect \in Seq(StepSet)
  /\ Range(Disconnect) = {<<"unclsid", "menu">>} \cup ({"unlink"} \X Handlers)
<1>1. <<"unclsid", "menu">> \in StepSet /\ {"unlink"} \X Handlers \subseteq StepSet
  BY DEF StepSet
<1>2. /\ Each(<<"unlink">>, SetToSeq(Handlers)) \in Seq({"unlink"} \X Handlers)
      /\ Range(Each(<<"unlink">>, SetToSeq(Handlers))) = {"unlink"} \X Handlers
  BY LinkList
<1>3. Each(<<"unlink">>, SetToSeq(Handlers)) \in Seq(StepSet)
  BY <1>1, <1>2
<1>4. <<<<"unclsid", "menu">>>> \in Seq(StepSet) /\ Range(<<<<"unclsid", "menu">>>>) = {<<"unclsid", "menu">>}
  BY <1>1, InOne
<1> QED
  BY <1>2, <1>3, <1>4, Joined DEF Disconnect

\* Requests that have not begun, each for something else.
LEMMA AgendaNew ==
  ASSUME NEW s \in Seq(StepSet), \A i, j \in 1..Len(s) : i < j => Rank(s[i]) < Rank(s[j]),
         \A i \in 1..Len(s) : s[i][1] \notin On \cup Off \cup MenuOps \cup {"synced"}, Saving(s)
  PROVE  Agenda(s) /\ FromStart(s)
<1>1. Sorted(s)
  BY DEF Sorted, Before
<1>2. InOrder(s) /\ Follow(s) /\ FromStart(s)
  BY DEF InOrder, Follow, FromStart, Later, On, Off
<1>3. \A x \in Range(s) : x[1] \notin On \cup Off \cup MenuOps \cup {"synced"}
  BY OfRange
<1>4. EndComes(s) /\ Expanded(s) /\ MenuEnd(s)
  BY <1>3 DEF EndComes, Expanded, MenuEnd, MenuOps
<1> QED
  BY <1>1, <1>2, <1>4 DEF Agenda

LEMMA AgendaOne ==
  ASSUME NEW x \in StepSet, x[1] \in {"menu", "remenu", "assoc"}
  PROVE  <<x>> \in Seq(StepSet) /\ Agenda(<<x>>) /\ FromStart(<<x>>) /\ Range(<<x>>) = {x}
<1> DEFINE s == <<x>>
<1>1. s \in Seq(StepSet) /\ Len(s) = 1 /\ s[1] = x /\ Range(s) = {x}
  BY InOne
<1> HIDE DEF s
<1>2. \A i \in 1..Len(s) : s[i][1] \notin On \cup Off \cup MenuOps \cup {"synced"}
  BY <1>1 DEF On, Off, MenuOps
<1>3. Saving(s)
  BY <1>1 DEF Saving
<1>4. \A i, j \in 1..Len(s) : i < j => Rank(s[i]) < Rank(s[j])
  BY <1>1
<1>5. Agenda(s) /\ FromStart(s)
  BY <1>1, <1>2, <1>3, <1>4, AgendaNew
<1> QED
  BY <1>1, <1>5 DEF s

LEMMA AgendaTwo ==
  ASSUME NEW b \in BOOLEAN, NEW A \in SUBSET Ext
  PROVE  /\ <<<<"menu", b>>, <<"assoc", A>>>> \in Seq(StepSet) /\ Agenda(<<<<"menu", b>>, <<"assoc", A>>>>)
         /\ FromStart(<<<<"menu", b>>, <<"assoc", A>>>>)
         /\ Range(<<<<"menu", b>>, <<"assoc", A>>>>) = {<<"menu", b>>, <<"assoc", A>>}
<1> DEFINE x == <<"menu", b>>
           y == <<"assoc", A>>
           s == <<x, y>>
<1>1. /\ x \in StepSet /\ y \in StepSet /\ x[1] = "menu" /\ y[1] = "assoc"
  BY DEF StepSet
<1>2. Rank(x) = 2 /\ Rank(y) = 5
  BY <1>1, StepPair
<1> HIDE DEF x, y
<1>3. s \in Seq(StepSet) /\ Len(s) = 2 /\ s[1] = x /\ s[2] = y /\ Range(s) = {x, y}
  BY <1>1 DEF Range
<1> HIDE DEF s
<1>4. \A i \in 1..Len(s) : s[i][1] \notin On \cup Off \cup MenuOps \cup {"synced"}
  BY <1>1, <1>3 DEF On, Off, MenuOps
<1>5. Saving(s)
  BY <1>1, <1>3 DEF Saving
<1>6. \A i, j \in 1..Len(s) : i < j => Rank(s[i]) < Rank(s[j])
  BY <1>2, <1>3
<1>7. Agenda(s) /\ FromStart(s)
  BY <1>3, <1>4, <1>5, <1>6, AgendaNew
<1> QED
  BY <1>3, <1>7 DEF s, x, y

LEMMA AgendaThree ==
  ASSUME NEW x \in StepSet, NEW y \in StepSet, NEW z \in StepSet, x[1] \in {"menu", "remenu"},
         \/ y[1] = "save" /\ z = <<"assoc", y[2].assoc>>
         \/ y[1] = "assoc" /\ z[1] = "drop"
  PROVE  /\ <<x, y, z>> \in Seq(StepSet) /\ Agenda(<<x, y, z>>) /\ FromStart(<<x, y, z>>)
         /\ Range(<<x, y, z>>) = {x, y, z}
<1> DEFINE s == <<x, y, z>>
<1>1. Rank(x) = 2 /\ Rank(y) > 2 /\ Rank(z) > Rank(y)
  BY StepPair
<1>2. s \in Seq(StepSet) /\ Len(s) = 3 /\ s[1] = x /\ s[2] = y /\ s[3] = z /\ Range(s) = {x, y, z}
  BY DEF Range
<1> HIDE DEF s
<1>3. \A i \in 1..Len(s) : s[i][1] \notin On \cup Off \cup MenuOps \cup {"synced"}
  BY <1>2 DEF On, Off, MenuOps
<1>4. Saving(s)
  BY <1>2 DEF Saving
<1>5. \A i, j \in 1..Len(s) : i < j => Rank(s[i]) < Rank(s[j])
  <2>1. Rank(x) \in 1..6 /\ Rank(y) \in 1..6 /\ Rank(z) \in 1..6
    BY StepPair
  <2> QED
    BY <1>1, <1>2, <2>1
<1>6. Agenda(s) /\ FromStart(s)
  BY <1>2, <1>3, <1>4, <1>5, AgendaNew
<1> QED
  BY <1>2, <1>6 DEF s

-----------------------------------------------------------------------------
(* The work of each action.                                                 *)

\* Nothing of a sync of the associations has been begun.
Unbegun(seq) == FromStart(seq) /\ \A s \in Range(seq) : s[1] # "synced"
Worked == work' \in Seq(StepSet) /\ Agenda(work')

LEMMA NoWork ==
  ASSUME work' = <<>> PROVE Worked /\ Unbegun(work') /\ Steps' = {}
BY NoneOrder, InNone DEF Worked, Unbegun, Steps

LEMMA ThisStep ==
  ASSUME work \in Seq(StepSet), work # <<>>
  PROVE  /\ Head(work) \in StepSet /\ Head(work) \in Steps
         /\ \A op : Doing(op) => Head(work) = <<op, Arg>> /\ Turn(op, Arg)
         /\ \A op, x : Turn(op, x) => Doing(op) /\ Arg = x
<1>1. Head(work) \in StepSet /\ Head(work) \in Steps
  BY InTail DEF Steps
<1> QED
  BY <1>1, StepPair DEF Doing, Arg, Turn

LEMMA StepDone ==
  ASSUME work \in Seq(StepSet), work # <<>>, Agenda(work), Done
  PROVE  /\ Worked /\ Steps = {Head(work)} \cup Steps'
         /\ \A y \in Steps' : y \in StepSet /\ Before(Head(work), y)
         /\ \A op \in Later : \A x : Turn(op, x)' => Head(work) = <<Prior(op), x>>
         /\ Head(work)[1] \notin On \cup Off \cup {"assoc"} => Unbegun(work')
<1>1. work' = Tail(work)
  BY DEF Done
<1>2. /\ work' \in Seq(StepSet) /\ Agenda(work') /\ Head(work) \in StepSet
      /\ Steps = {Head(work)} \cup Steps'
      /\ \A y \in Steps' : y \in StepSet /\ Before(Head(work), y)
  BY <1>1, AgendaTail DEF Steps
<1>3. ASSUME NEW op \in Later, NEW x, Turn(op, x)' PROVE Head(work) = <<Prior(op), x>>
  <2>1. Tail(work) # <<>> /\ Head(Tail(work)) = <<op, x>>
    BY <1>1, <1>3 DEF Turn
  <2> QED
    BY <2>1, HeadPrior
<1>4. ASSUME Head(work)[1] \notin On \cup Off \cup {"assoc"} PROVE Unbegun(work')
  <2>1. FromStart(work')
    BY <1>1, <1>4, StartLeft
  <2>2. ASSUME NEW y \in Steps', y[1] = "synced" PROVE FALSE
    <3>1. y \in StepSet /\ Rank(y) = 5 /\ Before(Head(work), y)
      BY <1>2, <2>2, StepPair
    <3>2. Rank(Head(work)) >= 4 /\ Rank(Head(work)) \in 1..6
      <4>1. y \in Range(work) /\ Head(work) \in Range(work) /\ Expanded(work)
        BY <1>2 DEF Steps, Agenda
      <4>2. Rank(Head(work)) >= 4
        BY <4>1, <2>2 DEF Expanded
      <4> QED
        BY <4>2, <1>2, StepPair
    <3>3. Rank(Head(work)) # 5
      BY <3>1, <3>2 DEF Before
    <3>4. Rank(Head(work)) # 4
      BY <1>2, <1>4, RankOf
    <3>5. Rank(Head(work)) < 6
      BY <3>1, <3>2 DEF Before
    <3> QED
      BY <3>2, <3>3, <3>4, <3>5
  <2> QED
    BY <2>1, <2>2 DEF Unbegun, Steps
<1> QED
  BY <1>2, <1>3, <1>4 DEF Worked

LEMMA WorkSyncAssoc ==
  ASSUME Types, Agenda(work), SyncAssoc
  PROVE  /\ Worked /\ FromStart(work') /\ Arg \in SUBSET Ext /\ <<"assoc", Arg>> \in Steps
         /\ \A x \in Steps' : /\ x \in StepSet /\ Rank(x) \in {4, 5, 6} /\ x[1] # "assoc"
                              /\ x[1] = "synced" => x = <<"synced", Arg>>
                              /\ x[1] = "drop" => x \in Steps
         /\ \A e \in Arg : <<"list", e>> \in Steps'
         /\ \A e \in Held \ Arg : <<"forget", e>> \in Steps'
<1>1. work \in Seq(StepSet) /\ work # <<>> /\ Doing("assoc")
  BY DEF Types, SyncAssoc, Doing
<1>2. Head(work) = <<"assoc", Arg>> /\ Head(work) \in Steps /\ Arg \in SUBSET Ext
  BY <1>1, ThisStep, StepPair
<1>3. PICK out \in SetToSeqs(Held \ Arg), in \in SetToSeqs(Arg) :
        work' = Each(Unregister, out) \o Each(Register, in) \o <<<<"synced", Arg>>>> \o Tail(work)
  BY DEF SyncAssoc, Instead
<1>4. Held \in SUBSET Ext
  BY DEF Held
<1>5. /\ work' \in Seq(StepSet) /\ Agenda(work') /\ FromStart(work')
      /\ \A x \in Range(work') : /\ Rank(x) \in {4, 5, 6} /\ x \notin {"assoc"} \X SUBSET Ext
                                 /\ x[1] = "synced" => x = <<"synced", Arg>>
                                 /\ x[1] = "drop" => x \in Range(work)
      /\ \A e \in Arg : <<"list", e>> \in Range(work')
      /\ \A e \in Held \ Arg : <<"forget", e>> \in Range(work')
  <2> DEFINE s == work
             A == Arg
             ours == Held
             t == work'
  <2>1. /\ s \in Seq(StepSet) /\ s # <<>> /\ Agenda(s) /\ A \in SUBSET Ext /\ Head(s) = <<"assoc", A>>
        /\ ours \in SUBSET Ext /\ out \in SetToSeqs(ours \ A) /\ in \in SetToSeqs(A)
        /\ t = Each(Unregister, out) \o Each(Register, in) \o <<<<"synced", A>>>> \o Tail(s)
    BY <1>1, <1>2, <1>3, <1>4
  <2> HIDE DEF s, A, ours, t
  <2>2. SyncWork(t, s, A, ours)
    BY <2>1, AgendaSync
  <2> QED
    BY <2>2 DEF s, A, ours, t, SyncWork
<1>6. \A x \in Range(work') : x \in StepSet
  BY <1>5, OfRange
<1>7. \A x \in Range(work') : x[1] # "assoc"
  BY <1>5, <1>6, StepPair
<1> QED
  BY <1>2, <1>5, <1>6, <1>7 DEF Worked, Steps

\* The menu is switched on or off; Pre is what is still to be done for it.
LEMMA WorkSyncMenu ==
  ASSUME Types, Agenda(work), SyncMenu
  PROVE  /\ Worked /\ Unbegun(work') /\ Arg \in BOOLEAN
         /\ \E pre \in Seq(StepSet) :
               /\ Steps' = Range(pre) \cup {<<"menus", Arg>>} \cup Range(Tail(work))
               /\ \A x \in Range(pre) : x[1] \in MenuOps
               /\ \A x \in Range(Tail(work)) : x \in StepSet /\ Rank(x) \in 3..6 /\ x \in Steps
               /\ Arg => Linked \/ Range(Connect) \subseteq Range(pre)
               /\ ~Arg => <<"unpackage", "menu">> \in Range(pre) /\ (~Traces \/ Range(Disconnect) \subseteq Range(pre))
<1>1. work \in Seq(StepSet) /\ work # <<>> /\ Head(work)[1] \in {"menu", "remenu"}
  BY DEF Types, SyncMenu, Doing
<1>2. Head(work) \in StepSet /\ Arg \in BOOLEAN
  BY <1>1, ThisStep, StepPair DEF Arg
<1>3. \E first \in {<<>>, <<<<"package", "menu">>>>, <<<<"unpackage", "menu">>>>},
         second \in {<<>>, Connect, Disconnect} :
        /\ work' = first \o second \o <<<<"menus", Arg>>>> \o Tail(work)
        /\ Arg => (Linked /\ second = <<>>) \/ second = Connect
        /\ ~Arg => /\ first = <<<<"unpackage", "menu">>>>
                   /\ (~Traces /\ second = <<>>) \/ second = Disconnect
  <2>1. CASE \E force \in BOOLEAN, hosts \in {m.win11 /\ HostsPackages(m) : m \in Machines}, readable \in BOOLEAN :
               /\ Doing(IF force THEN "remenu" ELSE "menu") /\ Arg
               /\ Instead((IF ~hosts THEN <<<<"unpackage", "menu">>>>
                           ELSE IF force \/ ~RegisteredAt(readable) THEN <<<<"package", "menu">>>>
                           ELSE <<>>)
                          \o (IF Linked THEN <<>> ELSE Connect) \o <<<<"menus", TRUE>>>>)
    <3>1. PICK force \in BOOLEAN, hosts \in {m.win11 /\ HostsPackages(m) : m \in Machines}, readable \in BOOLEAN :
               /\ Doing(IF force THEN "remenu" ELSE "menu") /\ Arg
               /\ Instead((IF ~hosts THEN <<<<"unpackage", "menu">>>>
                           ELSE IF force \/ ~RegisteredAt(readable) THEN <<<<"package", "menu">>>>
                           ELSE <<>>)
                          \o (IF Linked THEN <<>> ELSE Connect) \o <<<<"menus", TRUE>>>>)
      BY <2>1
    <3> DEFINE first == IF ~hosts THEN <<<<"unpackage", "menu">>>>
                        ELSE IF force \/ ~RegisteredAt(readable) THEN <<<<"package", "menu">>>>
                        ELSE <<>>
               second == IF Linked THEN <<>> ELSE Connect
    <3>2. first \in {<<>>, <<<<"package", "menu">>>>, <<<<"unpackage", "menu">>>>}
      BY Zenon
    <3>3. second \in {<<>>, Connect, Disconnect} /\ ((Linked /\ second = <<>>) \/ second = Connect)
      BY Zenon
    <3>4. Arg = TRUE
      BY <3>1, <1>2
    <3>5. work' = first \o second \o <<<<"menus", TRUE>>>> \o Tail(work)
      BY <3>1 DEF Instead
    <3> HIDE DEF first, second
    <3> QED
      BY <3>2, <3>3, <3>4, <3>5
  <2>2. CASE /\ Doing("menu") /\ ~Arg
             /\ Instead(<<<<"unpackage", "menu">>>> \o (IF Traces THEN Disconnect ELSE <<>>)
                           \o <<<<"menus", FALSE>>>>)
    <3> DEFINE first == <<<<"unpackage", "menu">>>>
               second == IF Traces THEN Disconnect ELSE <<>>
    <3>2. first \in {<<>>, <<<<"package", "menu">>>>, <<<<"unpackage", "menu">>>>}
      BY Zenon
    <3>3. second \in {<<>>, Connect, Disconnect} /\ ((~Traces /\ second = <<>>) \/ second = Disconnect)
      BY Zenon
    <3>4. Arg = FALSE
      BY <2>2, <1>2
    <3>5. work' = first \o second \o <<<<"menus", FALSE>>>> \o Tail(work)
      BY <2>2 DEF Instead
    <3>6. first = <<<<"unpackage", "menu">>>>
      OBVIOUS
    <3> HIDE DEF first, second
    <3> QED
      BY <3>2, <3>3, <3>4, <3>5, <3>6
  <2> QED
    BY <2>1, <2>2 DEF SyncMenu
<1>4. PICK first \in {<<>>, <<<<"package", "menu">>>>, <<<<"unpackage", "menu">>>>},
           second \in {<<>>, Connect, Disconnect} :
        /\ work' = first \o second \o <<<<"menus", Arg>>>> \o Tail(work)
        /\ Arg => (Linked /\ second = <<>>) \/ second = Connect
        /\ ~Arg => /\ first = <<<<"unpackage", "menu">>>>
                   /\ (~Traces /\ second = <<>>) \/ second = Disconnect
  BY <1>3
<1> DEFINE pre == first \o second
<1>5. /\ first \in Seq(StepSet)
      /\ Range(first) \subseteq {<<"package", "menu">>, <<"unpackage", "menu">>}
      /\ first = <<<<"unpackage", "menu">>>> => Range(first) = {<<"unpackage", "menu">>}
      /\ first = <<<<"unpackage", "menu">>>> \/ Arg
  <2>1. <<"package", "menu">> \in StepSet /\ <<"unpackage", "menu">> \in StepSet
    BY DEF StepSet
  <2>2. CASE first = <<>>
    BY <2>2, <1>4, InNone
  <2>3. CASE first = <<<<"package", "menu">>>>
    BY <2>1, <2>3, <1>4, InOne
  <2>4. CASE first = <<<<"unpackage", "menu">>>>
    BY <2>1, <2>4, InOne
  <2> QED
    BY <2>2, <2>3, <2>4
<1>6. /\ second \in Seq(StepSet)
      /\ \A x \in Range(second) : x[1] \in IF Arg THEN {"clsid", "link"} ELSE {"unclsid", "unlink"}
  <2>1. CASE second = <<>>
    BY <2>1, InNone
  <2>2. CASE second = Connect /\ Arg
    BY <2>2, ConnectSteps
  <2>3. CASE second = Disconnect /\ ~Arg
    BY <2>3, DisconnectSteps
  <2> QED
    BY <2>1, <2>2, <2>3, <1>4, <1>2
<1>7. pre \in Seq(StepSet) /\ Range(pre) = Range(first) \cup Range(second)
  BY <1>5, <1>6, Joined
<1>8. work' = pre \o <<<<"menus", Arg>>>> \o Tail(work)
  BY <1>4
<1> HIDE DEF pre
<1>9. ASSUME NEW x \in Range(pre)
      PROVE  /\ x[1] \in MenuOps /\ Rank(x) = 1
             /\ x[1] \in {"clsid", "link", "package"} => Arg
             /\ x[1] \in {"unlink", "unclsid"} => ~Arg
  <2>1. x \in StepSet
    BY <1>7, OfRange
  <2>2. CASE x \in Range(second)
    <3>1. x[1] \in IF Arg THEN {"clsid", "link"} ELSE {"unclsid", "unlink"}
      BY <2>2, <1>6
    <3> QED
      BY <3>1, <2>1, StepPair DEF MenuOps
  <2>3. CASE x \in Range(first)
    <3>1. x = <<"package", "menu">> \/ x = <<"unpackage", "menu">>
      BY <2>3, <1>5
    <3>2. x = <<"package", "menu">> => Arg
      BY <2>3, <1>5
    <3> QED
      BY <3>1, <3>2, <2>1, StepPair DEF MenuOps
  <2> QED
    BY <2>2, <2>3, <1>7
<1>10. /\ work' \in Seq(StepSet) /\ Agenda(work') /\ FromStart(work')
       /\ Range(work') = Range(pre) \cup {<<"menus", Arg>>} \cup Range(Tail(work))
       /\ \A x \in Range(Tail(work)) : x \in StepSet /\ Rank(x) \in 3..6 /\ x[1] # "synced"
  <2>1. \A x \in Range(pre) : /\ Rank(x) = 1
                              /\ x[1] \in {"clsid", "link", "package"} => Arg
                              /\ x[1] \in {"unlink", "unclsid"} => ~Arg
    BY <1>9
  <2>2. MenuWork(work', work, pre, Arg)
    BY <1>1, <1>2, <1>7, <1>8, <2>1, AgendaMenu
  <2> QED
    BY <2>2 DEF MenuWork
<1>11. \A x \in Range(Tail(work)) : x \in Steps
  BY <1>1, InTail DEF Steps
<1>12. Unbegun(work')
  <2> SUFFICES ASSUME NEW x \in Range(work') PROVE x[1] # "synced"
    BY <1>10 DEF Unbegun
  <2>1. x \in Range(pre) \/ x = <<"menus", Arg>> \/ x \in Range(Tail(work))
    BY <1>10, Zenon
  <2> QED
    BY <2>1, <1>9, <1>10 DEF MenuOps
<1>13. Arg => Linked \/ Range(Connect) \subseteq Range(pre)
  BY <1>4, <1>7
<1>14. ~Arg => <<"unpackage", "menu">> \in Range(pre) /\ (~Traces \/ Range(Disconnect) \subseteq Range(pre))
  BY <1>4, <1>5, <1>7
<1> QED
  BY <1>2, <1>7, <1>9, <1>10, <1>11, <1>12, <1>13, <1>14 DEF Worked, Steps

LEMMA TwoJoined ==
  ASSUME NEW x, NEW y, NEW z
  PROVE  <<x>> \o <<y>> = <<x, y>> /\ <<x>> \o <<y, z>> = <<x, y, z>>
<1> DEFINE S == {x, y, z}
<1>1. <<x>> \in Seq(S) /\ <<y>> \in Seq(S) /\ <<y, z>> \in Seq(S)
  OBVIOUS
<1>2. <<x>> \o <<y>> = <<x, y>>
  <2> DEFINE u == <<x>> \o <<y>>
  <2>1. u \in Seq(S) /\ Len(u) = 2 /\ u[1] = x /\ u[2] = y
    OBVIOUS
  <2>2. <<x, y>> \in Seq(S) /\ Len(<<x, y>>) = 2 /\ <<x, y>>[1] = x /\ <<x, y>>[2] = y
    OBVIOUS
  <2> HIDE DEF u
  <2>3. u = <<x, y>>
    BY <2>1, <2>2
  <2> QED
    BY <2>3 DEF u
<1>3. <<x>> \o <<y, z>> = <<x, y, z>>
  <2> DEFINE u == <<x>> \o <<y, z>>
  <2>1. u \in Seq(S) /\ Len(u) = 3 /\ u[1] = x /\ u[2] = y /\ u[3] = z
    OBVIOUS
  <2> HIDE DEF u
  <2>3. u = <<x, y, z>>
    BY <2>1
  <2> QED
    BY <2>3 DEF u
<1> QED
  BY <1>2, <1>3

\* The rest of the menu is left out.
LEMMA WorkSkip ==
  ASSUME work \in Seq(StepSet), Agenda(work), NEW i \in DOMAIN work, work[i][1] = "menus",
         work' = SubSeq(work, i + 1, Len(work))
  PROVE  /\ Worked /\ Unbegun(work') /\ Steps' \subseteq Steps
         /\ \A x \in Steps' : x[1] # "menus"
<1> DEFINE s == work
           t == work'
<1>1. i \in 1..Len(s) /\ Len(s) \in Nat
  OBVIOUS
<1>2. /\ t \in Seq(StepSet) /\ Len(t) = Len(s) - (i + 1) + 1 /\ i + 1 \in 1..Len(s) + 1
      /\ \A j \in 1..Len(t) : t[j] = s[j + (i + 1) - 1]
  BY <1>1
<1>3. /\ Agenda(t) /\ Range(t) \subseteq Range(s)
      /\ \A x \in Range(s) : x \in Range(t) \/ \A y \in Range(t) : Before(x, y)
  <2> DEFINE k == i + 1
  <2>1. k \in 1..Len(s) + 1 /\ Len(t) = Len(s) - k + 1 /\ \A j \in 1..Len(t) : t[j] = s[j + k - 1]
    BY <1>2
  <2> HIDE DEF s, t, k
  <2>2. s \in Seq(StepSet) /\ Agenda(s) /\ t \in Seq(StepSet)
    BY <1>2 DEF s, t
  <2> QED
    BY <2>1, <2>2, AgendaLeft
<1>4. s[i] \in StepSet /\ s[i] \in Range(s) /\ Rank(s[i]) = 2
  BY <1>1, OfRange, StepPair
<1>5. ASSUME NEW x \in Range(t) PROVE Before(s[i], x)
  <2> HIDE DEF s, t
  <2>0. t \in Seq(StepSet)
    BY <1>2
  <2>1. PICK j \in 1..Len(t) : x = t[j]
    BY <2>0, <1>5, OfRange
  <2> DEFINE n == Len(s)
             m == j + (i + 1) - 1
  <2>2. Len(t) = n - (i + 1) + 1 /\ n \in Nat /\ i \in 1..n
    BY <1>1, <1>2
  <2>3. x = s[m]
    BY <1>2, <2>1
  <2> HIDE DEF n
  <2>4. m \in 1..n /\ i < m
    BY <2>1, <2>2
  <2> HIDE DEF m
  <2> QED
    BY <1>1, <2>3, <2>4 DEF Agenda, Sorted, n, s, t
<1>6. ASSUME NEW x \in Range(t) PROVE x[1] # "menus" /\ x[1] # "synced"
  <2>0. x \in StepSet
    BY <1>2, <1>6, OfRange
  <2>1. Rank(x) # 2
    <3>1. Before(s[i], x)
      BY <1>5, <1>6
    <3> QED
      BY <3>1, <1>4 DEF Before
  <2>2. x[1] # "menus"
    BY <2>0, <2>1, StepPair
  <2>3. x[1] # "synced"
    BY <1>3, <1>4, <1>6 DEF Agenda, Expanded
  <2> QED
    BY <2>2, <2>3
<1>7. FromStart(t)
  <2> SUFFICES ASSUME Len(t) > 0, t[1][1] \in Later PROVE FALSE
    BY DEF FromStart
  <2>1. i + 1 \in 2..Len(s) /\ t[1] = s[i + 1] /\ (i + 1) - 1 = i
    BY <1>1, <1>2
  <2>2. s[i][1] = Prior(s[i + 1][1])
    BY <2>1 DEF Agenda, InOrder
  <2>3. Prior(s[i + 1][1]) # "menus"
    BY <2>1 DEF Prior, Later, On, Off
  <2> QED
    BY <2>2, <2>3
<1> QED
  BY <1>2, <1>3, <1>6, <1>7 DEF Worked, Unbegun, Steps

LEMMA WorkBoot ==
  ASSUME Types, Boot
  PROVE  /\ Worked /\ Unbegun(work')
         /\ \A s \in Steps' : Trusted /\ (s = <<"menu", Load.menu>> \/ s = <<"assoc", Load.assoc>>)
<1>1. CASE ~Trusted
  BY <1>1, NoWork DEF Boot
<1>2. CASE Trusted
  <2>1. Load \in Settings
    BY <1>2 DEF Types, RegTypeOK, Files, Load, Settings, Default
  <2>2. Load.menu \in BOOLEAN /\ Load.assoc \in SUBSET Ext
    BY <2>1 DEF Settings
  <2>3. work' = <<<<"menu", Load.menu>>, <<"assoc", Load.assoc>>>>
    BY <1>2 DEF Boot
  <2>4. /\ Worked /\ FromStart(work') /\ Steps' = {<<"menu", Load.menu>>, <<"assoc", Load.assoc>>}
    BY <2>2, <2>3, AgendaTwo DEF Worked, Steps
  <2> QED
    BY <1>2, <2>4 DEF Unbegun, Steps
<1> QED
  BY <1>1, <1>2

LEMMA WorkInstall ==
  ASSUME Types, Install
  PROVE  /\ Worked /\ Unbegun(work')
         /\ \A s \in Steps' :
               \/ s = <<"remenu", TRUE>>
               \/ /\ (Trusted /\ ~past'.lost) \/ past'.lost
                  /\ \/ s[1] = "save" /\ (~past'.lost => Load.assoc \subseteq s[2].assoc)
                     \/ s[1] = "assoc" /\ (~past'.lost => Load.assoc \subseteq s[2])
<1>1. PICK moved \in BOOLEAN :
        /\ moved => ~Trusted
        /\ past' = [past EXCEPT !.lost = @ \/ moved]
        /\ LET s == [Load EXCEPT !.menu = TRUE, !.init = TRUE,
                                 !.assoc = IF Load.init THEN @ ELSE Ext]
           IN  work' = <<<<"remenu", TRUE>>>> \o
                       (IF Trusted \/ moved THEN <<<<"save", s>>, <<"assoc", s.assoc>>>> ELSE <<>>)
  BY DEF Install
<1> DEFINE set == [Load EXCEPT !.menu = TRUE, !.init = TRUE, !.assoc = IF Load.init THEN @ ELSE Ext]
           x == <<"remenu", TRUE>>
           y == <<"save", set>>
           z == <<"assoc", set.assoc>>
<1>2. Load \in Settings
  BY DEF Types, RegTypeOK, Files, Load, Settings, Default
<1>3. set \in Settings /\ Load.assoc \subseteq set.assoc
  BY <1>2 DEF Settings
<1>4. work' = <<x>> \o (IF Trusted \/ moved THEN <<y, z>> ELSE <<>>)
  BY <1>1
<1> HIDE DEF set
<1>5. x \in StepSet /\ y \in StepSet /\ z \in StepSet
  <2>1. set.assoc \in SUBSET Ext
    BY <1>3 DEF Settings
  <2> QED
    BY <1>3, <2>1 DEF StepSet
<1>6. x[1] = "remenu" /\ y[1] = "save" /\ y[2] = set /\ z = <<"assoc", y[2].assoc>> /\ z[1] = "assoc"
  OBVIOUS
<1>7. z[2] = set.assoc /\ x = <<"remenu", TRUE>>
  OBVIOUS
<1> HIDE DEF x, y, z
<1>8. CASE ~(Trusted \/ moved)
  <2>1. work' = <<x>>
    BY <1>4, <1>8
  <2>2. Worked /\ FromStart(work') /\ Steps' = {x}
    BY <1>5, <1>6, <2>1, AgendaOne DEF Worked, Steps
  <2> QED
    BY <1>6, <1>7, <2>2 DEF Unbegun, Steps
<1>9. CASE Trusted \/ moved
  <2>1. work' = <<x, y, z>>
    <3>1. work' = <<x>> \o <<y, z>>
      BY <1>4, <1>9
    <3> QED
      BY <3>1, TwoJoined
  <2>2. Worked /\ FromStart(work') /\ Steps' = {x, y, z}
    BY <1>5, <1>6, <2>1, AgendaThree DEF Worked, Steps
  <2>3. past'.lost \/ Trusted
    BY <1>1, <1>9 DEF Types, PastSet
  <2>4. Unbegun(work')
    BY <1>6, <2>2 DEF Unbegun, Steps
  <2> QED
    BY <1>3, <1>6, <1>7, <2>2, <2>3, <2>4
<1> QED
  BY <1>8, <1>9

LEMMA WorkUninstall ==
  ASSUME Types, Uninstall
  PROVE  /\ Worked /\ Unbegun(work')
         /\ <<"menus", TRUE>> \notin Steps' /\ <<"unpackage", "menu">> \in Steps'
         /\ Range(Disconnect) \subseteq Steps'
         /\ \A s \in Steps' : s[1] # "save"
<1> DEFINE x == <<"menu", FALSE>>
           y == <<"assoc", {}>>
           z == <<"drop", "file">>
           s == <<x, y, z>>
           U == <<<<"unpackage", "menu">>>>
           pre == U \o Disconnect
           t == pre \o <<<<"menus", FALSE>>>> \o Tail(s)
<1>1. x \in StepSet /\ y \in StepSet /\ z \in StepSet /\ <<"unpackage", "menu">> \in StepSet
  BY DEF StepSet
<1>2. work' = t
  BY DEF Uninstall
<1>3. x[1] = "menu" /\ y[1] = "assoc" /\ z[1] = "drop"
  OBVIOUS
<1> HIDE DEF x, y, z
<1>4. s \in Seq(StepSet) /\ Agenda(s)
  BY <1>1, <1>3, AgendaThree
<1>5. Head(s) = x /\ s # <<>> /\ Tail(s) = <<y, z>> /\ Range(Tail(s)) = {y, z}
  <2>1. s # <<>> /\ Head(s) = x /\ Tail(s) = <<y, z>>
    OBVIOUS
  <2>2. Range(<<y, z>>) = {y, z}
    BY DEF Range
  <2> QED
    BY <2>1, <2>2
<1> HIDE DEF s
<1>6. U \in Seq(StepSet) /\ Range(U) = {<<"unpackage", "menu">>}
  BY <1>1, InOne
<1> HIDE DEF U
<1>7. pre \in Seq(StepSet) /\ Range(pre) = Range(U) \cup Range(Disconnect)
  BY <1>6, DisconnectSteps, Joined
<1> HIDE DEF pre
<1>8. ASSUME NEW p \in Range(pre)
      PROVE  /\ Rank(p) = 1 /\ p[1] \in {"unpackage", "unlink", "unclsid"}
             /\ p[1] \in {"clsid", "link", "package"} => FALSE
             /\ p[1] \in {"unlink", "unclsid"} => ~FALSE
  <2>1. p[1] \in {"unpackage", "unlink", "unclsid"}
    BY <1>6, <1>7, DisconnectSteps
  <2>2. p \in StepSet
    BY <1>7, OfRange
  <2> QED
    BY <2>1, <2>2, StepPair DEF MenuOps
<1>9. t = pre \o <<<<"menus", FALSE>>>> \o Tail(s)
  OBVIOUS
<1> HIDE DEF t
<1>10. /\ t \in Seq(StepSet) /\ Agenda(t) /\ FromStart(t)
       /\ Range(t) = Range(pre) \cup {<<"menus", FALSE>>} \cup Range(Tail(s))
  <2>1. Head(s)[1] \in {"menu", "remenu"} /\ FALSE \in BOOLEAN
    BY <1>3, <1>5
  <2> QED
    BY <1>4, <1>5, <1>7, <1>8, <1>9, <2>1, AgendaMenu DEF MenuWork
<1>11. ASSUME NEW p \in Range(t)
       PROVE  p[1] # "synced" /\ p[1] # "save" /\ p # <<"menus", TRUE>>
  <2>1. p \in Range(pre) \/ p = <<"menus", FALSE>> \/ p = y \/ p = z
    BY <1>5, <1>10
  <2>2. CASE p[1] \in {"unpackage", "unlink", "unclsid", "assoc", "drop"}
    <3>1. p # <<"menus", TRUE>>
      <4> SUFFICES ASSUME p = <<"menus", TRUE>> PROVE FALSE
        OBVIOUS
      <4>1. p[1] = "menus"
        OBVIOUS
      <4> QED
        BY <4>1, <2>2
    <3> QED
      BY <3>1, <2>2
  <2>3. CASE p = <<"menus", FALSE>>
    BY <2>3
  <2> QED
    BY <1>3, <1>8, <2>1, <2>2, <2>3
<1>12. <<"unpackage", "menu">> \in Range(t) /\ Range(Disconnect) \subseteq Range(t)
  BY <1>6, <1>7, <1>10
<1> QED
  BY <1>2, <1>10, <1>11, <1>12 DEF Worked, Unbegun, Steps

\* The sync of window w.
LEMMA WorkSync ==
  ASSUME Types, NEW w \in Windows,
         work' = IF w = "banner" \/ win[w].then = "assoc" THEN <<<<"assoc", win[w].copy.assoc>>>>
                 ELSE IF win[w].then = "menu" THEN <<<<"menu", win[w].copy.menu>>>>
                 ELSE IF win[w].then = "reset" THEN <<<<"menu", win[w].copy.menu>>>> \o <<<<"assoc", win[w].copy.assoc>>>>
                 ELSE <<>>
  PROVE  /\ Worked /\ Unbegun(work')
         /\ \A s \in Steps' : /\ s[1] \in {"menu", "assoc"}
                              /\ s[1] = "assoc" => s[2] = win[w].copy.assoc /\ (w = "banner" \/ win[w].then # "nothing")
<1> DEFINE A == win[w].copy.assoc
           b == win[w].copy.menu
<1>1. A \in SUBSET Ext /\ b \in BOOLEAN
  BY DEF Types, WinSet, Settings
<1>2. <<"assoc", A>> \in StepSet /\ <<"menu", b>> \in StepSet
  BY <1>1 DEF StepSet
<1>3. CASE work' = <<<<"assoc", A>>>> /\ (w = "banner" \/ win[w].then # "nothing")
  <2>1. Worked /\ FromStart(work') /\ Steps' = {<<"assoc", A>>}
    BY <1>2, <1>3, AgendaOne DEF Worked, Steps
  <2> QED
    BY <1>3, <2>1 DEF Unbegun, Steps
<1>4. CASE work' = <<<<"menu", b>>>>
  <2>1. Worked /\ FromStart(work') /\ Steps' = {<<"menu", b>>}
    BY <1>2, <1>4, AgendaOne DEF Worked, Steps
  <2> QED
    BY <1>4, <2>1 DEF Unbegun, Steps
<1>5. CASE work' = <<<<"menu", b>>>> \o <<<<"assoc", A>>>> /\ win[w].then # "nothing"
  <2>1. work' = <<<<"menu", b>>, <<"assoc", A>>>>
    BY <1>5, TwoJoined
  <2>2. Worked /\ FromStart(work') /\ Steps' = {<<"menu", b>>, <<"assoc", A>>}
    BY <1>1, <2>1, AgendaTwo DEF Worked, Steps
  <2> QED
    BY <1>5, <2>2 DEF Unbegun, Steps
<1>6. CASE work' = <<>>
  BY <1>6, NoWork
<1> QED
  BY <1>3, <1>4, <1>5, <1>6

-----------------------------------------------------------------------------
(* The types and the work.                                                  *)

ShellSet == [clsid : Places \cup {Nowhere}, links : SUBSET Handlers, package : Places \cup {Nowhere}]
\* Nothing is done while the program is off, and no window is open in /inst.
Quiet == /\ app = "off" => work = <<>>
         /\ app # "on" => \A w \in Windows : win[w] = Idle
Plain ==
    /\ file \in Files /\ reg \in [Ext -> KeySet] /\ shell \in ShellSet
    /\ place \in Places /\ app \in {"off", "on", "hook"}
    /\ work \in Seq(StepSet) /\ win \in [Windows -> WinSet] /\ past \in PastSet
    /\ left \in [DOMAIN Bounds -> Nat] /\ \A b \in DOMAIN Bounds : left[b] \in 0..Bounds[b]
    /\ Quiet

LEMMA IsPlain == ASSUME Types PROVE Plain
BY DEF Types, RegTypeOK, Plain, KeySet, ShellSet, Quiet

LEMMA PlainNext ==
  ASSUME Plain' PROVE Types'
<1>1. /\ file' \in Files /\ reg' \in [Ext -> KeySet] /\ shell' \in ShellSet
      /\ place' \in Places /\ app' \in {"off", "on", "hook"}
      /\ work' \in Seq(StepSet) /\ win' \in [Windows -> WinSet] /\ past' \in PastSet
      /\ left' \in [DOMAIN Bounds -> Nat] /\ \A b \in DOMAIN Bounds : left'[b] \in 0..Bounds[b]
      /\ (app' = "off" => work' = <<>>) /\ (app' # "on" => \A w \in Windows : win'[w] = Idle)
  BY DEF Plain, Quiet
<1>2. \A w \in Windows :
        /\ win'[w].at \in {"idle", "open", "read", "saved"} /\ win'[w].copy \in Settings
        /\ win'[w].base \subseteq Ext /\ win'[w].seen \in Files
        /\ win'[w].then \in {"nothing", "assoc", "menu", "reset"}
  BY <1>1 DEF WinSet
<1>3. /\ past'.owner \in [Ext -> Others \cup {Nobody}] /\ past'.wish \subseteq Ext
      /\ past'.lost \in BOOLEAN /\ past'.excused \subseteq Ext \cup {"menu"} /\ past'.taken \subseteq Ext
  BY <1>1 DEF PastSet
<1>4. RegTypeOK'
  BY <1>1, <1>2, <1>3 DEF RegTypeOK, KeySet, ShellSet
<1> QED
  BY <1>1, <1>4 DEF Types

LEMMA Spent ==
  ASSUME Plain, NEW b \in DOMAIN Bounds, b # "any", Spend(b)
  PROVE  left' \in [DOMAIN Bounds -> Nat] /\ \A c \in DOMAIN Bounds : left'[c] \in 0..Bounds[c]
<1>1. left[b] > 0 /\ left["any"] > 0 /\ left' = [[left EXCEPT ![b] = @ - 1] EXCEPT !["any"] = @ - 1]
  BY DEF Spend
<1>2. "any" \in DOMAIN Bounds /\ \A c \in DOMAIN Bounds : Bounds[c] \in Nat
  BY RegistrationAssumption
<1>3. left \in [DOMAIN Bounds -> Nat] /\ \A c \in DOMAIN Bounds : left[c] \in 0..Bounds[c]
  BY DEF Plain
<1>4. ASSUME NEW c \in DOMAIN Bounds PROVE left'[c] \in 0..Bounds[c] /\ left'[c] \in Nat
  BY <1>1, <1>2, <1>3
<1>5. left' \in [DOMAIN Bounds -> Int]
  BY <1>1, <1>2, <1>3
<1> QED
  BY <1>4, <1>5

LEMMA Loaded ==
  ASSUME Plain PROVE Load \in Settings /\ Load.assoc \subseteq Ext /\ Default \in Settings /\ Idle \in WinSet
<1>1. Default \in Settings
  BY DEF Default, Settings
<1>2. Load \in Settings
  BY <1>1 DEF Plain, Load, Files
<1>3. Idle \in WinSet
  BY <1>1 DEF Idle, WinSet, Files
<1> QED
  BY <1>1, <1>2, <1>3 DEF Settings

LEMMA Fresh ==
  /\ Ours \notin Others /\ Nobody \notin Others /\ Ours # Nobody
  /\ NoBackup \notin Others /\ NoBackup # Ours /\ NoBackup # Nobody /\ Nowhere \notin Places
BY RegistrationAssumption

LEMMA Ops ==
  /\ Range(Register) = On /\ Range(Unregister) = Off /\ Range(Register \o Unregister) = On \cup Off
<1>1. Register \in Seq(On \cup Off) /\ Unregister \in Seq(On \cup Off)
  BY DEF Register, Unregister, On, Off
<1>2. Range(Register) = On
  BY DEF Register, On, Range
<1>3. Range(Unregister) = Off
  <2>1. Unregister \in Seq(Off) /\ Len(Unregister) = 5
    BY DEF Unregister, Off
  <2>2. Range(Unregister) \subseteq Off
    BY <2>1, OfRange
  <2>3. /\ Unregister[1] = "unchoose" /\ Unregister[2] = "restore" /\ Unregister[3] = "unlist"
        /\ Unregister[4] = "unprogid" /\ Unregister[5] = "forget"
    BY DEF Unregister
  <2>4. /\ Unregister[1] \in Range(Unregister) /\ Unregister[2] \in Range(Unregister)
        /\ Unregister[3] \in Range(Unregister) /\ Unregister[4] \in Range(Unregister)
        /\ Unregister[5] \in Range(Unregister)
    <3>1. \A i \in 1..5 : Unregister[i] \in Range(Unregister)
      BY <2>1, OfRange
    <3> QED
      BY <3>1
  <2> QED
    BY <2>2, <2>3, <2>4 DEF Off
<1> QED
  BY <1>1, <1>2, <1>3, Joined

LEMMA KeyTyped ==
  ASSUME NEW key \in KeySet, NEW op \in On \cup Off, place \in Places
  PROVE  KeyOf(op, key) \in KeySet
<1>1. CASE op = "progid"
  BY <1>1 DEF KeyOf, KeySet
<1>2. CASE op = "backup"
  BY <1>2 DEF KeyOf, KeySet, Backed
<1>3. CASE op = "class"
  BY <1>3 DEF KeyOf, KeySet
<1>4. CASE op = "list"
  BY <1>4 DEF KeyOf, KeySet
<1>5. CASE op = "unchoose"
  BY <1>5 DEF KeyOf, KeySet, Unchosen
<1>6. CASE op = "restore"
  BY <1>6 DEF KeyOf, KeySet, Restored
<1>7. CASE op = "unlist"
  BY <1>7 DEF KeyOf, KeySet
<1>8. CASE op = "unprogid"
  BY <1>8 DEF KeyOf, KeySet
<1>9. CASE op = "forget"
  BY <1>9 DEF KeyOf, KeySet
<1> QED
  BY <1>1, <1>2, <1>3, <1>4, <1>5, <1>6, <1>7, <1>8, <1>9 DEF On, Off

\* Nothing but the work and what is looked back at has changed.
LEMMA PlainWork ==
  ASSUME Plain, app # "off", Worked, UNCHANGED <<registry, place, app, win>>, file' \in Files, past' \in PastSet,
         left' \in [DOMAIN Bounds -> Nat], \A b \in DOMAIN Bounds : left'[b] \in 0..Bounds[b]
  PROVE  Plain' /\ Agenda(work')
<1>1. Quiet'
  BY DEF Plain, Quiet
<1> QED
  BY <1>1 DEF Plain, Worked, registry

LEMMA PlainWorker ==
  ASSUME Types, Agenda(work), Worker
  PROVE  Plain' /\ Agenda(work') /\ app # "off" /\ app' = app
<1>0. Plain /\ work \in Seq(StepSet) /\ past \in PastSet /\ file \in Files
  BY IsPlain DEF Plain
<1>a. /\ left \in [DOMAIN Bounds -> Nat] /\ \A b \in DOMAIN Bounds : left[b] \in 0..Bounds[b]
  BY <1>0 DEF Plain
<1>b. work # <<>> /\ app # "off"
  <2>1. work # <<>>
    BY DEF Worker, SyncAssoc, SyncMenu, WriteExt, WriteShell, Report, SaveHook, DropFile, Fails, Doing
  <2> QED
    BY <2>1, <1>0 DEF Plain, Quiet
<1>c. \A op : Doing(op) => Head(work) = <<op, Arg>> /\ Head(work) \in StepSet
  BY <1>0, <1>b, ThisStep
<1>1. CASE SyncAssoc
  <2>1. Worked
    BY <1>1, WorkSyncAssoc
  <2>2. past' \in PastSet
    BY <1>0, <1>1 DEF SyncAssoc, PastSet
  <2> QED
    BY <1>0, <1>a, <1>b, <1>1, <2>1, <2>2, PlainWork DEF SyncAssoc, registry
<1>2. CASE SyncMenu
  <2>1. Worked
    BY <1>2, WorkSyncMenu
  <2> QED
    BY <1>0, <1>a, <1>b, <1>2, <2>1, PlainWork DEF SyncMenu, registry
<1>3. CASE WriteExt
  <2>1. PICK op \in On \cup Off : Doing(op) /\ reg' = [reg EXCEPT ![Arg] = KeyOf(op, @)] /\ Done
    BY <1>3, Ops DEF WriteExt
  <2>2. Arg \in Ext
    BY <2>1, <1>c, StepPair
  <2>3. reg' \in [Ext -> KeySet]
    <3>1. reg \in [Ext -> KeySet] /\ place \in Places
      BY <1>0 DEF Plain
    <3>2. KeyOf(op, reg[Arg]) \in KeySet
      BY <2>1, <2>2, <3>1, KeyTyped
    <3> QED
      BY <2>1, <2>2, <3>1, <3>2
  <2>4. Worked
    BY <1>0, <1>b, <2>1, StepDone
  <2>5. UNCHANGED <<file, shell, place, app, win, past, left>>
    BY <1>3 DEF WriteExt
  <2>6. Quiet'
    BY <1>0, <1>b, <2>5 DEF Plain, Quiet
  <2> QED
    BY <1>0, <1>b, <2>3, <2>4, <2>5, <2>6 DEF Plain, Worked
<1>4. CASE WriteShell
  <2>1. PICK op \in MenuOps : Doing(op) /\ shell' = ShellOf(op, Arg) /\ Done
    BY <1>4 DEF WriteShell, MenuOps
  <2>2. op \in {"link", "unlink"} => Arg \in Handlers
    BY <2>1, <1>c, StepPair
  <2>3. shell' \in ShellSet
    <3>1. shell \in ShellSet /\ place \in Places
      BY <1>0 DEF Plain
    <3> QED
      BY <2>1, <2>2, <3>1 DEF ShellOf, ShellSet, MenuOps
  <2>4. Worked
    BY <1>0, <1>b, <2>1, StepDone
  <2>5. UNCHANGED <<file, reg, place, app, win, past, left>>
    BY <1>4 DEF WriteShell
  <2>6. Quiet'
    BY <1>0, <1>b, <2>5 DEF Plain, Quiet
  <2> QED
    BY <1>0, <1>b, <2>3, <2>4, <2>5, <2>6 DEF Plain, Worked
<1>5. CASE Report
  <2>1. Worked
    BY <1>0, <1>b, <1>5, StepDone DEF Report
  <2>2. past' \in PastSet
    BY <1>0, <1>5 DEF Report, PastSet
  <2> QED
    BY <1>0, <1>a, <1>b, <1>5, <2>1, <2>2, PlainWork DEF Report, registry
<1>6. CASE SaveHook
  <2>1. Worked
    BY <1>0, <1>b, <1>6, StepDone DEF SaveHook
  <2>2. Arg \in Settings
    BY <1>6, <1>c, StepPair DEF SaveHook
  <2>3. past' \in PastSet /\ file' \in Files
    BY <1>0, <1>6, <2>2 DEF SaveHook, PastSet, Files, Settings
  <2> QED
    BY <1>0, <1>a, <1>b, <1>6, <2>1, <2>3, PlainWork DEF SaveHook, registry
<1>7. CASE DropFile
  <2>1. Worked
    BY <1>0, <1>b, <1>7, StepDone DEF DropFile
  <2>2. file' \in Files
    BY <1>7 DEF DropFile, Files
  <2> QED
    BY <1>0, <1>a, <1>b, <1>7, <2>1, <2>2, PlainWork DEF DropFile, registry
<1>8. CASE Fails
  <2>0. "fail" \in DOMAIN Bounds
    BY RegistrationAssumption
  <2>1. left' \in [DOMAIN Bounds -> Nat] /\ \A b \in DOMAIN Bounds : left'[b] \in 0..Bounds[b]
    BY <1>0, <1>8, <2>0, Spent DEF Fails
  <2>2. Worked /\ past' \in PastSet
    <3>1. CASE work' = <<>> /\ UNCHANGED past
      BY <3>1, <1>0, NoWork
    <3>2. CASE /\ \E i \in DOMAIN work : work[i][1] = "menus" /\ work' = SubSeq(work, i + 1, Len(work))
               /\ UNCHANGED past
      BY <3>2, <1>0, WorkSkip
    <3>3. CASE Done /\ UNCHANGED past
      BY <3>3, <1>0, <1>b, StepDone
    <3>4. CASE (\E op \in Off : Doing(op)) /\ Done /\ past' = [past EXCEPT !.excused = @ \cup {Arg}]
      <4>1. Arg \in Ext
        BY <3>4, <1>c, StepPair
      <4> QED
        BY <3>4, <4>1, <1>0, <1>b, StepDone DEF PastSet
    <3>5. CASE Done /\ past' = [past EXCEPT !.excused = @ \cup {"menu"}]
      BY <3>5, <1>0, <1>b, StepDone DEF PastSet
    <3> QED
      BY <1>8, <3>1, <3>2, <3>3, <3>4, <3>5, Ops DEF Fails
  <2> QED
    BY <1>0, <1>b, <1>8, <2>1, <2>2, PlainWork DEF Fails, registry
<1>9. app' = app
  BY DEF Worker, SyncAssoc, SyncMenu, WriteExt, WriteShell, Report, SaveHook, DropFile, Fails
<1> QED
  BY <1>b, <1>1, <1>2, <1>3, <1>4, <1>5, <1>6, <1>7, <1>8, <1>9 DEF Worker

LEMMA PlainProcess ==
  ASSUME Types, Agenda(work), Process
  PROVE  Plain' /\ Agenda(work')
<1>0. Plain /\ work \in Seq(StepSet) /\ past \in PastSet /\ file \in Files /\ win \in [Windows -> WinSet]
  BY IsPlain DEF Plain
<1>a. /\ left \in [DOMAIN Bounds -> Nat] /\ \A b \in DOMAIN Bounds : left[b] \in 0..Bounds[b]
  BY <1>0 DEF Plain
<1>b. app = "off" => work = <<>> /\ \A w \in Windows : win[w] = Idle
  BY <1>0 DEF Plain, Quiet
<1>c. {"install", "die"} \subseteq DOMAIN Bounds
  BY RegistrationAssumption
<1>d. [w \in Windows |-> Idle] \in [Windows -> WinSet] /\ Missing \in Files /\ Load \in Files
  BY <1>0, Loaded DEF Files
<1>1. CASE Boot
  <2>1. Worked
    BY <1>1, WorkBoot
  <2>2. Quiet'
    BY <1>1 DEF Boot, Quiet
  <2> QED
    BY <1>0, <1>1, <2>1, <2>2 DEF Boot, Plain, Worked, registry
<1>2. CASE Install
  <2>1. Worked
    BY <1>2, WorkInstall
  <2>2. left' \in [DOMAIN Bounds -> Nat] /\ \A b \in DOMAIN Bounds : left'[b] \in 0..Bounds[b]
    BY <1>0, <1>2, <1>c, Spent DEF Install
  <2>3. file' \in Files /\ past' \in PastSet /\ app' = "hook" /\ app = "off" /\ UNCHANGED <<registry, place, win>>
    BY <1>0, <1>2, <1>d DEF Install, PastSet
  <2>4. Quiet'
    BY <1>b, <2>3 DEF Quiet
  <2> QED
    BY <1>0, <2>1, <2>2, <2>3, <2>4 DEF Plain, Worked, registry
<1>3. CASE Uninstall
  <2>1. Worked
    BY <1>3, WorkUninstall
  <2>2. left' \in [DOMAIN Bounds -> Nat] /\ \A b \in DOMAIN Bounds : left'[b] \in 0..Bounds[b]
    BY <1>0, <1>3, <1>c, Spent DEF Uninstall
  <2>3. past' \in PastSet /\ app' = "hook" /\ app = "off" /\ UNCHANGED <<file, registry, place, win>>
    BY <1>0, <1>3 DEF Uninstall, PastSet
  <2>4. Quiet'
    BY <1>b, <2>3 DEF Quiet
  <2> QED
    BY <1>0, <2>1, <2>2, <2>3, <2>4 DEF Plain, Worked, registry
<1>4. CASE HookEnds
  <2>1. app = "hook" /\ work = <<>> /\ app' = "off" /\ UNCHANGED <<file, registry, place, work, win, past, left>>
    BY <1>4 DEF HookEnds
  <2>2. Quiet'
    BY <1>0, <2>1 DEF Plain, Quiet
  <2> QED
    BY <1>0, <2>1, <2>2 DEF Plain, registry
<1>5. CASE Quit
  <2>1. work = <<>> /\ app' = "off" /\ win' = [w \in Windows |-> Idle] /\ UNCHANGED <<registry, place, work, past, left>>
    BY <1>5 DEF Quit
  <2>2. file' \in Files
    BY <1>0, <1>d, <1>5 DEF Quit
  <2>3. Quiet'
    BY <2>1 DEF Quiet
  <2> QED
    BY <1>0, <1>d, <2>1, <2>2, <2>3 DEF Plain, registry
<1>6. CASE Die
  <2>1. app' = "off" /\ work' = <<>> /\ win' = [w \in Windows |-> Idle] /\ UNCHANGED <<file, registry, place>>
    BY <1>6 DEF Die
  <2>2. left' \in [DOMAIN Bounds -> Nat] /\ \A b \in DOMAIN Bounds : left'[b] \in 0..Bounds[b]
    BY <1>0, <1>6, <1>c, Spent DEF Die
  <2>3. past' \in PastSet
    BY <1>0, <1>6 DEF Die, PastSet
  <2>4. Quiet' /\ Worked
    BY <2>1, NoWork DEF Quiet
  <2> QED
    BY <1>0, <1>d, <2>1, <2>2, <2>3, <2>4 DEF Plain, Worked, registry
<1> QED
  BY <1>1, <1>2, <1>3, <1>4, <1>5, <1>6 DEF Process

\* What a window does while the main thread has nothing to do.
LEMMA PlainFree ==
  ASSUME Plain, Free, UNCHANGED <<registry, place, app>>, Worked, file' \in Files, past' \in PastSet,
         NEW w \in Windows, NEW r \in WinSet, Move(w, r),
         left' \in [DOMAIN Bounds -> Nat], \A b \in DOMAIN Bounds : left'[b] \in 0..Bounds[b]
  PROVE  Plain' /\ Agenda(work')
<1>1. win' \in [Windows -> WinSet]
  BY DEF Plain, Move
<1>2. Quiet'
  BY DEF Free, Quiet
<1> QED
  BY <1>1, <1>2 DEF Plain, Worked, registry

LEMMA PlainWindow ==
  ASSUME Types, Agenda(work), Window
  PROVE  Plain' /\ Agenda(work') /\ Free /\ app' = app
<1>0. Plain /\ work \in Seq(StepSet) /\ past \in PastSet /\ file \in Files /\ win \in [Windows -> WinSet]
  BY IsPlain DEF Plain
<1>a. /\ left \in [DOMAIN Bounds -> Nat] /\ \A b \in DOMAIN Bounds : left[b] \in 0..Bounds[b]
  BY <1>0 DEF Plain
<1>b. Free
  BY DEF Window, OpenSettings, CloseSettings, Edit, OnConnect, OnAfterOptions, Save, Sync, At
<1>c. {"edit", "fail"} \subseteq DOMAIN Bounds
  BY RegistrationAssumption
<1>d. Load \in Settings /\ Load.assoc \subseteq Ext /\ Default \in Settings /\ Idle \in WinSet /\ Missing \in Files
  BY <1>0, Loaded DEF Files
<1>e. {"settings", "banner", "after"} = Windows
  BY DEF Windows
<1>f. UNCHANGED work => Worked
  BY <1>0 DEF Worked
<1>1. CASE OpenSettings
  <2> DEFINE r == [Idle EXCEPT !.at = "open", !.copy = Load, !.base = Load.assoc]
  <2>1. r \in WinSet
    BY <1>d DEF WinSet
  <2>2. Move("settings", r) /\ UNCHANGED <<file, registry, place, app, work, past, left>>
    BY <1>1 DEF OpenSettings
  <2> HIDE DEF r
  <2> QED
    BY <1>0, <1>a, <1>b, <1>e, <1>f, <2>1, <2>2, PlainFree DEF registry
<1>2. CASE CloseSettings
  <2>2. Move("settings", Idle) /\ UNCHANGED <<file, registry, place, app, work, past, left>>
    BY <1>2 DEF CloseSettings
  <2> QED
    BY <1>0, <1>a, <1>b, <1>d, <1>e, <1>f, <2>2, PlainFree DEF registry
<1>3. CASE Edit
  <2>1. left' \in [DOMAIN Bounds -> Nat] /\ \A b \in DOMAIN Bounds : left'[b] \in 0..Bounds[b]
    BY <1>0, <1>3, <1>c, Spent DEF Edit
  <2>2. win["settings"] \in WinSet /\ UNCHANGED <<file, registry, place, app, work>>
    BY <1>0, <1>3, <1>e DEF Edit
  <2>3. \E r \in WinSet : Move("settings", r) /\ past' \in PastSet
    <3>1. CASE \E e \in Ext :
            LET tick == win["settings"].copy.assoc \cup {e}
                new  == IF e \in win["settings"].copy.assoc THEN tick \ {e} ELSE tick
            IN  /\ Move("settings", [win["settings"] EXCEPT !.copy.assoc = new, !.copy.init = TRUE,
                                       !.then = "assoc", !.at = "read", !.seen = file])
                /\ past' = [past EXCEPT !.wish = IF e \in new THEN @ \cup {e} ELSE @ \ {e}]
      <4>1. PICK new \in SUBSET Ext, e \in Ext :
                /\ Move("settings", [win["settings"] EXCEPT !.copy.assoc = new, !.copy.init = TRUE,
                                       !.then = "assoc", !.at = "read", !.seen = file])
                /\ past' = [past EXCEPT !.wish = IF e \in new THEN @ \cup {e} ELSE @ \ {e}]
        <5>1. win["settings"].copy.assoc \in SUBSET Ext
          BY <2>2 DEF WinSet, Settings
        <5>2. PICK e \in Ext :
                LET tick == win["settings"].copy.assoc \cup {e}
                    new  == IF e \in win["settings"].copy.assoc THEN tick \ {e} ELSE tick
                IN  /\ Move("settings", [win["settings"] EXCEPT !.copy.assoc = new, !.copy.init = TRUE,
                                           !.then = "assoc", !.at = "read", !.seen = file])
                    /\ past' = [past EXCEPT !.wish = IF e \in new THEN @ \cup {e} ELSE @ \ {e}]
          BY <3>1
        <5> DEFINE tick == win["settings"].copy.assoc \cup {e}
                   new  == IF e \in win["settings"].copy.assoc THEN tick \ {e} ELSE tick
        <5>3. new \in SUBSET Ext
          BY <5>1
        <5>4. /\ Move("settings", [win["settings"] EXCEPT !.copy.assoc = new, !.copy.init = TRUE,
                                       !.then = "assoc", !.at = "read", !.seen = file])
              /\ past' = [past EXCEPT !.wish = IF e \in new THEN @ \cup {e} ELSE @ \ {e}]
          BY <5>2
        <5> HIDE DEF new
        <5> QED
          BY <5>3, <5>4
      <4>2. [win["settings"] EXCEPT !.copy.assoc = new, !.copy.init = TRUE,
                                       !.then = "assoc", !.at = "read", !.seen = file] \in WinSet
        BY <1>0, <2>2 DEF WinSet, Settings
      <4>3. past' \in PastSet
        BY <1>0, <4>1 DEF PastSet
      <4> QED
        BY <4>1, <4>2, <4>3
    <3>2. CASE /\ Move("settings", [win["settings"] EXCEPT !.copy.menu = ~@, !.then = "menu",
                                 !.at = "read", !.seen = file])
               /\ UNCHANGED past
      <4>1. [win["settings"] EXCEPT !.copy.menu = ~@, !.then = "menu", !.at = "read", !.seen = file] \in WinSet
        BY <1>0, <2>2 DEF WinSet, Settings
      <4> QED
        BY <1>0, <3>2, <4>1
    <3>3. CASE /\ Move("settings", [win["settings"] EXCEPT !.copy = [Default EXCEPT !.init = win["settings"].copy.init],
                                 !.then = "reset", !.at = "read", !.seen = file])
               /\ past' = [past EXCEPT !.wish = {}]
      <4>1. [win["settings"] EXCEPT !.copy = [Default EXCEPT !.init = win["settings"].copy.init],
                                 !.then = "reset", !.at = "read", !.seen = file] \in WinSet
        BY <1>0, <1>d, <2>2 DEF WinSet, Settings
      <4>2. past' \in PastSet
        BY <1>0, <3>3 DEF PastSet
      <4> QED
        BY <3>3, <4>1, <4>2
    <3>4. CASE /\ Move("settings", [win["settings"] EXCEPT !.then = "nothing", !.at = "read", !.seen = file])
               /\ UNCHANGED past
      <4>1. [win["settings"] EXCEPT !.then = "nothing", !.at = "read", !.seen = file] \in WinSet
        BY <1>0, <2>2 DEF WinSet, Settings
      <4> QED
        BY <1>0, <3>4, <4>1
    <3> QED
      BY <1>3, <3>1, <3>2, <3>3, <3>4 DEF Edit
  <2>4. PICK r \in WinSet : Move("settings", r) /\ past' \in PastSet
    BY <2>3
  <2> QED
    BY <1>0, <1>b, <1>e, <1>f, <2>1, <2>2, <2>4, PlainFree DEF registry
<1>4. CASE OnConnect
  <2>1. left' \in [DOMAIN Bounds -> Nat] /\ \A b \in DOMAIN Bounds : left'[b] \in 0..Bounds[b]
    BY <1>0, <1>4, <1>c, Spent DEF OnConnect
  <2>2. PICK e \in Ext :
        /\ Move("banner", [Idle EXCEPT !.at = "read", !.seen = file, !.base = Load.assoc,
                             !.copy = [Load EXCEPT !.assoc = @ \cup {e}, !.init = TRUE]])
        /\ past' = [past EXCEPT !.wish = @ \cup {e}]
    BY <1>4 DEF OnConnect
  <2> DEFINE r == [Idle EXCEPT !.at = "read", !.seen = file, !.base = Load.assoc,
                             !.copy = [Load EXCEPT !.assoc = @ \cup {e}, !.init = TRUE]]
  <2>3. r \in WinSet
    BY <1>0, <1>d DEF WinSet, Settings
  <2>4. past' \in PastSet /\ Move("banner", r)
    BY <1>0, <2>2 DEF PastSet
  <2>5. UNCHANGED <<file, registry, place, app, work>>
    BY <1>4 DEF OnConnect
  <2> HIDE DEF r
  <2> QED
    BY <1>0, <1>b, <1>e, <1>f, <2>1, <2>3, <2>4, <2>5, PlainFree DEF registry
<1>5. CASE OnAfterOptions
  <2>1. left' \in [DOMAIN Bounds -> Nat] /\ \A b \in DOMAIN Bounds : left'[b] \in 0..Bounds[b]
    BY <1>0, <1>5, <1>c, Spent DEF OnAfterOptions
  <2> DEFINE r == [Idle EXCEPT !.at = "read", !.seen = file, !.base = Load.assoc,
                        !.copy = [Load EXCEPT !.auto = ~@]]
  <2>2. Move("after", r) /\ UNCHANGED <<file, registry, place, app, work, past>>
    BY <1>5 DEF OnAfterOptions
  <2>3. r \in WinSet
    BY <1>0, <1>d DEF WinSet, Settings
  <2> HIDE DEF r
  <2> QED
    BY <1>0, <1>b, <1>e, <1>f, <2>1, <2>2, <2>3, PlainFree DEF registry
<1>6. CASE Save
  <2>1. PICK w \in Windows :
        /\ At(w, "read")
        /\ \/ /\ file' = Written(w)
              /\ past' = [past EXCEPT !.lost = @ \/ file # win[w].seen \/ file = Unreadable
                                                 \/ Load.assoc # win[w].base \/ Overlaps(w)]
              /\ Move(w, [win[w] EXCEPT !.at = "saved", !.base = Written(w).assoc])
              /\ UNCHANGED left
           \/ /\ Spend("fail") /\ UNCHANGED file
              /\ past' = [past EXCEPT !.lost = TRUE]
              /\ Move(w, IF w = "settings" THEN [win[w] EXCEPT !.at = "saved"] ELSE Idle)
        /\ UNCHANGED <<registry, place, app, work>>
    BY <1>6 DEF Save
  <2>2. win[w] \in WinSet
    BY <1>0
  <2>3. Written(w) \in Settings
    BY <2>2 DEF Written, WinSet, Settings
  <2>4. /\ [win[w] EXCEPT !.at = "saved", !.base = Written(w).assoc] \in WinSet
        /\ (IF w = "settings" THEN [win[w] EXCEPT !.at = "saved"] ELSE Idle) \in WinSet
    BY <1>d, <2>2, <2>3 DEF WinSet, Settings
  <2>5. CASE /\ file' = Written(w)
             /\ past' = [past EXCEPT !.lost = @ \/ file # win[w].seen \/ file = Unreadable
                                                 \/ Load.assoc # win[w].base \/ Overlaps(w)]
             /\ Move(w, [win[w] EXCEPT !.at = "saved", !.base = Written(w).assoc])
             /\ UNCHANGED left
    <3>1. past' \in PastSet /\ file' \in Files
      BY <1>0, <2>3, <2>5 DEF PastSet, Files
    <3> QED
      BY <1>0, <1>a, <1>b, <1>f, <2>1, <2>4, <2>5, <3>1, PlainFree DEF registry
  <2>6. CASE /\ Spend("fail") /\ UNCHANGED file
             /\ past' = [past EXCEPT !.lost = TRUE]
             /\ Move(w, IF w = "settings" THEN [win[w] EXCEPT !.at = "saved"] ELSE Idle)
    <3>1. past' \in PastSet
      BY <1>0, <2>6 DEF PastSet
    <3>2. left' \in [DOMAIN Bounds -> Nat] /\ \A b \in DOMAIN Bounds : left'[b] \in 0..Bounds[b]
      BY <1>0, <2>6, <1>c, Spent
    <3> QED
      BY <1>0, <1>b, <1>f, <2>1, <2>4, <2>6, <3>1, <3>2, PlainFree DEF registry
  <2> QED
    BY <2>1, <2>5, <2>6
<1>7. CASE Sync
  <2>1. PICK w \in Windows :
        /\ work' = IF w = "banner" \/ win[w].then = "assoc" THEN <<<<"assoc", win[w].copy.assoc>>>>
                   ELSE IF win[w].then = "menu" THEN <<<<"menu", win[w].copy.menu>>>>
                   ELSE IF win[w].then = "reset" THEN <<<<"menu", win[w].copy.menu>>>> \o <<<<"assoc", win[w].copy.assoc>>>>
                   ELSE <<>>
        /\ past' = [past EXCEPT !.lost = @ \/ win[w].copy.assoc # Load.assoc \/ Overlaps(w)]
        /\ Move(w, IF w = "settings" THEN [win[w] EXCEPT !.at = "open", !.then = "nothing",
                                                  !.seen = Missing] ELSE Idle)
        /\ UNCHANGED <<file, registry, place, app, left>>
    BY <1>7 DEF Sync
  <2>2. win[w] \in WinSet
    BY <1>0
  <2>3. (IF w = "settings" THEN [win[w] EXCEPT !.at = "open", !.then = "nothing", !.seen = Missing] ELSE Idle) \in WinSet
    BY <1>d, <2>2 DEF WinSet
  <2>4. past' \in PastSet
    BY <1>0, <2>1 DEF PastSet
  <2>5. Worked
    BY <2>1, WorkSync
  <2> QED
    BY <1>0, <1>a, <1>b, <2>1, <2>3, <2>4, <2>5, PlainFree DEF registry
<1>8. app' = app
  BY DEF Window, OpenSettings, CloseSettings, Edit, OnConnect, OnAfterOptions, Save, Sync
<1> QED
  BY <1>b, <1>1, <1>2, <1>3, <1>4, <1>5, <1>6, <1>7, <1>8 DEF Window

LEMMA PlainWorld ==
  ASSUME Types, Agenda(work), World
  PROVE  Plain' /\ UNCHANGED <<work, app, win>>
<1>0. Plain /\ work \in Seq(StepSet) /\ past \in PastSet /\ file \in Files /\ reg \in [Ext -> KeySet]
      /\ shell \in ShellSet
  BY IsPlain DEF Plain
<1>a. \A b \in {"take", "pick", "damage", "move"} :
        Spend(b) => left' \in [DOMAIN Bounds -> Nat] /\ \A c \in DOMAIN Bounds : left'[c] \in 0..Bounds[c]
  <2>1. {"take", "pick", "damage", "move"} \subseteq DOMAIN Bounds
    BY RegistrationAssumption
  <2> QED
    BY <1>0, <2>1, Spent
<1>b. UNCHANGED <<work, app, win>>
  BY DEF World, Take, Pick, Clean, Damage, Carry
<1>c. Quiet'
  BY <1>0, <1>b DEF Plain, Quiet
<1>1. CASE Take
  <2>1. PICK e \in Ext, o \in Others :
        /\ reg' = [reg EXCEPT ![e].class = o]
        /\ past' = [past EXCEPT !.owner[e] = o, !.taken = IF work = <<>> THEN {} ELSE @ \cup {e},
                      !.excused = @ \cup IF Doing("class") /\ Arg = e THEN {e} ELSE {}]
    BY <1>1 DEF Take
  <2>2. reg' \in [Ext -> KeySet]
    BY <1>0, <2>1 DEF KeySet
  <2>3. past' \in PastSet
    BY <1>0, <2>1 DEF PastSet
  <2>4. Spend("take") /\ UNCHANGED <<file, shell, place, app, work, win>>
    BY <1>1 DEF Take
  <2> QED
    BY <1>0, <1>a, <1>c, <2>2, <2>3, <2>4 DEF Plain
<1>2. CASE Pick
  <2>1. PICK e \in Ext, o \in Others \cup {Ours} :
        /\ reg' = [reg EXCEPT ![e].choice = o]
        /\ past' = [past EXCEPT !.excused = @ \cup
                      IF \E i \in DOMAIN work : work[i] = <<"unprogid", e>> THEN {e} ELSE {}]
    BY <1>2 DEF Pick
  <2>2. reg' \in [Ext -> KeySet]
    BY <1>0, <2>1 DEF KeySet
  <2>3. past' \in PastSet
    BY <1>0, <2>1 DEF PastSet
  <2>4. Spend("pick") /\ UNCHANGED <<file, shell, place, app, work, win>>
    BY <1>2 DEF Pick
  <2> QED
    BY <1>0, <1>a, <1>c, <2>2, <2>3, <2>4 DEF Plain
<1>3. CASE Clean
  <2>1. shell' \in ShellSet
    BY <1>0, <1>3 DEF Clean, ShellSet
  <2>4. Spend("damage") /\ UNCHANGED <<file, reg, place, app, work, win, past>>
    BY <1>3 DEF Clean
  <2> QED
    BY <1>0, <1>a, <1>c, <2>1, <2>4 DEF Plain
<1>4. CASE Damage
  <2>1. file' \in Files
    BY <1>4 DEF Damage, Files
  <2>4. Spend("damage") /\ UNCHANGED <<registry, place, app, work, win, past>>
    BY <1>4 DEF Damage
  <2> QED
    BY <1>0, <1>a, <1>c, <2>1, <2>4 DEF Plain, registry
<1>5. CASE Carry
  <2>4. Spend("move") /\ place' \in Places /\ UNCHANGED <<file, registry, app, work, win, past>>
    BY <1>5 DEF Carry
  <2> QED
    BY <1>0, <1>a, <1>c, <2>4 DEF Plain, registry
<1> QED
  BY <1>b, <1>1, <1>2, <1>3, <1>4, <1>5 DEF World

LEMMA TypesNext ==
  ASSUME Types, Agenda(work), [RegNext]_regVars
  PROVE  Types' /\ Agenda(work') /\ work' \in Seq(StepSet)
<1>1. Plain' /\ Agenda(work')
  <2>1. CASE UNCHANGED regVars
    BY <2>1, IsPlain DEF regVars, Plain, registry, Quiet
  <2>2. CASE World
    <3>1. Plain' /\ work' = work
      BY <2>2, PlainWorld
    <3> QED
      BY <3>1
  <2> QED
    BY <2>1, <2>2, PlainWorker, PlainProcess, PlainWindow DEF RegNext
<1> QED
  BY <1>1, PlainNext DEF Plain

LEMMA HookedNext ==
  ASSUME Types, Agenda(work), Hooked, [RegNext]_regVars
  PROVE  Hooked'
<1>0. Plain /\ work \in Seq(StepSet)
  BY IsPlain DEF Plain
<1> SUFFICES ASSUME NEW s \in Steps', s[1] \in {"save", "drop"}, app' # "hook" PROVE FALSE
  BY DEF Hooked
<1>1. app # "hook" => s \notin Steps
  BY DEF Hooked
<1>2. CASE UNCHANGED regVars
  BY <1>1, <1>2 DEF regVars, Steps
<1>3. CASE Worker
  <2>1. app' = app /\ work # <<>>
    <3>1. app' = app
      BY <1>3, PlainWorker
    <3>2. work # <<>>
      BY <1>3 DEF Worker, SyncAssoc, SyncMenu, WriteExt, WriteShell, Report, SaveHook, DropFile, Fails, Doing
    <3> QED
      BY <3>1, <3>2
  <2>2. s \notin Steps
    BY <1>1, <2>1
  <2>3. Done => s \in Steps
    BY <1>0, <2>1, StepDone
  <2>4. CASE SyncAssoc
    <3>1. s \in StepSet /\ Rank(s) \in {4, 5, 6} /\ (s[1] = "drop" => s \in Steps)
      BY <2>4, WorkSyncAssoc
    <3>2. Rank(s) = 3
      BY <2>2, <3>1, StepPair
    <3> QED
      BY <3>1, <3>2
  <2>5. CASE SyncMenu
    <3>1. PICK pre \in Seq(StepSet) :
               /\ Steps' = Range(pre) \cup {<<"menus", Arg>>} \cup Range(Tail(work))
               /\ \A x \in Range(pre) : x[1] \in MenuOps
               /\ \A x \in Range(Tail(work)) : x \in StepSet /\ Rank(x) \in 3..6 /\ x \in Steps
      BY <2>5, WorkSyncMenu
    <3>2. s \notin Range(pre)
      BY <3>1 DEF MenuOps
    <3>3. s # <<"menus", Arg>>
      <4> SUFFICES ASSUME s = <<"menus", Arg>> PROVE FALSE
        OBVIOUS
      <4>1. s[1] = "menus"
        OBVIOUS
      <4> QED
        BY <4>1
    <3>4. s \in Range(Tail(work))
      BY <3>1, <3>2, <3>3, Zenon
    <3> QED
      BY <2>2, <3>1, <3>4
  <2>6. CASE Fails
    <3>1. CASE work' = <<>>
      BY <3>1, NoWork
    <3>2. CASE \E i \in DOMAIN work : work[i][1] = "menus" /\ work' = SubSeq(work, i + 1, Len(work))
      BY <3>2, <1>0, <2>2, WorkSkip
    <3> QED
      BY <2>2, <2>3, <2>6, <3>1, <3>2 DEF Fails
  <2>7. CASE WriteExt
    BY <2>2, <2>3, <2>7 DEF WriteExt
  <2>8. CASE WriteShell
    BY <2>2, <2>3, <2>8 DEF WriteShell
  <2>9. CASE Report \/ SaveHook \/ DropFile
    BY <2>2, <2>3, <2>9 DEF Report, SaveHook, DropFile
  <2> QED
    BY <1>3, <2>4, <2>5, <2>6, <2>7, <2>8, <2>9 DEF Worker
<1>4. CASE Process
  <2>1. CASE Boot
    BY <2>1, WorkBoot
  <2>2. CASE Install \/ Uninstall
    BY <2>2 DEF Install, Uninstall
  <2>3. CASE HookEnds \/ Quit
    <3>1. work' = <<>>
      BY <2>3 DEF HookEnds, Quit
    <3> QED
      BY <3>1, NoWork
  <2>4. CASE Die
    BY <2>4, NoWork DEF Die
  <2> QED
    BY <1>4, <2>1, <2>2, <2>3, <2>4 DEF Process
<1>5. CASE Window
  <2>1. CASE Sync
    <3>1. PICK w \in Windows :
        work' = IF w = "banner" \/ win[w].then = "assoc" THEN <<<<"assoc", win[w].copy.assoc>>>>
                   ELSE IF win[w].then = "menu" THEN <<<<"menu", win[w].copy.menu>>>>
                   ELSE IF win[w].then = "reset" THEN <<<<"menu", win[w].copy.menu>>>> \o <<<<"assoc", win[w].copy.assoc>>>>
                   ELSE <<>>
      BY <2>1 DEF Sync
    <3> QED
      BY <3>1, WorkSync
  <2>2. CASE ~Sync
    <3>1. work' = work /\ work = <<>>
      BY <1>5, <2>2 DEF Window, OpenSettings, CloseSettings, Edit, OnConnect, OnAfterOptions, Save, At, Free
    <3> QED
      BY <3>1, NoWork
  <2> QED
    BY <2>1, <2>2
<1>6. CASE World
  <2>1. work' = work /\ app' = app
    BY <1>6, PlainWorld
  <2> QED
    BY <1>1, <2>1 DEF Steps
<1> QED
  BY <1>2, <1>3, <1>4, <1>5, <1>6 DEF RegNext

-----------------------------------------------------------------------------
(* The keys.                                                               *)

LEMMA KeyWritten ==
  ASSUME NEW k \in KeySet, NEW op \in On \cup Off, place \in Places, NEW owner \in Others \cup {Nobody},
         Consistent(k, owner), Found(op, k, owner)
  PROVE  /\ Consistent(KeyOf(op, k), owner)
         /\ \A next \in Later : op = Prior(next) => Found(next, KeyOf(op, k), owner)
<1>0. /\ k.class \in Others \cup {Ours, Nobody} /\ k.backup \in Others \cup {Nobody, NoBackup}
      /\ k.progid \in Places \cup {Nowhere} /\ k.listed \in BOOLEAN /\ k.choice \in Others \cup {Ours, Nobody}
      /\ k = [class |-> k.class, backup |-> k.backup, progid |-> k.progid, listed |-> k.listed, choice |-> k.choice]
  BY DEF KeySet
<1>f. /\ Ours \notin Others /\ Nobody \notin Others /\ Ours # Nobody
      /\ NoBackup \notin Others /\ NoBackup # Ours /\ NoBackup # Nobody /\ Nowhere \notin Places
  BY Fresh
<1>1. CASE op = "progid"
  <2>1. KeyOf(op, k) = [k EXCEPT !.progid = place]
    BY <1>1 DEF KeyOf
  <2>2. Consistent(KeyOf(op, k), owner)
    BY <1>0, <1>f, <2>1 DEF Consistent
  <2>3. \A next \in Later : op = Prior(next) => Found(next, KeyOf(op, k), owner)
    BY <1>0, <1>f, <1>1, <2>1 DEF Found, Prior, Later, On, Off
  <2> QED
    BY <2>2, <2>3
<1>2. CASE op = "backup"
  <2>1. KeyOf(op, k) = IF k.class # Ours THEN [k EXCEPT !.backup = k.class] ELSE k
    BY <1>2 DEF KeyOf, Backed
  <2>2. Consistent(KeyOf(op, k), owner)
    BY <1>0, <1>f, <2>1 DEF Consistent
  <2>3. \A next \in Later : op = Prior(next) => Found(next, KeyOf(op, k), owner)
    BY <1>0, <1>f, <1>2, <2>1 DEF Found, Prior, Later, On, Off, Consistent
  <2> QED
    BY <2>2, <2>3
<1>3. CASE op = "class"
  <2>1. KeyOf(op, k) = [k EXCEPT !.class = Ours]
    BY <1>3 DEF KeyOf
  <2>2. Consistent(KeyOf(op, k), owner)
    BY <1>0, <1>f, <1>3, <2>1 DEF Consistent, Found
  <2>3. \A next \in Later : op = Prior(next) => Found(next, KeyOf(op, k), owner)
    BY <1>0, <1>f, <1>3, <2>1 DEF Found, Prior, Later, On, Off, Consistent
  <2> QED
    BY <2>2, <2>3
<1>4. CASE op = "list"
  <2>1. KeyOf(op, k) = [k EXCEPT !.listed = TRUE]
    BY <1>4 DEF KeyOf
  <2>2. Consistent(KeyOf(op, k), owner)
    BY <1>0, <1>f, <1>4, <2>1 DEF Consistent, Found
  <2>3. \A next \in Later : op = Prior(next) => Found(next, KeyOf(op, k), owner)
    BY <1>4 DEF Prior, Later, On, Off
  <2> QED
    BY <2>2, <2>3
<1>5. CASE op = "unchoose"
  <2>1. KeyOf(op, k) = IF k.choice = Ours THEN [k EXCEPT !.choice = Nobody] ELSE k
    BY <1>5 DEF KeyOf, Unchosen
  <2>2. Consistent(KeyOf(op, k), owner)
    BY <1>0, <1>f, <2>1 DEF Consistent
  <2>3. \A next \in Later : op = Prior(next) => Found(next, KeyOf(op, k), owner)
    BY <1>0, <1>f, <1>5, <2>1 DEF Found, Prior, Later, On, Off
  <2> QED
    BY <2>2, <2>3
<1>6. CASE op = "restore"
  <2>1. KeyOf(op, k) = IF k.class # Ours THEN k ELSE [k EXCEPT !.class = IF k.backup = NoBackup THEN Nobody ELSE k.backup]
    BY <1>6 DEF KeyOf, Restored
  <2>2. Consistent(KeyOf(op, k), owner)
    BY <1>0, <1>f, <2>1 DEF Consistent
  <2>3. \A next \in Later : op = Prior(next) => Found(next, KeyOf(op, k), owner)
    BY <1>0, <1>f, <1>6, <2>1 DEF Found, Prior, Later, On, Off
  <2> QED
    BY <2>2, <2>3
<1>7. CASE op = "unlist"
  <2>1. KeyOf(op, k) = [k EXCEPT !.listed = FALSE]
    BY <1>7 DEF KeyOf
  <2>2. Consistent(KeyOf(op, k), owner)
    BY <1>0, <1>f, <2>1 DEF Consistent
  <2>3. \A next \in Later : op = Prior(next) => Found(next, KeyOf(op, k), owner)
    BY <1>0, <1>f, <1>7, <2>1 DEF Found, Prior, Later, On, Off
  <2> QED
    BY <2>2, <2>3
<1>8. CASE op = "unprogid"
  <2>1. KeyOf(op, k) = [k EXCEPT !.progid = Nowhere]
    BY <1>8 DEF KeyOf
  <2>2. Consistent(KeyOf(op, k), owner)
    BY <1>0, <1>f, <1>8, <2>1 DEF Consistent, Found
  <2>3. \A next \in Later : op = Prior(next) => Found(next, KeyOf(op, k), owner)
    BY <1>0, <1>f, <1>8, <2>1 DEF Found, Prior, Later, On, Off
  <2> QED
    BY <2>2, <2>3
<1>9. CASE op = "forget"
  <2>1. KeyOf(op, k) = [k EXCEPT !.backup = NoBackup]
    BY <1>9 DEF KeyOf
  <2>2. Consistent(KeyOf(op, k), owner)
    BY <1>0, <1>f, <1>9, <2>1 DEF Consistent, Found
  <2>3. \A next \in Later : op = Prior(next) => Found(next, KeyOf(op, k), owner)
    BY <1>9 DEF Prior, Later, On, Off
  <2> QED
    BY <2>2, <2>3
<1> QED
  BY <1>1, <1>2, <1>3, <1>4, <1>5, <1>6, <1>7, <1>8, <1>9 DEF On, Off

\* What holds of a key that has been switched on, or off, though it may be excused.
LEMMA KeyKept ==
  ASSUME NEW k \in KeySet, NEW op \in On \cup Off, place \in Places
  PROVE  /\ op \in On => /\ k.progid = place => KeyOf(op, k).progid = place
                         /\ k.listed => KeyOf(op, k).listed
                         /\ k.class = Ours => KeyOf(op, k).class = Ours
                         /\ k.backup # NoBackup => KeyOf(op, k).backup # NoBackup
         /\ op \in Off /\ k.backup = NoBackup => KeyOf(op, k).backup = NoBackup
         /\ op = "progid" => KeyOf(op, k).progid = place
         /\ op = "class" => KeyOf(op, k).class = Ours
         /\ op = "list" => KeyOf(op, k).listed
         /\ op = "forget" => KeyOf(op, k).backup = NoBackup
<1>0. k = [class |-> k.class, backup |-> k.backup, progid |-> k.progid, listed |-> k.listed, choice |-> k.choice]
  BY DEF KeySet
<1>c. k.class \in Others \cup {Ours, Nobody} /\ NoBackup \notin Others \cup {Ours, Nobody}
  BY Fresh DEF KeySet
<1>1. CASE op \in On
  <2>1. /\ op = "progid" => KeyOf(op, k) = [k EXCEPT !.progid = place]
        /\ op = "backup" => KeyOf(op, k) = IF k.class # Ours THEN [k EXCEPT !.backup = k.class] ELSE k
        /\ op = "class" => KeyOf(op, k) = [k EXCEPT !.class = Ours]
        /\ op = "list" => KeyOf(op, k) = [k EXCEPT !.listed = TRUE]
    BY DEF KeyOf, Backed
  <2> QED
    BY <1>0, <1>c, <1>1, <2>1 DEF On, Off
<1>2. CASE op \in Off
  <2>1. /\ op = "unchoose" => KeyOf(op, k) = IF k.choice = Ours THEN [k EXCEPT !.choice = Nobody] ELSE k
        /\ op = "restore" => KeyOf(op, k) = IF k.class # Ours THEN k ELSE [k EXCEPT !.class = IF k.backup = NoBackup THEN Nobody ELSE k.backup]
        /\ op = "unlist" => KeyOf(op, k) = [k EXCEPT !.listed = FALSE]
        /\ op = "unprogid" => KeyOf(op, k) = [k EXCEPT !.progid = Nowhere]
        /\ op = "forget" => KeyOf(op, k) = [k EXCEPT !.backup = NoBackup]
    BY DEF KeyOf, Unchosen, Restored
  <2> QED
    BY <1>0, <1>2, <2>1 DEF On, Off
<1> QED
  BY <1>1, <1>2

\* A step that writes no key of an extension.
LEMMA KeysQuiet ==
  ASSUME Types, Keys, reg' = reg, past'.owner = past.owner, past.excused \subseteq past'.excused,
         Unbegun(work') \/ (work' = work /\ place' = place /\ past'.taken = past.taken)
  PROVE  Keys'
<1>1. Clear'
  BY DEF Keys, Clear, Consistent
<1>2. CASE Unbegun(work')
  <2>1. Begun'
    <3> SUFFICES ASSUME NEW e \in Ext, NEW op \in Later, Turn(op, e)' PROVE FALSE
      BY DEF Begun
    <3>1. work' # <<>> /\ Head(work') = <<op, e>>
      BY DEF Turn
    <3> QED
      BY <1>2, <3>1 DEF Unbegun, FromStart
  <2>2. Progress'
    <3> SUFFICES ASSUME NEW wanted \in SUBSET Ext, <<"synced", wanted>> \in Steps' PROVE FALSE
      BY DEF Progress
    <3> QED
      BY <1>2 DEF Unbegun, Steps
  <2> QED
    BY <1>1, <2>1, <2>2 DEF Keys
<1>3. CASE work' = work /\ place' = place /\ past'.taken = past.taken
  <2>1. Begun'
    BY <1>3 DEF Keys, Begun, Turn, Taken, Found
  <2>2. Progress'
    BY <1>3 DEF Keys, Progress, Steps, Settled, Taken
  <2> QED
    BY <1>1, <2>1, <2>2 DEF Keys
<1> QED
  BY <1>2, <1>3

\* The step that is done is for the sync whose end is in the work.
LEMMA ThisEnd ==
  ASSUME Types, Agenda(work), NEW op \in On \cup Off, NEW x, Turn(op, x)
  PROVE  \A wanted \in SUBSET Ext : <<"synced", wanted>> \in Steps => (x \in wanted <=> op \in On)
<1>0. work \in Seq(StepSet) /\ work # <<>>
  BY DEF Types, Turn
<1>1. Head(work) \in Steps /\ Head(work)[1] = op /\ Head(work)[2] = x
  BY <1>0, ThisStep DEF Turn
<1>2. PICK end \in SUBSET Ext : <<"synced", end>> \in Range(work) /\ (x \in end <=> op \in On)
  BY <1>1 DEF Agenda, EndComes, Steps
<1> SUFFICES ASSUME NEW wanted \in SUBSET Ext, <<"synced", wanted>> \in Range(work)
             PROVE  wanted = end
  BY <1>2 DEF Steps
<1>3. Rank(<<"synced", wanted>>) = 5 /\ Rank(<<"synced", end>>) = 5
  BY DEF Rank, MenuOps, On, Off
<1>4. 5 \notin {1, 4}
  OBVIOUS
<1>5. <<"synced", wanted>> = <<"synced", end>>
  BY <1>0, <1>2, <1>3, <1>4, OneEnd
<1> QED
  BY <1>5

LEMMA KeysWrite ==
  ASSUME Types, Agenda(work), Keys, WriteExt
  PROVE  Keys'
<1>0. /\ work \in Seq(StepSet) /\ work # <<>> /\ reg \in [Ext -> KeySet] /\ place \in Places
      /\ past.owner \in [Ext -> Others \cup {Nobody}]
  BY IsPlain DEF Plain, WriteExt, Doing, PastSet
<1>1. PICK op \in On \cup Off : Doing(op) /\ reg' = [reg EXCEPT ![Arg] = KeyOf(op, @)] /\ Done
  BY Ops DEF WriteExt
<1> DEFINE x == Arg
<1>2. Head(work) = <<op, x>> /\ Turn(op, x) /\ x \in Ext
  BY <1>0, <1>1, ThisStep, StepPair
<1>3. reg'[x] = KeyOf(op, reg[x]) /\ \A e \in Ext : e # x => reg'[e] = reg[e]
  BY <1>0, <1>1, <1>2
<1>4. place' = place /\ past' = past
  BY DEF WriteExt
<1>5. Steps = {<<op, x>>} \cup Steps' /\ \A next \in Later : \A e : Turn(next, e)' => op = Prior(next) /\ e = x
  <2>1. Steps = {Head(work)} \cup Steps' /\ \A next \in Later : \A e : Turn(next, e)' => Head(work) = <<Prior(next), e>>
    BY <1>0, <1>1, StepDone
  <2> QED
    BY <2>1, <1>2
<1>b. /\ op \in {"backup", "class", "list"} => reg[x].progid = place
      /\ op = "list" => Taken(x)
      /\ x \notin past.excused => Found(op, reg[x], past.owner[x])
  <2>1. CASE op \in Later
    BY <1>2, <2>1 DEF Keys, Begun
  <2>2. CASE op \notin Later
    BY <2>2 DEF Later, Found
  <2> QED
    BY <2>1, <2>2
<1>k. reg[x] \in KeySet /\ past.owner[x] \in Others \cup {Nobody}
  BY <1>0, <1>2
<1>6. x \notin past.excused =>
        /\ Consistent(reg'[x], past.owner[x])
        /\ \A next \in Later : op = Prior(next) => Found(next, reg'[x], past.owner[x])
  BY <1>0, <1>2, <1>3, <1>b, <1>k, KeyWritten DEF Keys, Clear
<1>7. /\ op \in On => /\ reg[x].progid = place => reg'[x].progid = place
                      /\ reg[x].listed => reg'[x].listed
                      /\ reg[x].class = Ours => reg'[x].class = Ours
                      /\ reg[x].backup # NoBackup => reg'[x].backup # NoBackup
      /\ op \in Off /\ reg[x].backup = NoBackup => reg'[x].backup = NoBackup
      /\ op = "progid" => reg'[x].progid = place
      /\ op = "class" => reg'[x].class = Ours
      /\ op = "list" => reg'[x].listed
      /\ op = "forget" => reg'[x].backup = NoBackup
  BY <1>0, <1>3, <1>k, KeyKept
<1> HIDE DEF x
<1>8. Clear'
  <2> SUFFICES ASSUME NEW e \in Ext, e \notin past.excused PROVE Consistent(reg'[e], past.owner[e])
    BY <1>4 DEF Clear, Consistent
  <2> QED
    BY <1>3, <1>6 DEF Keys, Clear
<1>9. Begun'
  <2> SUFFICES ASSUME NEW e \in Ext, NEW next \in Later, Turn(next, e)'
               PROVE  /\ next \in {"backup", "class", "list"} => reg'[e].progid = place
                      /\ next = "list" => reg'[e].class = Ours
                      /\ e \notin past.excused => Found(next, reg'[e], past.owner[e])
    BY <1>4 DEF Begun, Found, Taken
  <2>1. op = Prior(next) /\ e = x
    BY <1>5
  <2>2. /\ next = "backup" => op = "progid"
        /\ next = "class" => op = "backup"
        /\ next = "list" => op = "class"
    BY <2>1 DEF Prior
  <2>3. next = "list" => op = "class"
    BY <2>2
  <2> QED
    BY <2>1, <2>2, <2>3, <1>6, <1>7, <1>b DEF On
<1>10. Progress'
  <2> SUFFICES ASSUME NEW wanted \in SUBSET Ext, <<"synced", wanted>> \in Steps', NEW e \in Ext
               PROVE  IF e \in wanted THEN <<"list", e>> \in Steps' \/ Settled(e)'
                      ELSE <<"forget", e>> \in Steps' \/ e \in past'.excused \/ reg'[e].backup = NoBackup
    BY DEF Progress
  <2>1. <<"synced", wanted>> \in Steps
    BY <1>5
  <2>2. x \in wanted <=> op \in On
    BY <1>2, <2>1, ThisEnd
  <2>3. CASE e \in wanted
    <3>1. <<"list", e>> \in Steps \/ Settled(e)
      BY <2>1, <2>3 DEF Keys, Progress
    <3>2. CASE e # x
      <4>1. <<"list", e>> # <<op, x>> /\ reg'[e] = reg[e]
        BY <3>2, <1>3
      <4> QED
        BY <2>3, <3>1, <4>1, <1>4, <1>5 DEF Settled, Taken
    <3>3. CASE e = x /\ Settled(e)
      BY <2>2, <2>3, <3>3, <1>4, <1>7 DEF Settled, Taken
    <3>4. CASE e = x /\ <<"list", e>> \in Steps /\ <<"list", e>> \notin Steps'
      <4>1. op = "list"
        BY <3>4, <1>5
      <4>2. reg'[x].progid = place /\ reg'[x].listed /\ (reg'[x].class = Ours \/ x \in past.taken)
        BY <4>1, <1>b, <1>7 DEF Taken, On
      <4>3. x \notin past.excused => reg'[x].backup # NoBackup
        BY <4>1, <1>b, <1>7 DEF Found, On
      <4> QED
        BY <2>3, <3>4, <4>2, <4>3, <1>4 DEF Settled, Taken
    <3> QED
      BY <2>3, <3>1, <3>2, <3>3, <3>4
  <2>4. CASE e \notin wanted
    <3>1. <<"forget", e>> \in Steps \/ e \in past.excused \/ reg[e].backup = NoBackup
      BY <2>1, <2>4 DEF Keys, Progress
    <3>2. CASE e # x
      <4>1. <<"forget", e>> # <<op, x>> /\ reg'[e] = reg[e]
        BY <3>2, <1>3
      <4> QED
        BY <2>4, <3>1, <4>1, <1>4, <1>5
    <3>3. CASE e = x
      <4>1. op \in Off
        BY <2>2, <2>4, <3>3
      <4>2. <<"forget", e>> \in Steps => <<"forget", e>> \in Steps' \/ op = "forget"
        BY <1>5
      <4> QED
        BY <2>4, <3>1, <3>3, <4>1, <4>2, <1>4, <1>7
    <3> QED
      BY <3>2, <3>3
  <2> QED
    BY <2>3, <2>4
<1> QED
  BY <1>8, <1>9, <1>10 DEF Keys

\* Unregistering goes on after a failure: the extension is excused.
LEMMA KeysFail ==
  ASSUME Types, Agenda(work), Keys, NEW op \in Off, Doing(op), Done,
         UNCHANGED <<reg, place>>, past' = [past EXCEPT !.excused = @ \cup {Arg}]
  PROVE  Keys'
<1>0. work \in Seq(StepSet) /\ work # <<>> /\ past \in PastSet
  BY IsPlain DEF Plain, Doing
<1> DEFINE x == Arg
<1>1. Head(work) = <<op, x>> /\ Turn(op, x)
  BY <1>0, ThisStep
<1>2. /\ past'.owner = past.owner /\ past'.taken = past.taken
      /\ past'.excused = past.excused \cup {x}
  BY <1>0 DEF PastSet
<1>3. Steps = {<<op, x>>} \cup Steps' /\ \A next \in Later : \A e : Turn(next, e)' => op = Prior(next) /\ e = x
  <2>1. Steps = {Head(work)} \cup Steps' /\ \A next \in Later : \A e : Turn(next, e)' => Head(work) = <<Prior(next), e>>
    BY <1>0, StepDone
  <2> QED
    BY <2>1, <1>1
<1> HIDE DEF x
<1>4. Clear'
  BY <1>2 DEF Keys, Clear, Consistent
<1>5. Begun'
  <2> SUFFICES ASSUME NEW e \in Ext, NEW next \in Later, Turn(next, e)'
               PROVE  next \notin {"backup", "class", "list"} /\ e \in past'.excused
    BY DEF Begun
  <2>1. op = Prior(next) /\ e = x
    BY <1>3
  <2>2. next = "backup" => op = "progid"
    BY <2>1 DEF Prior
  <2>3. next = "class" => op = "backup"
    BY <2>1 DEF Prior
  <2>4. next = "list" => op = "class"
    BY <2>1 DEF Prior
  <2> QED
    BY <2>1, <2>2, <2>3, <2>4, <1>2 DEF Off
<1>6. Progress'
  <2> SUFFICES ASSUME NEW wanted \in SUBSET Ext, <<"synced", wanted>> \in Steps', NEW e \in Ext
               PROVE  IF e \in wanted THEN <<"list", e>> \in Steps' \/ Settled(e)'
                      ELSE <<"forget", e>> \in Steps' \/ e \in past'.excused \/ reg'[e].backup = NoBackup
    BY DEF Progress
  <2>1. <<"synced", wanted>> \in Steps
    BY <1>3
  <2>2. CASE e \in wanted
    <3>1. <<"list", e>> \in Steps \/ Settled(e)
      BY <2>1, <2>2 DEF Keys, Progress
    <3>2. <<"list", e>> # <<op, x>>
      BY DEF Off
    <3>3. Settled(e) => Settled(e)'
      BY <1>2 DEF Settled, Taken
    <3> QED
      BY <2>2, <3>1, <3>2, <3>3, <1>3
  <2>3. CASE e \notin wanted
    <3>1. <<"forget", e>> \in Steps \/ e \in past.excused \/ reg[e].backup = NoBackup
      BY <2>1, <2>3 DEF Keys, Progress
    <3>2. <<"forget", e>> = <<op, x>> => e = x
      OBVIOUS
    <3> QED
      BY <2>3, <3>1, <3>2, <1>2, <1>3
  <2> QED
    BY <2>2, <2>3
<1> QED
  BY <1>4, <1>5, <1>6 DEF Keys

LEMMA KeysSync ==
  ASSUME Types, Agenda(work), Keys, SyncAssoc
  PROVE  Keys'
<1>0. past \in PastSet
  BY IsPlain DEF Plain
<1>1. reg' = reg /\ place' = place /\ past'.owner = past.owner /\ past'.excused = past.excused
  BY <1>0 DEF SyncAssoc, registry, PastSet
<1>2. Clear'
  BY <1>1 DEF Keys, Clear, Consistent
<1>3. Begun'
  <2> SUFFICES ASSUME NEW e \in Ext, NEW op \in Later, Turn(op, e)' PROVE FALSE
    BY DEF Begun
  <2>1. FromStart(work') /\ work' \in Seq(StepSet)
    BY WorkSyncAssoc DEF Worked
  <2>2. work' # <<>> /\ Head(work') = <<op, e>>
    BY DEF Turn
  <2> QED
    BY <2>1, <2>2 DEF FromStart
<1>4. Progress'
  <2> SUFFICES ASSUME NEW wanted \in SUBSET Ext, <<"synced", wanted>> \in Steps', NEW e \in Ext
               PROVE  IF e \in wanted THEN <<"list", e>> \in Steps'
                      ELSE <<"forget", e>> \in Steps' \/ reg[e].backup = NoBackup
    BY <1>1 DEF Progress
  <2> DEFINE x == Arg
  <2>1. /\ \A s \in Steps' : s[1] = "synced" => s = <<"synced", x>>
        /\ \A ext \in x : <<"list", ext>> \in Steps'
        /\ \A ext \in Held \ x : <<"forget", ext>> \in Steps'
    BY WorkSyncAssoc
  <2> HIDE DEF x
  <2>2. wanted = x
    <3>1. <<"synced", wanted>>[1] = "synced"
      OBVIOUS
    <3>2. <<"synced", wanted>> = <<"synced", x>>
      BY <2>1, <3>1
    <3> QED
      BY <3>2
  <2> QED
    BY <2>1, <2>2 DEF Held
<1> QED
  BY <1>2, <1>3, <1>4 DEF Keys

\* Another program takes a class: it is the owner now.
LEMMA KeysTake ==
  ASSUME Types, Agenda(work), Keys, Take
  PROVE  Keys'
<1>0. past \in PastSet /\ reg \in [Ext -> KeySet] /\ work \in Seq(StepSet)
  BY IsPlain DEF Plain
<1>1. PICK x \in Ext, o \in Others :
        /\ reg' = [reg EXCEPT ![x].class = o]
        /\ past' = [past EXCEPT !.owner[x] = o, !.taken = IF work = <<>> THEN {} ELSE @ \cup {x},
                      !.excused = @ \cup IF Doing("class") /\ Arg = x THEN {x} ELSE {}]
  BY DEF Take
<1>2. place' = place /\ work' = work
  BY DEF Take
<1>3. /\ past'.owner = [past.owner EXCEPT ![x] = o]
      /\ past'.taken = IF work = <<>> THEN {} ELSE past.taken \cup {x}
      /\ past'.excused = past.excused \cup IF Doing("class") /\ Arg = x THEN {x} ELSE {}
  BY <1>0, <1>1 DEF PastSet
<1>4. past.owner \in [Ext -> Others \cup {Nobody}]
  BY <1>0 DEF PastSet
<1>5. \A e \in Ext : e # x => reg'[e] = reg[e] /\ past'.owner[e] = past.owner[e]
  BY <1>0, <1>1, <1>3, <1>4
<1>6. /\ reg'[x].class = o /\ past'.owner[x] = o /\ o # Ours
      /\ reg'[x].backup = reg[x].backup /\ reg'[x].progid = reg[x].progid
      /\ reg'[x].listed = reg[x].listed /\ reg'[x].choice = reg[x].choice
  BY <1>0, <1>1, <1>3, <1>4, Fresh DEF KeySet
<1>7. past.excused \subseteq past'.excused /\ (Turn("class", x) => x \in past'.excused)
  BY <1>0, <1>3, ThisStep DEF Turn
<1>8. work # <<>> => x \in past'.taken /\ past.taken \subseteq past'.taken
  BY <1>3
<1>c. Clear'
  <2> SUFFICES ASSUME NEW e \in Ext, e \notin past'.excused PROVE Consistent(reg'[e], past'.owner[e])
    BY DEF Clear, Consistent
  <2>1. Consistent(reg[e], past.owner[e])
    BY <1>7 DEF Keys, Clear
  <2> QED
    BY <2>1, <1>5, <1>6 DEF Consistent
<1>b. Begun'
  <2> SUFFICES ASSUME NEW e \in Ext, NEW op \in Later, Turn(op, e)
               PROVE  /\ op \in {"backup", "class", "list"} => reg'[e].progid = place
                      /\ op = "list" => reg'[e].class = Ours \/ e \in past'.taken
                      /\ e \notin past'.excused => Found(op, reg'[e], past'.owner[e])
    BY <1>2 DEF Begun, Turn, Taken, Found
  <2>0. work # <<>>
    BY DEF Turn
  <2>1. /\ op \in {"backup", "class", "list"} => reg[e].progid = place
        /\ op = "list" => Taken(e)
        /\ e \notin past.excused => Found(op, reg[e], past.owner[e])
    BY DEF Keys, Begun
  <2>2. CASE e # x
    BY <2>0, <2>1, <2>2, <1>5, <1>7, <1>8 DEF Taken
  <2>3. CASE e = x
    <3>1. e \notin past'.excused => op # "class"
      BY <2>3, <1>7
    <3> QED
      BY <2>0, <2>1, <2>3, <3>1, <1>6, <1>7, <1>8 DEF Found
  <2> QED
    BY <2>2, <2>3
<1>p. Progress'
  <2> SUFFICES ASSUME NEW wanted \in SUBSET Ext, <<"synced", wanted>> \in Steps, NEW e \in Ext
               PROVE  IF e \in wanted THEN <<"list", e>> \in Steps \/ Settled(e)'
                      ELSE <<"forget", e>> \in Steps \/ e \in past'.excused \/ reg'[e].backup = NoBackup
    BY <1>2 DEF Progress, Steps
  <2>0. work # <<>>
    BY InNone DEF Steps
  <2>1. IF e \in wanted THEN <<"list", e>> \in Steps \/ Settled(e)
        ELSE <<"forget", e>> \in Steps \/ e \in past.excused \/ reg[e].backup = NoBackup
    BY DEF Keys, Progress
  <2>2. Settled(e) => Settled(e)'
    BY <2>0, <1>2, <1>5, <1>6, <1>7, <1>8 DEF Settled, Taken
  <2> QED
    BY <2>1, <2>2, <1>5, <1>6, <1>7
<1> QED
  BY <1>c, <1>b, <1>p DEF Keys

\* The user picks a default app, which is offered.
LEMMA KeysPick ==
  ASSUME Types, Agenda(work), Keys, Pick
  PROVE  Keys'
<1>0. past \in PastSet /\ reg \in [Ext -> KeySet] /\ work \in Seq(StepSet)
  BY IsPlain DEF Plain
<1>1. PICK x \in Ext, o \in Others \cup {Ours} :
        /\ o = Ours => reg[x].listed
        /\ reg' = [reg EXCEPT ![x].choice = o]
        /\ past' = [past EXCEPT !.excused = @ \cup
                      IF \E i \in DOMAIN work : work[i] = <<"unprogid", x>> THEN {x} ELSE {}]
  BY DEF Pick
<1>2. place' = place /\ work' = work
  BY DEF Pick
<1>3. /\ past'.owner = past.owner /\ past'.taken = past.taken
      /\ past'.excused = past.excused \cup IF \E i \in DOMAIN work : work[i] = <<"unprogid", x>> THEN {x} ELSE {}
  BY <1>0, <1>1 DEF PastSet
<1>5. \A e \in Ext : e # x => reg'[e] = reg[e]
  BY <1>0, <1>1
<1>6. /\ reg'[x].class = reg[x].class /\ reg'[x].choice = o
      /\ reg'[x].backup = reg[x].backup /\ reg'[x].progid = reg[x].progid
      /\ reg'[x].listed = reg[x].listed
  BY <1>0, <1>1 DEF KeySet
<1>7. past.excused \subseteq past'.excused /\ \A i \in 1..Len(work) : work[i] = <<"unprogid", x>> => x \in past'.excused
  <2>1. past.excused \subseteq past'.excused
    BY <1>3
  <2>2. ASSUME NEW i \in 1..Len(work), work[i] = <<"unprogid", x>> PROVE x \in past'.excused
    <3>1. i \in DOMAIN work
      BY <1>0
    <3>2. \E j \in DOMAIN work : work[j] = <<"unprogid", x>>
      BY <3>1, <2>2, Zenon
    <3> QED
      BY <3>2, <1>3
  <2> QED
    BY <2>1, <2>2
<1>8. Turn("restore", x) \/ Turn("unlist", x) \/ Turn("unprogid", x) => x \in past'.excused
  <2> SUFFICES ASSUME work # <<>> PROVE Turn("restore", x) \/ Turn("unlist", x) \/ Turn("unprogid", x) => x \in past'.excused
    BY DEF Turn
  <2>1. 1 \in 1..Len(work) /\ Head(work) = work[1] /\ Len(work) \in Nat
    BY <1>0
  <2>2. Turn("restore", x) => work[3] = <<"unprogid", x>> /\ 3 \in 1..Len(work)
    BY <2>1 DEF Turn, Agenda, Follow
  <2>3. Turn("unlist", x) => work[2] = <<"unprogid", x>> /\ 2 \in 1..Len(work)
    BY <2>1 DEF Turn, Agenda, Follow
  <2>4. Turn("unprogid", x) => work[1] = <<"unprogid", x>>
    BY <2>1 DEF Turn
  <2> QED
    BY <2>1, <2>2, <2>3, <2>4, <1>7
<1>c. Clear'
  <2> SUFFICES ASSUME NEW e \in Ext, e \notin past'.excused PROVE Consistent(reg'[e], past.owner[e])
    BY <1>3 DEF Clear, Consistent
  <2>1. Consistent(reg[e], past.owner[e])
    BY <1>7 DEF Keys, Clear
  <2> QED
    BY <2>1, <1>1, <1>5, <1>6 DEF Consistent
<1>b. Begun'
  <2> SUFFICES ASSUME NEW e \in Ext, NEW op \in Later, Turn(op, e)
               PROVE  /\ op \in {"backup", "class", "list"} => reg'[e].progid = place
                      /\ op = "list" => reg'[e].class = Ours \/ e \in past.taken
                      /\ e \notin past'.excused => Found(op, reg'[e], past.owner[e])
    BY <1>2, <1>3 DEF Begun, Turn, Taken, Found
  <2>1. /\ op \in {"backup", "class", "list"} => reg[e].progid = place
        /\ op = "list" => Taken(e)
        /\ e \notin past.excused => Found(op, reg[e], past.owner[e])
    BY DEF Keys, Begun
  <2>2. CASE e # x
    BY <2>1, <2>2, <1>5, <1>7 DEF Taken
  <2>3. CASE e = x
    <3>1. e \notin past'.excused => op \notin {"restore", "unlist", "unprogid"}
      BY <2>3, <1>8
    <3>2. e \notin past'.excused => Found(op, reg'[e], past.owner[e])
      BY <2>1, <2>3, <3>1, <1>1, <1>6, <1>7 DEF Found
    <3> QED
      BY <2>1, <2>3, <3>2, <1>6 DEF Taken
  <2> QED
    BY <2>2, <2>3
<1>p. Progress'
  <2> SUFFICES ASSUME NEW wanted \in SUBSET Ext, <<"synced", wanted>> \in Steps, NEW e \in Ext
               PROVE  IF e \in wanted THEN <<"list", e>> \in Steps \/ Settled(e)'
                      ELSE <<"forget", e>> \in Steps \/ e \in past'.excused \/ reg'[e].backup = NoBackup
    BY <1>2 DEF Progress, Steps
  <2>1. IF e \in wanted THEN <<"list", e>> \in Steps \/ Settled(e)
        ELSE <<"forget", e>> \in Steps \/ e \in past.excused \/ reg[e].backup = NoBackup
    BY DEF Keys, Progress
  <2>2. Settled(e) => Settled(e)'
    BY <1>2, <1>3, <1>5, <1>6, <1>7 DEF Settled, Taken
  <2> QED
    BY <2>1, <2>2, <1>5, <1>6, <1>7
<1> QED
  BY <1>c, <1>b, <1>p DEF Keys

\* Only a sync of the associations, and the keys it writes, leave such work.
LEMMA MenuDone ==
  ASSUME Types, Agenda(work), NEW op, op \notin On \cup Off \cup {"assoc"}, Doing(op), Done
  PROVE  Unbegun(work') /\ Steps = {<<op, Arg>>} \cup Steps' /\ \A y \in Steps' : y \in StepSet /\ Before(<<op, Arg>>, y)
<1>1. work \in Seq(StepSet) /\ work # <<>>
  BY DEF Types, Doing
<1>2. Head(work) = <<op, Arg>>
  BY <1>1, ThisStep
<1> QED
  BY <1>1, <1>2, StepDone

LEMMA UnbegunProcess ==
  ASSUME Types, Agenda(work), Process
  PROVE  Unbegun(work')
<1>1. app = "off" => work = <<>>
  BY IsPlain DEF Plain, Quiet
<1>2. HookEnds \/ Quit \/ Die => work' = <<>>
  BY DEF HookEnds, Quit, Die
<1> QED
  BY <1>2, NoWork, WorkBoot, WorkInstall, WorkUninstall DEF Process

LEMMA UnbegunWindow ==
  ASSUME Types, Agenda(work), Window
  PROVE  Unbegun(work')
<1>1. CASE Sync
  <2>1. PICK w \in Windows :
        work' = IF w = "banner" \/ win[w].then = "assoc" THEN <<<<"assoc", win[w].copy.assoc>>>>
                   ELSE IF win[w].then = "menu" THEN <<<<"menu", win[w].copy.menu>>>>
                   ELSE IF win[w].then = "reset" THEN <<<<"menu", win[w].copy.menu>>>> \o <<<<"assoc", win[w].copy.assoc>>>>
                   ELSE <<>>
    BY <1>1 DEF Sync
  <2> QED
    BY <2>1, WorkSync
<1>2. CASE ~Sync
  <2>1. work' = work /\ work = <<>>
    BY <1>2 DEF Window, OpenSettings, CloseSettings, Edit, OnConnect, OnAfterOptions, Save, At, Free
  <2> QED
    BY <2>1, NoWork
<1> QED
  BY <1>1, <1>2

LEMMA KeysNext ==
  ASSUME Types, Agenda(work), Keys, [RegNext]_regVars
  PROVE  Keys'
<1>0. past \in PastSet
  BY IsPlain DEF Plain
<1>1. CASE UNCHANGED regVars
  BY <1>1, KeysQuiet DEF regVars, registry
<1>2. CASE Worker
  <2>1. CASE SyncMenu
    BY <2>1, WorkSyncMenu, KeysQuiet DEF SyncMenu, registry
  <2>2. CASE WriteShell
    <3>1. PICK op \in MenuOps : Doing(op) /\ Done
      BY <2>2 DEF WriteShell, MenuOps
    <3>2. op \notin On \cup Off \cup {"assoc"}
      BY DEF MenuOps, On, Off
    <3>3. Unbegun(work')
      BY <3>1, <3>2, MenuDone
    <3> QED
      BY <2>2, <3>3, KeysQuiet DEF WriteShell
  <2>3. CASE Report
    <3>1. Unbegun(work')
      BY <2>3, MenuDone DEF Report, On, Off
    <3>2. past'.owner = past.owner /\ past'.excused = past.excused /\ reg' = reg
      BY <1>0, <2>3 DEF Report, PastSet, registry
    <3> QED
      BY <3>1, <3>2, KeysQuiet
  <2>4. CASE SaveHook
    <3>1. Unbegun(work')
      BY <2>4, MenuDone DEF SaveHook, On, Off
    <3>2. past'.owner = past.owner /\ past'.excused = past.excused /\ reg' = reg
      BY <1>0, <2>4 DEF SaveHook, PastSet, registry
    <3> QED
      BY <3>1, <3>2, KeysQuiet
  <2>5. CASE DropFile
    <3>1. Unbegun(work')
      BY <2>5, MenuDone DEF DropFile, On, Off
    <3> QED
      BY <2>5, <3>1, KeysQuiet DEF DropFile, registry
  <2>6. CASE Fails
    <3>0. reg' = reg /\ place' = place
      BY <2>6 DEF Fails, registry
    <3>1. CASE work' = <<>> /\ UNCHANGED past
      BY <3>0, <3>1, NoWork, KeysQuiet
    <3>2. CASE /\ \E i \in DOMAIN work : work[i][1] = "menus" /\ work' = SubSeq(work, i + 1, Len(work))
               /\ UNCHANGED past
      <4>1. Unbegun(work')
        BY <3>2, WorkSkip DEF Types
      <4> QED
        BY <3>0, <3>2, <4>1, KeysQuiet
    <3>3. CASE Doing("package") /\ Done /\ UNCHANGED past
      <4>1. Unbegun(work')
        BY <3>3, MenuDone DEF On, Off
      <4> QED
        BY <3>0, <3>3, <4>1, KeysQuiet
    <3>4. CASE (\E op \in Off : Doing(op)) /\ Done /\ past' = [past EXCEPT !.excused = @ \cup {Arg}]
      BY <3>0, <3>4, KeysFail
    <3>5. CASE /\ Doing("unlink") \/ Doing("unclsid") \/ Doing("unpackage")
               /\ Done /\ past' = [past EXCEPT !.excused = @ \cup {"menu"}]
      <4>1. Unbegun(work')
        BY <3>5, MenuDone DEF On, Off
      <4>2. past'.owner = past.owner /\ past.excused \subseteq past'.excused
        BY <1>0, <3>5 DEF PastSet
      <4> QED
        BY <3>0, <4>1, <4>2, KeysQuiet
    <3> QED
      BY <2>6, <3>1, <3>2, <3>3, <3>4, <3>5, Ops DEF Fails
  <2> QED
    BY <1>2, <2>1, <2>2, <2>3, <2>4, <2>5, <2>6, KeysSync, KeysWrite DEF Worker
<1>3. CASE Process
  <2>1. reg' = reg /\ past'.owner = past.owner /\ past'.excused = past.excused
    BY <1>0, <1>3 DEF Process, Boot, Install, Uninstall, HookEnds, Quit, Die, PastSet, registry
  <2> QED
    BY <1>3, <2>1, UnbegunProcess, KeysQuiet
<1>4. CASE Window
  <2>1. reg' = reg /\ past'.owner = past.owner /\ past'.excused = past.excused
    BY <1>0, <1>4 DEF Window, OpenSettings, CloseSettings, Edit, OnConnect, OnAfterOptions, Save, Sync, PastSet, registry
  <2> QED
    BY <1>4, <2>1, UnbegunWindow, KeysQuiet
<1>5. CASE World
  <2>1. CASE Clean \/ Damage
    BY <2>1, KeysQuiet DEF Clean, Damage, registry
  <2>2. CASE Carry
    <3>1. work' = <<>>
      BY <2>2, IsPlain DEF Carry, Plain, Quiet
    <3> QED
      BY <2>2, <3>1, NoWork, KeysQuiet DEF Carry, registry
  <2> QED
    BY <1>5, <2>1, <2>2, KeysTake, KeysPick DEF World
<1> QED
  BY <1>1, <1>2, <1>3, <1>4, <1>5 DEF RegNext

-----------------------------------------------------------------------------
(* The menu.                                                               *)

MenuKeys == {"clsid", "link", "unlink", "unclsid", "unpackage"}

\* A step that changes nothing of the menu.
LEMMA MenuQuiet ==
  ASSUME Menu, shell' = shell, past.excused \subseteq past'.excused,
         (work' = work /\ place' = place) \/ (\A s \in Steps' : s[1] # "menus")
         \/ (place' = place /\ \E x : x[1] \notin MenuKeys /\ Steps = {x} \cup Steps')
  PROVE  Menu'
<1>1. CASE \A s \in Steps' : s[1] # "menus"
  <2>1. <<"menus", TRUE>> \notin Steps' /\ <<"menus", FALSE>> \notin Steps'
    <3> SUFFICES ASSUME NEW b, <<"menus", b>> \in Steps' PROVE FALSE
      OBVIOUS
    <3>1. <<"menus", b>>[1] = "menus"
      OBVIOUS
    <3> QED
      BY <1>1, <3>1
  <2> QED
    BY <2>1 DEF Menu
<1>2. CASE work' = work /\ place' = place
  BY <1>2 DEF Menu, Steps
<1>3. CASE place' = place /\ \E x : x[1] \notin MenuKeys /\ Steps = {x} \cup Steps'
  <2>1. PICK x : x[1] \notin MenuKeys /\ Steps = {x} \cup Steps'
    BY <1>3
  <2>2. \A op \in MenuKeys : \A y : <<op, y>> \in Steps => <<op, y>> \in Steps'
    <3> SUFFICES ASSUME NEW op \in MenuKeys, NEW y, <<op, y>> = x PROVE FALSE
      BY <2>1
    <3>1. x[1] = op
      OBVIOUS
    <3> QED
      BY <2>1, <3>1
  <2>3. {"clsid", "link", "unlink", "unclsid", "unpackage"} \subseteq MenuKeys
    BY DEF MenuKeys
  <2>4. \A y : <<"menus", y>> \in Steps' => <<"menus", y>> \in Steps
    BY <2>1
  <2> QED
    BY <1>3, <2>2, <2>3, <2>4 DEF Menu
<1> QED
  BY <1>1, <1>2, <1>3

\* The menu is being switched on or off, not both.
LEMMA OneMenu ==
  ASSUME Types, Agenda(work)
  PROVE  ~(<<"menus", TRUE>> \in Steps /\ <<"menus", FALSE>> \in Steps)
<1>1. Rank(<<"menus", TRUE>>) = 2 /\ Rank(<<"menus", FALSE>>) = 2 /\ 2 \notin {1, 4}
  BY DEF Rank, MenuOps, On, Off
<1>2. <<"menus", TRUE>> # <<"menus", FALSE>>
  OBVIOUS
<1> QED
  BY <1>1, <1>2, OneEnd DEF Types, Steps

LEMMA MenuWrite ==
  ASSUME Types, Agenda(work), Menu, NEW op \in MenuOps, Doing(op), Done,
         shell' = ShellOf(op, Arg), place' = place, past' = past
  PROVE  Menu'
<1>0. work \in Seq(StepSet) /\ work # <<>> /\ shell \in ShellSet /\ place \in Places
  BY IsPlain DEF Plain, Doing
<1> DEFINE x == Arg
<1>1. Head(work) = <<op, x>> /\ <<op, x>> \in Steps /\ Steps = {<<op, x>>} \cup Steps'
  <2>1. Head(work) = <<op, x>> /\ Head(work) \in Steps
    BY <1>0, ThisStep
  <2> QED
    BY <1>0, <2>1, StepDone
<1>2. op \in {"link", "unlink"} => x \in Handlers
  <2>1. <<op, x>> \in StepSet
    BY <1>0, <1>1, ThisStep
  <2> QED
    BY <2>1, StepPair
<1>3. /\ op \in {"clsid", "link", "package"} => <<"menus", TRUE>> \in Steps
      /\ op \in {"unlink", "unclsid"} => <<"menus", FALSE>> \in Steps
  BY <1>1 DEF Agenda, MenuEnd, Steps
<1>4. ~(<<"menus", TRUE>> \in Steps /\ <<"menus", FALSE>> \in Steps)
  BY OneMenu
<1>5. shell = [clsid |-> shell.clsid, links |-> shell.links, package |-> shell.package]
  BY <1>0 DEF ShellSet
<1>6. /\ op = "clsid" => shell'.clsid = place /\ shell'.links = shell.links
      /\ op = "link" => shell'.clsid = shell.clsid /\ shell'.links = shell.links \cup {x}
      /\ op = "unlink" => shell'.clsid = shell.clsid /\ shell'.links = shell.links \ {x} /\ shell'.package = shell.package
      /\ op = "unclsid" => shell'.clsid = Nowhere /\ shell'.links = shell.links /\ shell'.package = shell.package
      /\ op = "package" => shell'.clsid = shell.clsid /\ shell'.links = shell.links
      /\ op = "unpackage" => shell'.clsid = shell.clsid /\ shell'.links = shell.links /\ shell'.package = Nowhere
  BY <1>5 DEF ShellOf
<1>7. \A b : <<"menus", b>> \in Steps' => <<"menus", b>> \in Steps
  BY <1>1
<1>8. \A s \in Steps : s \in Steps' \/ s = <<op, x>>
  BY <1>1
<1> HIDE DEF x
<1>9. ASSUME <<"menus", TRUE>> \in Steps'
      PROVE  /\ shell'.clsid = place \/ <<"clsid", "menu">> \in Steps'
             /\ \A h \in Handlers : h \in shell'.links \/ <<"link", h>> \in Steps'
  <2>1. op \in {"clsid", "link", "package", "unpackage"}
    BY <1>3, <1>4, <1>7, <1>9 DEF MenuOps
  <2>2. /\ shell.clsid = place \/ <<"clsid", "menu">> \in Steps
        /\ \A h \in Handlers : h \in shell.links \/ <<"link", h>> \in Steps
    BY <1>7, <1>9 DEF Menu
  <2>3. shell'.clsid = place \/ <<"clsid", "menu">> \in Steps'
    <3>1. <<"clsid", "menu">> = <<op, x>> => op = "clsid"
      OBVIOUS
    <3> QED
      BY <1>6, <1>8, <2>1, <2>2, <3>1
  <2>4. ASSUME NEW h \in Handlers PROVE h \in shell'.links \/ <<"link", h>> \in Steps'
    <3>1. <<"link", h>> = <<op, x>> => op = "link" /\ h = x
      OBVIOUS
    <3> QED
      BY <1>6, <1>8, <2>1, <2>2, <3>1
  <2> QED
    BY <2>3, <2>4
<1>10. ASSUME <<"menus", FALSE>> \in Steps', "menu" \notin past.excused
       PROVE  /\ shell'.clsid = Nowhere \/ <<"unclsid", "menu">> \in Steps'
              /\ shell'.package = Nowhere \/ <<"unpackage", "menu">> \in Steps'
              /\ \A h \in Handlers : h \notin shell'.links \/ <<"unlink", h>> \in Steps'
  <2>1. op \in {"unlink", "unclsid", "unpackage"}
    BY <1>3, <1>4, <1>7, <1>10 DEF MenuOps
  <2>2. /\ shell.clsid = Nowhere \/ <<"unclsid", "menu">> \in Steps
        /\ shell.package = Nowhere \/ <<"unpackage", "menu">> \in Steps
        /\ \A h \in Handlers : h \notin shell.links \/ <<"unlink", h>> \in Steps
    BY <1>7, <1>10 DEF Menu
  <2>3. shell'.clsid = Nowhere \/ <<"unclsid", "menu">> \in Steps'
    <3>1. <<"unclsid", "menu">> = <<op, x>> => op = "unclsid"
      OBVIOUS
    <3> QED
      BY <1>6, <1>8, <2>1, <2>2, <3>1
  <2>4. shell'.package = Nowhere \/ <<"unpackage", "menu">> \in Steps'
    <3>1. <<"unpackage", "menu">> = <<op, x>> => op = "unpackage"
      OBVIOUS
    <3> QED
      BY <1>6, <1>8, <2>1, <2>2, <3>1
  <2>5. ASSUME NEW h \in Handlers PROVE h \notin shell'.links \/ <<"unlink", h>> \in Steps'
    <3>1. <<"unlink", h>> = <<op, x>> => op = "unlink" /\ h = x
      OBVIOUS
    <3> QED
      BY <1>6, <1>8, <2>1, <2>2, <3>1
  <2> QED
    BY <2>3, <2>4, <2>5
<1> QED
  BY <1>9, <1>10 DEF Menu

LEMMA MenuBegins ==
  ASSUME Types, Agenda(work), SyncMenu
  PROVE  Menu'
<1> DEFINE x == Arg
<1>0. shell' = shell /\ place' = place
  BY DEF SyncMenu, registry
<1>1. x \in BOOLEAN
  BY WorkSyncMenu
<1>2. PICK pre \in Seq(StepSet) :
               /\ Steps' = Range(pre) \cup {<<"menus", x>>} \cup Range(Tail(work))
               /\ \A y \in Range(pre) : y[1] \in MenuOps
               /\ \A y \in Range(Tail(work)) : y \in StepSet /\ Rank(y) \in 3..6 /\ y \in Steps
               /\ x => Linked \/ Range(Connect) \subseteq Range(pre)
               /\ ~x => <<"unpackage", "menu">> \in Range(pre) /\ (~Traces \/ Range(Disconnect) \subseteq Range(pre))
  BY WorkSyncMenu
<1> HIDE DEF x
<1>3. ASSUME NEW b, <<"menus", b>> \in Steps' PROVE b = x
  <2>1. <<"menus", b>> \notin Range(pre)
    <3>1. <<"menus", b>>[1] \notin MenuOps
      BY DEF MenuOps
    <3> QED
      BY <1>2, <3>1
  <2>2. <<"menus", b>> \notin Range(Tail(work))
    <3>1. Rank(<<"menus", b>>) = 2
      BY DEF Rank, MenuOps, On, Off
    <3> QED
      BY <1>2, <3>1
  <2>3. <<"menus", b>> = <<"menus", x>>
    BY <1>2, <1>3, <2>1, <2>2, Zenon
  <2> QED
    BY <2>3
<1>4. Range(pre) \subseteq Steps'
  BY <1>2
<1>5. ASSUME <<"menus", TRUE>> \in Steps'
      PROVE  /\ shell.clsid = place \/ <<"clsid", "menu">> \in Steps'
             /\ \A h \in Handlers : h \in shell.links \/ <<"link", h>> \in Steps'
  <2>1. Linked \/ Range(Connect) \subseteq Steps'
    BY <1>2, <1>3, <1>4, <1>5
  <2> QED
    BY <2>1, ConnectSteps DEF Linked
<1>6. ASSUME <<"menus", FALSE>> \in Steps'
      PROVE  /\ shell.clsid = Nowhere \/ <<"unclsid", "menu">> \in Steps'
             /\ <<"unpackage", "menu">> \in Steps'
             /\ \A h \in Handlers : h \notin shell.links \/ <<"unlink", h>> \in Steps'
  <2>1. <<"unpackage", "menu">> \in Steps' /\ (~Traces \/ Range(Disconnect) \subseteq Steps')
    BY <1>2, <1>3, <1>4, <1>6
  <2> QED
    BY <2>1, DisconnectSteps DEF Traces
<1> QED
  BY <1>0, <1>5, <1>6 DEF Menu

LEMMA MenuNext ==
  ASSUME Types, Agenda(work), Menu, [RegNext]_regVars
  PROVE  Menu'
<1>0. past \in PastSet /\ work \in Seq(StepSet)
  BY IsPlain DEF Plain
<1>1. CASE UNCHANGED regVars
  BY <1>1, MenuQuiet DEF regVars, registry
<1>2. CASE Worker
  <2>a. work # <<>> => Head(work) \in StepSet
    BY <1>0, ThisStep
  <2>1. CASE SyncAssoc
    <3>1. ASSUME NEW s \in Steps', s[1] = "menus" PROVE FALSE
      <4>1. s \in StepSet /\ Rank(s) \in {4, 5, 6}
        BY <2>1, <3>1, WorkSyncAssoc
      <4>2. Rank(s) = 2
        BY <3>1, <4>1, StepPair
      <4> QED
        BY <4>1, <4>2
    <3>2. shell' = shell /\ past'.excused = past.excused
      BY <1>0, <2>1 DEF SyncAssoc, registry, PastSet
    <3> QED
      BY <3>1, <3>2, MenuQuiet
  <2>2. CASE WriteExt
    <3>1. PICK op \in On \cup Off : Doing(op) /\ Done
      BY <2>2, Ops DEF WriteExt
    <3>2. Head(work) = <<op, Arg>> /\ Steps = {Head(work)} \cup Steps'
      BY <1>0, <3>1, ThisStep, StepDone DEF Doing
    <3>3. Head(work)[1] \notin MenuKeys
      BY <3>2 DEF MenuKeys, On, Off
    <3> QED
      BY <2>2, <3>2, <3>3, MenuQuiet DEF WriteExt
  <2>3. CASE WriteShell
    BY <2>3, MenuWrite DEF WriteShell, MenuOps
  <2>4. CASE Report \/ SaveHook \/ DropFile
    <3>1. PICK op \in {"synced", "menus", "save", "drop"} : Doing(op) /\ Done
      BY <2>4 DEF Report, SaveHook, DropFile
    <3>2. Head(work) = <<op, Arg>> /\ Steps = {Head(work)} \cup Steps'
      BY <1>0, <3>1, ThisStep, StepDone DEF Doing
    <3>3. Head(work)[1] \notin MenuKeys
      BY <3>2 DEF MenuKeys
    <3>4. shell' = shell /\ place' = place /\ past'.excused = past.excused
      BY <1>0, <2>4 DEF Report, SaveHook, DropFile, registry, PastSet
    <3> QED
      BY <3>2, <3>3, <3>4, MenuQuiet
  <2>5. CASE Fails
    <3>0. shell' = shell /\ place' = place
      BY <2>5 DEF Fails, registry
    <3>1. CASE work' = <<>> /\ UNCHANGED past
      BY <3>0, <3>1, NoWork, MenuQuiet
    <3>2. CASE /\ \E i \in DOMAIN work : work[i][1] = "menus" /\ work' = SubSeq(work, i + 1, Len(work))
               /\ UNCHANGED past
      <4>1. \A s \in Steps' : s[1] # "menus"
        BY <1>0, <3>2, WorkSkip
      <4> QED
        BY <3>0, <3>2, <4>1, MenuQuiet
    <3>3. CASE (\E op \in Off \cup {"package"} : Doing(op)) /\ Done /\ past.excused \subseteq past'.excused
      <4>1. PICK op \in Off \cup {"package"} : Doing(op)
        BY <3>3
      <4>2. Head(work) = <<op, Arg>> /\ Steps = {Head(work)} \cup Steps'
        BY <1>0, <3>3, <4>1, ThisStep, StepDone DEF Doing
      <4>3. Head(work)[1] \notin MenuKeys
        BY <4>2 DEF MenuKeys, Off
      <4> QED
        BY <3>0, <3>3, <4>2, <4>3, MenuQuiet
    <3>4. CASE /\ Doing("unlink") \/ Doing("unclsid") \/ Doing("unpackage")
               /\ Done /\ past' = [past EXCEPT !.excused = @ \cup {"menu"}]
      <4>1. PICK op \in {"unlink", "unclsid", "unpackage"} : Doing(op)
        BY <3>4
      <4>2. Steps = {<<op, Arg>>} \cup Steps'
        BY <1>0, <3>4, <4>1, ThisStep, StepDone DEF Doing
      <4>3. "menu" \in past'.excused
        BY <1>0, <3>4 DEF PastSet
      <4>4. \A y : <<"clsid", y>> # <<op, Arg>> /\ <<"link", y>> # <<op, Arg>>
        BY <4>1
      <4> HIDE DEF Arg
      <4> QED
        BY <3>0, <4>2, <4>3, <4>4 DEF Menu
    <3>5. (past' = [past EXCEPT !.excused = @ \cup {Arg}]) => past.excused \subseteq past'.excused
      BY <1>0 DEF PastSet
    <3> QED
      BY <2>5, <3>1, <3>2, <3>3, <3>4, <3>5, Ops DEF Fails
  <2> QED
    BY <1>2, <2>1, <2>2, <2>3, <2>4, <2>5, MenuBegins DEF Worker
<1>3. CASE Process
  <2>0. shell' = shell /\ past'.excused = past.excused
    BY <1>0, <1>3 DEF Process, Boot, Install, Uninstall, HookEnds, Quit, Die, registry, PastSet
  <2>1. CASE Uninstall
    <3>1. /\ <<"menus", TRUE>> \notin Steps' /\ <<"unpackage", "menu">> \in Steps'
          /\ Range(Disconnect) \subseteq Steps'
      BY <2>1, WorkUninstall
    <3> QED
      BY <3>1, DisconnectSteps DEF Menu
  <2>2. CASE ~Uninstall
    <3>1. ASSUME NEW s \in Steps', s[1] = "menus" PROVE FALSE
      <4>1. app = "off" => work = <<>>
        BY IsPlain DEF Plain, Quiet
      <4>2. HookEnds \/ Quit \/ Die => work' = <<>>
        BY DEF HookEnds, Quit, Die
      <4>3. CASE Boot
        BY <3>1, <4>3, WorkBoot
      <4>4. CASE Install
        <5>1. s = <<"remenu", TRUE>> \/ s[1] = "save" \/ s[1] = "assoc"
          BY <3>1, <4>4, WorkInstall, Zenon
        <5>2. s = <<"remenu", TRUE>> => s[1] = "remenu"
          OBVIOUS
        <5> QED
          BY <3>1, <5>1, <5>2
      <4> QED
        BY <1>3, <2>2, <3>1, <4>2, <4>3, <4>4, NoWork DEF Process
    <3> QED
      BY <2>0, <3>1, MenuQuiet
  <2> QED
    BY <2>1, <2>2
<1>4. CASE Window
  <2>0. shell' = shell /\ past'.excused = past.excused
    BY <1>0, <1>4 DEF Window, OpenSettings, CloseSettings, Edit, OnConnect, OnAfterOptions, Save, Sync, registry, PastSet
  <2>1. CASE Sync
    <3>1. PICK w \in Windows :
        work' = IF w = "banner" \/ win[w].then = "assoc" THEN <<<<"assoc", win[w].copy.assoc>>>>
                   ELSE IF win[w].then = "menu" THEN <<<<"menu", win[w].copy.menu>>>>
                   ELSE IF win[w].then = "reset" THEN <<<<"menu", win[w].copy.menu>>>> \o <<<<"assoc", win[w].copy.assoc>>>>
                   ELSE <<>>
      BY <2>1 DEF Sync
    <3>2. \A s \in Steps' : s[1] # "menus"
      BY <3>1, WorkSync
    <3> QED
      BY <2>0, <3>2, MenuQuiet
  <2>2. CASE ~Sync
    <3>1. work' = work /\ place' = place
      BY <1>4, <2>2 DEF Window, OpenSettings, CloseSettings, Edit, OnConnect, OnAfterOptions, Save
    <3> QED
      BY <2>0, <3>1, MenuQuiet
  <2> QED
    BY <2>1, <2>2
<1>5. CASE World
  <2>1. CASE Take \/ Pick \/ Damage
    <3>1. shell' = shell /\ place' = place /\ work' = work
      BY <2>1 DEF Take, Pick, Damage, registry
    <3>2. past.excused \subseteq past'.excused
      <4>1. CASE Take
        BY <1>0, <4>1 DEF Take, PastSet
      <4>2. CASE Pick
        BY <1>0, <4>2 DEF Pick, PastSet
      <4>3. CASE Damage
        BY <4>3 DEF Damage
      <4> QED
        BY <2>1, <4>1, <4>2, <4>3
    <3> QED
      BY <3>1, <3>2, MenuQuiet
  <2>2. CASE Clean \/ Carry
    <3>1. work' = <<>>
      BY <2>2, IsPlain DEF Clean, Carry, Plain, Quiet
    <3> QED
      BY <3>1, NoWork DEF Menu
  <2> QED
    BY <1>5, <2>1, <2>2 DEF World
<1> QED
  BY <1>1, <1>2, <1>3, <1>4, <1>5 DEF RegNext

-----------------------------------------------------------------------------
(* What the user wants.                                                    *)

\* A step of neither the settings file nor a window.
LEMMA WishQuiet ==
  ASSUME Wish, file' = file, win' = win, past'.wish = past.wish, WorkWish'
  PROVE  Wish'
<1>1. FileWish'
  BY DEF Wish, FileWish, Trusted, Saver, Load
<1>2. ReadWish'
  BY DEF Wish, ReadWish, Trusted, Overlaps, Load
<1>3. WinWish'
  BY DEF Wish, WinWish
<1> QED
  BY <1>1, <1>2, <1>3 DEF Wish

LEMMA WorkLess ==
  ASSUME Wish, Steps' \subseteq Steps, past'.wish = past.wish
  PROVE  WorkWish'
BY DEF Wish, WorkWish

\* No window is open.
LEMMA WishAlone ==
  ASSUME \A w \in Windows : win'[w] = Idle, FileWish', WorkWish'
  PROVE  Wish'
<1>1. /\ win'["settings"] = Idle /\ win'["banner"] = Idle /\ win'["after"] = Idle
      /\ Idle.at = "idle" /\ Idle.then = "nothing"
  BY DEF Windows, Idle
<1>2. ReadWish'
  BY <1>1 DEF ReadWish, Idle
<1>3. WinWish'
  BY <1>1 DEF WinWish
<1> QED
  BY <1>2, <1>3 DEF Wish

LEMMA WishOf ==
  ASSUME Wish, NEW s \in Steps
  PROVE  /\ s[1] \in {"assoc", "synced"} => past.wish \subseteq s[2]
         /\ s[1] = "save" => past.wish \subseteq s[2].assoc
         /\ s[1] = "drop" => past.wish = {}
BY DEF Wish, WorkWish

LEMMA WishOfStep ==
  ASSUME Wish, NEW x
  PROVE  /\ <<"assoc", x>> \in Steps => past.wish \subseteq x
         /\ <<"synced", x>> \in Steps => past.wish \subseteq x
         /\ <<"save", x>> \in Steps => past.wish \subseteq x.assoc
         /\ <<"drop", x>> \in Steps => past.wish = {}
<1>2. ASSUME NEW s \in Steps, s = <<"assoc", x>> PROVE past.wish \subseteq x
  <2>1. s[1] = "assoc" /\ s[2] = x
    BY <1>2
  <2> QED
    BY <2>1, WishOf
<1>3. ASSUME NEW s \in Steps, s = <<"synced", x>> PROVE past.wish \subseteq x
  <2>1. s[1] = "synced" /\ s[2] = x
    BY <1>3
  <2> QED
    BY <2>1, WishOf
<1>4. ASSUME NEW s \in Steps, s = <<"save", x>> PROVE past.wish \subseteq x.assoc
  <2>1. s[1] = "save" /\ s[2] = x
    BY <1>4
  <2> QED
    BY <2>1, WishOf
<1>5. ASSUME NEW s \in Steps, s = <<"drop", x>> PROVE past.wish = {}
  <2>1. s[1] = "drop"
    BY <1>5
  <2> QED
    BY <2>1, WishOf
<1> QED
  BY <1>2, <1>3, <1>4, <1>5

LEMMA FileWritten ==
  ASSUME file' \in Settings
  PROVE  Load' = file' /\ Trusted'
BY RegistrationAssumption DEF Load, Trusted

LEMMA WishWorker ==
  ASSUME Types, Agenda(work), Hooked, Wish, Worker
  PROVE  Wish'
<1>0. past \in PastSet /\ work \in Seq(StepSet) /\ file \in Files
  BY IsPlain DEF Plain
<1>a. app = "hook" => \A w \in Windows : win[w] = Idle
  BY IsPlain DEF Plain, Quiet
<1>b. work # <<>>
  BY DEF Worker, SyncAssoc, SyncMenu, WriteExt, WriteShell, Report, SaveHook, DropFile, Fails, Doing
<1>c. Done => Steps' \subseteq Steps
  BY <1>0, <1>b, StepDone
<1>1. CASE SyncAssoc
  <2>1. file' = file /\ win' = win /\ past'.wish = past.wish
    BY <1>0, <1>1 DEF SyncAssoc, PastSet
  <2> DEFINE x == Arg
  <2>2. /\ <<"assoc", x>> \in Steps
        /\ \A s \in Steps' : /\ s \in StepSet /\ Rank(s) \in {4, 5, 6} /\ s[1] # "assoc"
                             /\ s[1] = "synced" => s = <<"synced", x>>
                             /\ s[1] = "drop" => s \in Steps
    BY <1>1, WorkSyncAssoc
  <2> HIDE DEF x
  <2>3. WorkWish'
    <3> SUFFICES ASSUME NEW s \in Steps'
                 PROVE  /\ s[1] \in {"assoc", "synced"} => past.wish \subseteq s[2]
                        /\ s[1] = "save" => past.wish \subseteq s[2].assoc
                        /\ s[1] = "drop" => past.wish = {}
      BY <2>1 DEF WorkWish
    <3>1. s[1] # "assoc" /\ s[1] # "save"
      <4>1. s \in StepSet /\ Rank(s) \in {4, 5, 6} /\ s[1] # "assoc"
        BY <2>2
      <4>2. s[1] = "save" => Rank(s) = 3
        BY <4>1, StepPair
      <4> QED
        BY <4>1, <4>2
    <3>2. s[1] = "synced" => s[2] = x
      BY <2>2
    <3>3. past.wish \subseteq x
      BY <2>2, WishOfStep
    <3>4. s[1] = "drop" => past.wish = {}
      BY <2>2, WishOf
    <3> QED
      BY <3>1, <3>2, <3>3, <3>4
  <2> QED
    BY <2>1, <2>3, WishQuiet
<1>2. CASE SyncMenu
  <2>1. file' = file /\ win' = win /\ past' = past
    BY <1>2 DEF SyncMenu
  <2> DEFINE x == Arg
  <2>2. PICK pre \in Seq(StepSet) :
               /\ Steps' = Range(pre) \cup {<<"menus", x>>} \cup Range(Tail(work))
               /\ \A y \in Range(pre) : y[1] \in MenuOps
               /\ \A y \in Range(Tail(work)) : y \in StepSet /\ Rank(y) \in 3..6 /\ y \in Steps
    BY <1>2, WorkSyncMenu
  <2> HIDE DEF x
  <2>3. WorkWish'
    <3> SUFFICES ASSUME NEW s \in Steps', s[1] \in {"assoc", "synced", "save", "drop"} PROVE s \in Steps
      BY <2>1 DEF Wish, WorkWish
    <3>1. s \notin Range(pre)
      BY <2>2 DEF MenuOps
    <3>2. s # <<"menus", x>>
      <4>1. <<"menus", x>>[1] = "menus"
        OBVIOUS
      <4> QED
        BY <4>1
    <3>3. s \in Range(Tail(work))
      BY <2>2, <3>1, <3>2, Zenon
    <3> QED
      BY <2>2, <3>3
  <2> QED
    BY <2>1, <2>3, WishQuiet
<1>3. CASE WriteExt \/ WriteShell \/ Report
  <2>1. file' = file /\ win' = win /\ past'.wish = past.wish /\ Done
    BY <1>0, <1>3 DEF WriteExt, WriteShell, Report, PastSet
  <2> QED
    BY <2>1, <1>c, WorkLess, WishQuiet
<1>4. CASE SaveHook
  <2> DEFINE x == Arg
  <2>1. Head(work) = <<"save", x>> /\ <<"save", x>> \in Steps
    BY <1>0, <1>4, <1>b, ThisStep DEF SaveHook
  <2>2. x \in Settings
    <3>1. <<"save", x>> \in StepSet
      BY <1>0, <1>b, <2>1, ThisStep
    <3> QED
      BY <3>1, StepPair
  <2>3. app = "hook"
    BY <2>1 DEF Hooked
  <2>4. /\ file' = x /\ win' = win /\ Done
        /\ past'.wish = IF Load.init THEN past.wish ELSE x.assoc
    BY <1>0, <1>4 DEF SaveHook, PastSet
  <2> HIDE DEF x
  <2>5. past'.wish \subseteq x.assoc
    BY <2>1, <2>4, WishOfStep
  <2>6. FileWish'
    BY <2>2, <2>4, <2>5, FileWritten DEF FileWish
  <2>7. WorkWish'
    <3> SUFFICES ASSUME NEW s \in Steps'
                 PROVE  /\ s[1] = "assoc" => s[2] = x.assoc
                        /\ s[1] # "synced" /\ s[1] # "save" /\ s[1] # "drop"
      BY <2>5 DEF WorkWish
    <3>1. s \in Steps /\ s \in StepSet /\ Before(<<"save", x>>, s)
      <4>1. Head(work) = <<"save", x>>
        BY <2>1
      <4> QED
        BY <1>0, <1>b, <2>4, <4>1, StepDone
    <3>2. <<"save", x>>[1] = "save" /\ <<"save", x>>[2] = x
      OBVIOUS
    <3>3. /\ s[1] = "assoc" => s[2] = x.assoc
          /\ s[1] # "drop"
      BY <2>1, <3>1, <3>2 DEF Agenda, Saving, Steps
    <3>4. <<"save", x>> \in StepSet /\ Rank(<<"save", x>>) = 3
      BY <1>0, <1>b, <2>1, <3>2, ThisStep, StepPair
    <3>5. s[1] # "synced"
      <4>1. s[1] = "synced" => Rank(<<"save", x>>) >= 4
        BY <2>1, <3>1 DEF Agenda, Expanded, Steps
      <4> QED
        BY <3>4, <4>1
    <3>6. s[1] # "save"
      <4>1. s[1] = "save" => Rank(s) = 3
        BY <3>1, StepPair
      <4>2. Rank(s) # 3
        BY <3>1, <3>4 DEF Before
      <4> QED
        BY <4>1, <4>2
    <3> QED
      BY <3>3, <3>5, <3>6
  <2> QED
    BY <1>a, <2>3, <2>4, <2>6, <2>7, WishAlone
<1>5. CASE DropFile
  <2> DEFINE x == Arg
  <2>1. <<"drop", x>> \in Steps
    BY <1>0, <1>5, <1>b, ThisStep DEF DropFile
  <2>2. win' = win /\ past' = past /\ Done
    BY <1>5 DEF DropFile
  <2> HIDE DEF x
  <2>3. <<"drop", x>>[1] = "drop"
    OBVIOUS
  <2>4. app = "hook" /\ past.wish = {}
    BY <2>1, <2>3, WishOfStep DEF Hooked
  <2>5. FileWish'
    BY <2>2, <2>4 DEF FileWish
  <2> QED
    BY <1>a, <1>c, <2>2, <2>4, <2>5, WorkLess, WishAlone
<1>6. CASE Fails
  <2>1. file' = file /\ win' = win
    BY <1>6 DEF Fails
  <2>2. past'.wish = past.wish
    BY <1>0, <1>6 DEF Fails, PastSet
  <2>3. Steps' \subseteq Steps
    <3>1. CASE work' = <<>>
      BY <3>1, NoWork
    <3>2. CASE \E i \in DOMAIN work : work[i][1] = "menus" /\ work' = SubSeq(work, i + 1, Len(work))
      BY <1>0, <3>2, WorkSkip
    <3> QED
      BY <1>6, <1>c, <3>1, <3>2 DEF Fails
  <2> QED
    BY <2>1, <2>2, <2>3, WorkLess, WishQuiet
<1> QED
  BY <1>1, <1>2, <1>3, <1>4, <1>5, <1>6 DEF Worker

LEMMA WishProcess ==
  ASSUME Types, Agenda(work), Hooked, Wish, Process, ~past'.lost
  PROVE  Wish'
<1>0. past \in PastSet /\ work \in Seq(StepSet) /\ file \in Files
  BY IsPlain DEF Plain
<1>a. app # "on" => \A w \in Windows : win[w] = Idle
  BY IsPlain DEF Plain, Quiet
<1>b. app = "off" => work = <<>>
  BY IsPlain DEF Plain, Quiet
<1>c. Idle.at = "idle"
  BY DEF Idle
<1>d. app # "on" /\ Trusted => past.wish \subseteq Load.assoc
  BY <1>a, <1>c DEF Wish, FileWish, Saver
<1>1. CASE Boot
  <2>1. app = "off" /\ file' = file /\ win' = win /\ past' = past
    BY <1>1 DEF Boot
  <2>2. WorkWish'
    <3> SUFFICES ASSUME NEW s \in Steps'
                 PROVE  /\ s[1] \in {"assoc", "synced"} => past.wish \subseteq s[2]
                        /\ s[1] # "save" /\ s[1] # "drop"
      BY <2>1 DEF WorkWish
    <3>1. Trusted /\ (s = <<"menu", Load.menu>> \/ s = <<"assoc", Load.assoc>>)
      BY <1>1, WorkBoot
    <3> DEFINE A == Load.assoc
    <3>2. past.wish \subseteq A
      BY <1>d, <2>1, <3>1
    <3>3. s = <<"menu", Load.menu>> \/ s = <<"assoc", A>>
      BY <3>1
    <3> HIDE DEF A
    <3> QED
      BY <3>2, <3>3
  <2> QED
    BY <2>1, <2>2, WishQuiet
<1>2. CASE Install
  <2>1. app = "off" /\ file' = file /\ win' = win /\ past'.wish = past.wish
    BY <1>0, <1>2 DEF Install, PastSet
  <2>2. WorkWish'
    <3> SUFFICES ASSUME NEW s \in Steps'
                 PROVE  /\ s[1] \in {"assoc", "synced"} => past.wish \subseteq s[2]
                        /\ s[1] = "save" => past.wish \subseteq s[2].assoc
                        /\ s[1] # "drop"
      BY <2>1 DEF WorkWish
    <3>1. \/ s = <<"remenu", TRUE>>
          \/ /\ Trusted
             /\ \/ s[1] = "save" /\ Load.assoc \subseteq s[2].assoc
                \/ s[1] = "assoc" /\ Load.assoc \subseteq s[2]
      BY <1>2, WorkInstall, Zenon
    <3>2. CASE s = <<"remenu", TRUE>>
      BY <3>2
    <3>3. CASE s # <<"remenu", TRUE>>
      <4>1. past.wish \subseteq Load.assoc
        BY <1>d, <2>1, <3>1, <3>3
      <4> QED
        BY <3>1, <3>3, <4>1
    <3> QED
      BY <3>2, <3>3
  <2> QED
    BY <2>1, <2>2, WishQuiet
<1>3. CASE Uninstall
  <2>1. app = "off" /\ win' = win /\ past'.wish = {}
    BY <1>0, <1>3 DEF Uninstall, PastSet
  <2>2. WorkWish'
    <3> SUFFICES ASSUME NEW s \in Steps' PROVE s[1] # "save"
      BY <2>1 DEF WorkWish
    <3> QED
      BY <1>3, WorkUninstall
  <2>3. FileWish'
    BY <2>1 DEF FileWish
  <2> QED
    BY <1>a, <2>1, <2>2, <2>3, WishAlone
<1>4. CASE HookEnds
  <2>1. file' = file /\ win' = win /\ past' = past /\ work' = work
    BY <1>4 DEF HookEnds
  <2>2. Steps' = Steps
    BY <2>1 DEF Steps
  <2> QED
    BY <2>1, <2>2, WorkLess, WishQuiet
<1>5. CASE Quit
  <2>1. /\ \A w \in Windows : win[w].at \in {"idle", "open"}
        /\ win' = [w \in Windows |-> Idle] /\ past' = past /\ work' = work
        /\ file' \in {file} \cup (IF Trusted THEN {Load} ELSE {})
    BY <1>5 DEF Quit
  <2>2. Steps' = Steps /\ WorkWish'
    BY <2>1, WorkLess DEF Steps
  <2>3. Trusted => past.wish \subseteq Load.assoc
    BY <2>1 DEF Wish, FileWish, Saver
  <2>4. FileWish'
    <3>1. CASE file' = file
      BY <2>1, <2>3, <3>1 DEF FileWish, Trusted, Load
    <3>2. CASE Trusted /\ file' = Load
      <4>1. Load \in Settings
        BY IsPlain, Loaded
      <4>2. Load' = Load
        BY <3>2, <4>1, FileWritten
      <4> QED
        BY <2>1, <2>3, <3>2, <4>2 DEF FileWish
    <3> QED
      BY <2>1, <3>1, <3>2
  <2> QED
    BY <2>1, <2>2, <2>4, WishAlone
<1>6. CASE Die
  <2>1. work' = <<>> /\ win' = [w \in Windows |-> Idle] /\ file' = file
    BY <1>6 DEF Die
  <2>2. past'.wish = past.wish /\ ~Saver
    BY <1>0, <1>6 DEF Die, PastSet, Saver
  <2>3. Steps' = {}
    BY <2>1, NoWork
  <2>4. WorkWish'
    BY <2>3 DEF WorkWish
  <2>5. FileWish'
    BY <2>1, <2>2 DEF Wish, FileWish, Trusted, Load
  <2> QED
    BY <2>1, <2>4, <2>5, WishAlone
<1> QED
  BY <1>1, <1>2, <1>3, <1>4, <1>5, <1>6 DEF Process

LEMMA WishWorld ==
  ASSUME Types, Agenda(work), Wish, World
  PROVE  Wish'
<1>0. past \in PastSet
  BY IsPlain DEF Plain
<1>1. work' = work /\ win' = win
  BY PlainWorld
<1>2. past'.wish = past.wish
  BY <1>0 DEF World, Take, Pick, Clean, Damage, Carry, PastSet
<1>3. Steps' = Steps /\ WorkWish'
  BY <1>1, <1>2, WorkLess DEF Steps
<1>4. CASE Damage
  <2>1. ~Trusted'
    BY <1>4 DEF Damage, Trusted
  <2>2. FileWish' /\ ReadWish'
    BY <2>1 DEF FileWish, ReadWish
  <2>3. WinWish'
    BY <1>1, <1>2 DEF Wish, WinWish
  <2> QED
    BY <1>3, <2>2, <2>3 DEF Wish
<1>5. CASE ~Damage
  <2>1. file' = file
    BY <1>5 DEF World, Take, Pick, Clean, Carry
  <2> QED
    BY <1>1, <1>2, <1>3, <2>1, WishQuiet
<1> QED
  BY <1>4, <1>5

\* A window that opens, closes or begins to save, while no other is about to.
LEMMA Moved ==
  ASSUME Types, NEW w \in Windows, NEW r, Move(w, r)
  PROVE  win'[w] = r /\ \A v \in Windows : v # w => win'[v] = win[v]
BY IsPlain DEF Plain, Move

LEMMA Three ==
  \A w \in Windows : w = "settings" \/ w = "banner" \/ w = "after"
BY DEF Windows

\* A window that does not read, before or after.
LEMMA WishAside ==
  ASSUME Types, Wish, NEW w \in Windows, NEW r, Move(w, r), win[w].at # "read", r.at # "read",
         file' = file, past'.wish = past.wish
  PROVE  FileWish' /\ ReadWish'
<1>1. win'[w] = r /\ \A v \in Windows : v # w => win'[v] = win[v]
  BY Moved
<1>2. Load' = Load /\ Trusted' = Trusted
  BY DEF Load, Trusted
<1>3. \A v \in Windows : win'[v].at = "read" <=> win[v].at = "read"
  BY <1>1
<1>4. Saver' <=> Saver
  BY <1>3 DEF Saver
<1>5. \A v \in Windows : Overlaps(v)' <=> Overlaps(v)
  BY <1>3 DEF Overlaps
<1>6. FileWish'
  BY <1>2, <1>4 DEF Wish, FileWish
<1>7. ReadWish'
  <2> SUFFICES ASSUME NEW v \in Windows, win'[v].at = "read", ~Overlaps(v)', file' = win'[v].seen, Trusted',
                      Load'.assoc = win'[v].base
               PROVE  past'.wish \subseteq win'[v].copy.assoc
    BY DEF ReadWish
  <2>1. win'[v] = win[v]
    BY <1>1
  <2> QED
    BY <2>1, <1>2, <1>5 DEF Wish, ReadWish
<1> QED
  BY <1>6, <1>7

\* A window that reads the file while no other does.
LEMMA WishRead ==
  ASSUME Types, Wish, NEW w \in Windows, NEW r, Move(w, r), win[w].at # "read", r.at = "read", file' = file,
         Trusted /\ Load.assoc = r.base /\ past.wish \subseteq Load.assoc => past'.wish \subseteq r.copy.assoc
  PROVE  FileWish' /\ ReadWish'
<1>1. win'[w] = r /\ \A v \in Windows : v # w => win'[v] = win[v]
  BY Moved
<1>2. Load' = Load /\ Trusted' = Trusted
  BY DEF Load, Trusted
<1>3. Saver'
  BY <1>1 DEF Saver
<1>4. FileWish'
  BY <1>3 DEF FileWish
<1>5. ReadWish'
  <2> SUFFICES ASSUME NEW v \in Windows, win'[v].at = "read", ~Overlaps(v)', file' = win'[v].seen, Trusted',
                      Load'.assoc = win'[v].base
               PROVE  past'.wish \subseteq win'[v].copy.assoc
    BY DEF ReadWish
  <2>1. v = w
    BY <1>1 DEF Overlaps
  <2>2. ~Saver
    BY <1>1, <2>1 DEF Overlaps, Saver
  <2>3. past.wish \subseteq Load.assoc
    BY <1>2, <2>2 DEF Wish, FileWish
  <2> QED
    BY <1>1, <1>2, <2>1, <2>3
<1> QED
  BY <1>4, <1>5

LEMMA WishEdit ==
  ASSUME Types, Wish, Edit
  PROVE  Wish'
<1>0. past \in PastSet /\ win \in [Windows -> WinSet] /\ "settings" \in Windows
  BY IsPlain DEF Plain, Windows
<1> DEFINE s == win["settings"]
<1>1. s \in WinSet /\ s.at = "open" /\ work = <<>> /\ work' = <<>> /\ file' = file
  BY <1>0 DEF Edit, At, Free
<1>2. s.copy.assoc = s.base
  BY <1>1 DEF Wish, WinWish
<1>3. \E r \in WinSet : /\ Move("settings", r) /\ r.at = "read" /\ r.base = s.base
                        /\ past.wish \subseteq s.base => past'.wish \subseteq r.copy.assoc
  <2>1. CASE \E e \in Ext :
            LET tick == s.copy.assoc \cup {e}
                new  == IF e \in s.copy.assoc THEN tick \ {e} ELSE tick
            IN  /\ Move("settings", [s EXCEPT !.copy.assoc = new, !.copy.init = TRUE,
                                       !.then = "assoc", !.at = "read", !.seen = file])
                /\ past' = [past EXCEPT !.wish = IF e \in new THEN @ \cup {e} ELSE @ \ {e}]
    <3>1. PICK e \in Ext :
            LET tick == s.copy.assoc \cup {e}
                new  == IF e \in s.copy.assoc THEN tick \ {e} ELSE tick
            IN  /\ Move("settings", [s EXCEPT !.copy.assoc = new, !.copy.init = TRUE,
                                       !.then = "assoc", !.at = "read", !.seen = file])
                /\ past' = [past EXCEPT !.wish = IF e \in new THEN @ \cup {e} ELSE @ \ {e}]
      BY <2>1
    <3> DEFINE tick == s.copy.assoc \cup {e}
               new  == IF e \in s.copy.assoc THEN tick \ {e} ELSE tick
               r    == [s EXCEPT !.copy.assoc = new, !.copy.init = TRUE,
                                       !.then = "assoc", !.at = "read", !.seen = file]
    <3>2. Move("settings", r) /\ past' = [past EXCEPT !.wish = IF e \in new THEN @ \cup {e} ELSE @ \ {e}]
      BY <3>1
    <3>3. new \in SUBSET Ext
      BY <1>1 DEF WinSet, Settings
    <3>4. past'.wish = IF e \in new THEN past.wish \cup {e} ELSE past.wish \ {e}
      BY <1>0, <3>2 DEF PastSet
    <3>5. past.wish \subseteq s.base => past'.wish \subseteq new
      BY <1>2, <3>4
    <3> HIDE DEF new
    <3>6. r \in WinSet /\ r.at = "read" /\ r.base = s.base /\ r.copy.assoc = new
      BY <1>1, <3>3, IsPlain DEF WinSet, Settings, Plain
    <3> HIDE DEF r
    <3> QED
      BY <3>2, <3>5, <3>6
  <2>2. CASE /\ Move("settings", [s EXCEPT !.copy.menu = ~@, !.then = "menu", !.at = "read", !.seen = file])
             /\ UNCHANGED past
    <3> DEFINE r == [s EXCEPT !.copy.menu = ~@, !.then = "menu", !.at = "read", !.seen = file]
    <3>1. r \in WinSet /\ r.at = "read" /\ r.base = s.base /\ r.copy.assoc = s.copy.assoc
      BY <1>1, IsPlain DEF WinSet, Settings, Plain
    <3>2. Move("settings", r) /\ past' = past
      BY <2>2
    <3> HIDE DEF r
    <3> QED
      BY <1>2, <3>1, <3>2
  <2>3. CASE /\ Move("settings", [s EXCEPT !.copy = [Default EXCEPT !.init = s.copy.init],
                                 !.then = "reset", !.at = "read", !.seen = file])
             /\ past' = [past EXCEPT !.wish = {}]
    <3> DEFINE r == [s EXCEPT !.copy = [Default EXCEPT !.init = s.copy.init], !.then = "reset", !.at = "read", !.seen = file]
    <3>1. r \in WinSet /\ r.at = "read" /\ r.base = s.base
      BY <1>1, IsPlain, Loaded DEF WinSet, Settings, Plain
    <3>2. Move("settings", r) /\ past'.wish = {}
      BY <1>0, <2>3 DEF PastSet
    <3> HIDE DEF r
    <3> QED
      BY <3>1, <3>2
  <2>4. CASE /\ Move("settings", [s EXCEPT !.then = "nothing", !.at = "read", !.seen = file])
             /\ UNCHANGED past
    <3> DEFINE r == [s EXCEPT !.then = "nothing", !.at = "read", !.seen = file]
    <3>1. r \in WinSet /\ r.at = "read" /\ r.base = s.base /\ r.copy.assoc = s.copy.assoc
      BY <1>1, IsPlain DEF WinSet, Settings, Plain
    <3>2. Move("settings", r) /\ past' = past
      BY <2>4
    <3> HIDE DEF r
    <3> QED
      BY <1>2, <3>1, <3>2
  <2> QED
    BY <2>1, <2>2, <2>3, <2>4 DEF Edit
<1>4. PICK r \in WinSet : /\ Move("settings", r) /\ r.at = "read" /\ r.base = s.base
                          /\ past.wish \subseteq s.base => past'.wish \subseteq r.copy.assoc
  BY <1>3
<1>5. Trusted /\ Load.assoc = r.base /\ past.wish \subseteq Load.assoc => past'.wish \subseteq r.copy.assoc
  BY <1>4
<1>6. FileWish' /\ ReadWish'
  BY <1>0, <1>1, <1>4, <1>5, WishRead
<1>7. win'["settings"] = r /\ win'["banner"] = win["banner"] /\ win'["after"] = win["after"]
  BY <1>0, <1>4, Moved DEF Windows
<1>8. WinWish'
  BY <1>4, <1>7 DEF Wish, WinWish
<1>9. WorkWish'
  BY <1>1, NoWork DEF WorkWish
<1> QED
  BY <1>6, <1>8, <1>9 DEF Wish

LEMMA WishSave ==
  ASSUME Types, Wish, Save, ~past'.lost
  PROVE  Wish'
<1>0. past \in PastSet /\ win \in [Windows -> WinSet] /\ {"settings", "banner", "after"} \subseteq Windows
  BY IsPlain DEF Plain, Windows
<1>1. PICK w \in Windows :
        /\ At(w, "read")
        /\ \/ /\ file' = Written(w)
              /\ past' = [past EXCEPT !.lost = @ \/ file # win[w].seen \/ file = Unreadable
                                                 \/ Load.assoc # win[w].base \/ Overlaps(w)]
              /\ Move(w, [win[w] EXCEPT !.at = "saved", !.base = Written(w).assoc])
              /\ UNCHANGED left
           \/ /\ Spend("fail") /\ UNCHANGED file
              /\ past' = [past EXCEPT !.lost = TRUE]
              /\ Move(w, IF w = "settings" THEN [win[w] EXCEPT !.at = "saved"] ELSE Idle)
        /\ UNCHANGED <<registry, place, app, work>>
  BY DEF Save
<1>2. /\ file' = Written(w)
      /\ past' = [past EXCEPT !.lost = @ \/ file # win[w].seen \/ file = Unreadable
                                         \/ Load.assoc # win[w].base \/ Overlaps(w)]
      /\ Move(w, [win[w] EXCEPT !.at = "saved", !.base = Written(w).assoc])
  <2>1. past' # [past EXCEPT !.lost = TRUE]
    BY <1>0 DEF PastSet
  <2> QED
    BY <1>1, <2>1
<1>3. /\ file = win[w].seen /\ Trusted /\ Load.assoc = win[w].base /\ ~Overlaps(w) /\ past'.wish = past.wish
      /\ win[w].at = "read" /\ work' = <<>>
  BY <1>0, <1>1, <1>2 DEF PastSet, Trusted, At, Free
<1>4. past.wish \subseteq win[w].copy.assoc
  BY <1>3 DEF Wish, ReadWish
<1>5. Written(w) \in Settings /\ Written(w).assoc = win[w].copy.assoc
  BY <1>0 DEF Written, WinSet, Settings
<1>6. FileWish'
  BY <1>2, <1>3, <1>4, <1>5, FileWritten DEF FileWish
<1> DEFINE r == [win[w] EXCEPT !.at = "saved", !.base = Written(w).assoc]
<1>7. r.at = "saved" /\ r.base = win[w].copy.assoc /\ r.copy = win[w].copy /\ r.then = win[w].then
  BY <1>0, <1>5 DEF WinSet
<1>8. win'[w] = r /\ \A v \in Windows : v # w => win'[v] = win[v]
  BY <1>2, Moved
<1> HIDE DEF r
<1>9. ReadWish'
  <2> SUFFICES ASSUME NEW v \in Windows, win'[v].at = "read" PROVE FALSE
    BY DEF ReadWish
  <2> QED
    BY <1>3, <1>7, <1>8 DEF Overlaps
<1>10. WinWish'
  <2>1. CASE w = "settings"
    BY <2>1, <1>0, <1>3, <1>4, <1>7, <1>8 DEF Wish, WinWish
  <2>2. CASE w = "banner"
    BY <2>2, <1>0, <1>3, <1>7, <1>8 DEF Wish, WinWish
  <2>3. CASE w = "after"
    BY <2>3, <1>0, <1>3, <1>7, <1>8 DEF Wish, WinWish
  <2> QED
    BY <2>1, <2>2, <2>3, Three
<1>11. WorkWish'
  BY <1>3, NoWork DEF WorkWish
<1> QED
  BY <1>6, <1>9, <1>10, <1>11 DEF Wish

LEMMA WishSync ==
  ASSUME Types, Wish, Sync, ~past'.lost
  PROVE  Wish'
<1>0. past \in PastSet /\ win \in [Windows -> WinSet] /\ {"settings", "banner", "after"} \subseteq Windows
  BY IsPlain DEF Plain, Windows
<1>1. PICK w \in Windows :
        /\ At(w, "saved")
        /\ work' = IF w = "banner" \/ win[w].then = "assoc" THEN <<<<"assoc", win[w].copy.assoc>>>>
                   ELSE IF win[w].then = "menu" THEN <<<<"menu", win[w].copy.menu>>>>
                   ELSE IF win[w].then = "reset" THEN <<<<"menu", win[w].copy.menu>>>> \o <<<<"assoc", win[w].copy.assoc>>>>
                   ELSE <<>>
        /\ past' = [past EXCEPT !.lost = @ \/ win[w].copy.assoc # Load.assoc \/ Overlaps(w)]
        /\ Move(w, IF w = "settings" THEN [win[w] EXCEPT !.at = "open", !.then = "nothing",
                                                  !.seen = Missing] ELSE Idle)
        /\ UNCHANGED <<file, registry, place, app, left>>
  BY DEF Sync
<1>2. win[w].at = "saved" /\ file' = file
  BY <1>1 DEF At
<1>3. past'.wish = past.wish /\ win[w].copy.assoc = Load.assoc /\ ~Overlaps(w)
  BY <1>0, <1>1 DEF PastSet
<1> DEFINE r == IF w = "settings" THEN [win[w] EXCEPT !.at = "open", !.then = "nothing", !.seen = Missing] ELSE Idle
<1>4. /\ r.at # "read" /\ r.then = "nothing"
      /\ w = "settings" => r.at = "open" /\ r.copy = win[w].copy /\ r.base = win[w].base
      /\ w # "settings" => r.at = "idle"
  BY <1>0 DEF WinSet, Idle
<1>5. Move(w, r)
  BY <1>1
<1> HIDE DEF r
<1>6. FileWish' /\ ReadWish'
  BY <1>2, <1>3, <1>4, <1>5, WishAside
<1>7. win'[w] = r /\ \A v \in Windows : v # w => win'[v] = win[v]
  BY <1>5, Moved
<1>8. WinWish'
  <2>1. CASE w = "settings"
    BY <2>1, <1>0, <1>2, <1>3, <1>4, <1>7 DEF Wish, WinWish
  <2>2. CASE w = "banner"
    BY <2>2, <1>0, <1>2, <1>3, <1>4, <1>7 DEF Wish, WinWish
  <2>3. CASE w = "after"
    BY <2>3, <1>0, <1>2, <1>3, <1>4, <1>7 DEF Wish, WinWish
  <2> QED
    BY <2>1, <2>2, <2>3, Three
<1>9. WorkWish'
  <2>1. \A s \in Steps' : /\ s[1] \in {"menu", "assoc"}
                          /\ s[1] = "assoc" => s[2] = win[w].copy.assoc /\ (w = "banner" \/ win[w].then # "nothing")
    BY <1>1, WorkSync
  <2> SUFFICES ASSUME w = "banner" \/ win[w].then # "nothing" PROVE past.wish \subseteq win[w].copy.assoc
    BY <1>3, <2>1 DEF WorkWish
  <2>2. CASE w = "settings"
    BY <2>2, <1>2 DEF Wish, WinWish
  <2>3. CASE w = "banner"
    <3>1. Load.assoc # {}
      BY <2>3, <1>2, <1>3 DEF Wish, WinWish
    <3>2. Trusted
      BY <3>1 DEF Load, Trusted, Default
    <3>3. ~Saver
      BY <1>2, <1>3 DEF Saver, Overlaps
    <3> QED
      BY <1>3, <3>2, <3>3 DEF Wish, FileWish
  <2>4. CASE w = "after"
    BY <2>4 DEF Wish, WinWish
  <2> QED
    BY <2>2, <2>3, <2>4, Three
<1> QED
  BY <1>6, <1>8, <1>9 DEF Wish

LEMMA WishWindow ==
  ASSUME Types, Wish, Window, ~past'.lost
  PROVE  Wish'
<1>0. past \in PastSet /\ win \in [Windows -> WinSet] /\ {"settings", "banner", "after"} \subseteq Windows
  BY IsPlain DEF Plain, Windows
<1>a. Load \in Settings /\ Idle \in WinSet /\ Idle.at = "idle" /\ Idle.then = "nothing"
  BY IsPlain, Loaded DEF Idle
<1>b. work' = <<>> => WorkWish'
  BY NoWork DEF WorkWish
<1>1. CASE OpenSettings
  <2> DEFINE r == [Idle EXCEPT !.at = "open", !.copy = Load, !.base = Load.assoc]
  <2>1. r.at = "open" /\ r.copy = Load /\ r.base = Load.assoc
    BY <1>a DEF WinSet
  <2>2. Move("settings", r) /\ win["settings"].at = "idle" /\ file' = file /\ past' = past /\ work' = <<>>
    BY <1>1 DEF OpenSettings, At, Free
  <2> HIDE DEF r
  <2>3. FileWish' /\ ReadWish'
    BY <1>0, <2>1, <2>2, WishAside
  <2>4. win'["settings"] = r /\ win'["banner"] = win["banner"] /\ win'["after"] = win["after"]
    BY <1>0, <2>2, Moved
  <2>5. WinWish'
    BY <2>1, <2>2, <2>4 DEF Wish, WinWish
  <2> QED
    BY <1>b, <2>2, <2>3, <2>5 DEF Wish
<1>2. CASE CloseSettings
  <2>2. Move("settings", Idle) /\ win["settings"].at = "open" /\ file' = file /\ past' = past /\ work' = <<>>
    BY <1>2 DEF CloseSettings, At, Free
  <2>3. FileWish' /\ ReadWish'
    BY <1>0, <1>a, <2>2, WishAside
  <2>4. win'["settings"] = Idle /\ win'["banner"] = win["banner"] /\ win'["after"] = win["after"]
    BY <1>0, <2>2, Moved
  <2>5. WinWish'
    BY <1>a, <2>2, <2>4 DEF Wish, WinWish
  <2> QED
    BY <1>b, <2>2, <2>3, <2>5 DEF Wish
<1>3. CASE OnConnect
  <2>1. PICK e \in Ext :
        /\ Move("banner", [Idle EXCEPT !.at = "read", !.seen = file, !.base = Load.assoc,
                             !.copy = [Load EXCEPT !.assoc = @ \cup {e}, !.init = TRUE]])
        /\ past' = [past EXCEPT !.wish = @ \cup {e}]
    BY <1>3 DEF OnConnect
  <2> DEFINE r == [Idle EXCEPT !.at = "read", !.seen = file, !.base = Load.assoc,
                             !.copy = [Load EXCEPT !.assoc = @ \cup {e}, !.init = TRUE]]
  <2>2. r.at = "read" /\ r.base = Load.assoc /\ r.copy.assoc = Load.assoc \cup {e}
    BY <1>a DEF WinSet, Settings
  <2>3. /\ Move("banner", r) /\ win["banner"].at = "idle" /\ win["settings"].at = "idle" /\ file' = file
        /\ past'.wish = past.wish \cup {e} /\ work' = <<>>
    BY <1>0, <1>3, <2>1 DEF OnConnect, At, Free, PastSet
  <2> HIDE DEF r
  <2>4. past.wish \subseteq Load.assoc => past'.wish \subseteq r.copy.assoc
    BY <2>2, <2>3
  <2>5. FileWish' /\ ReadWish'
    BY <1>0, <2>2, <2>3, <2>4, WishRead
  <2>6. win'["banner"] = r /\ win'["settings"] = win["settings"] /\ win'["after"] = win["after"]
    BY <1>0, <2>3, Moved
  <2>7. WinWish'
    BY <2>2, <2>3, <2>6 DEF Wish, WinWish
  <2> QED
    BY <1>b, <2>3, <2>5, <2>7 DEF Wish
<1>4. CASE OnAfterOptions
  <2> DEFINE r == [Idle EXCEPT !.at = "read", !.seen = file, !.base = Load.assoc,
                        !.copy = [Load EXCEPT !.auto = ~@]]
  <2>2. r.at = "read" /\ r.base = Load.assoc /\ r.copy.assoc = Load.assoc /\ r.then = "nothing"
    BY <1>a DEF WinSet, Settings, Idle
  <2>3. /\ Move("after", r) /\ win["after"].at = "idle" /\ file' = file
        /\ past' = past /\ work' = <<>>
    BY <1>4 DEF OnAfterOptions, At, Free
  <2> HIDE DEF r
  <2>5. FileWish' /\ ReadWish'
    BY <1>0, <2>2, <2>3, WishRead
  <2>6. win'["after"] = r /\ win'["settings"] = win["settings"] /\ win'["banner"] = win["banner"]
    BY <1>0, <2>3, Moved
  <2>7. WinWish'
    BY <2>2, <2>3, <2>6 DEF Wish, WinWish
  <2> QED
    BY <1>b, <2>3, <2>5, <2>7 DEF Wish
<1> QED
  BY <1>1, <1>2, <1>3, <1>4, WishEdit, WishSave, WishSync DEF Window

LEMMA WishNext ==
  ASSUME Types, Agenda(work), Hooked, ~past.lost => Wish, [RegNext]_regVars, ~past'.lost
  PROVE  Wish'
<1>0. past \in PastSet
  BY IsPlain DEF Plain
<1>1. Wish
  <2>1. CASE UNCHANGED regVars
    BY <2>1 DEF regVars
  <2>2. CASE Worker
    BY <1>0, <2>2 DEF Worker, SyncAssoc, SyncMenu, WriteExt, WriteShell, Report, SaveHook, DropFile, Fails, PastSet
  <2>3. CASE Process
    BY <1>0, <2>3 DEF Process, Boot, Install, Uninstall, HookEnds, Quit, Die, PastSet
  <2>4. CASE Window
    BY <1>0, <2>4 DEF Window, OpenSettings, CloseSettings, Edit, OnConnect, OnAfterOptions, Save, Sync, PastSet
  <2>5. CASE World
    BY <1>0, <2>5 DEF World, Take, Pick, Clean, Damage, Carry, PastSet
  <2> QED
    BY <2>1, <2>2, <2>3, <2>4, <2>5 DEF RegNext
<1>2. CASE UNCHANGED regVars
  <2>1. file' = file /\ win' = win /\ past' = past /\ work' = work
    BY <1>2 DEF regVars
  <2>2. WorkWish'
    BY <1>1, <2>1, WorkLess DEF Steps
  <2> QED
    BY <1>1, <2>1, <2>2, WishQuiet
<1> QED
  BY <1>1, <1>2, WishWorker, WishProcess, WishWindow, WishWorld DEF RegNext

-----------------------------------------------------------------------------
(* The theorems.                                                           *)

LEMMA RegInitInv ==
  ASSUME RegInit PROVE RegInv
<1>1. PICK first \in [Ext -> Others \cup {Nobody}] :
        /\ reg = [e \in Ext |-> [class |-> first[e], backup |-> NoBackup, progid |-> Nowhere,
                                 listed |-> FALSE, choice |-> Nobody]]
        /\ past = [owner |-> first, wish |-> {}, lost |-> FALSE, excused |-> {}, taken |-> {}]
  BY DEF RegInit
<1>2. work = <<>> /\ Steps = {} /\ win = [w \in Windows |-> Idle] /\ file = Missing /\ app = "off"
  BY InNone DEF RegInit, Steps
<1>3. /\ Idle.at = "idle" /\ Idle.then = "nothing" /\ Idle.copy = Default /\ Idle.base = {} /\ Idle.seen = Missing
      /\ Idle \in WinSet /\ Default \in Settings
  BY DEF Idle, WinSet, Files, Settings, Default
<1>4. reg \in [Ext -> KeySet] /\ past \in PastSet
  BY <1>1 DEF KeySet, PastSet
<1>5. Types
  <2>1. left = Bounds
    BY DEF RegInit
  <2>2. left \in [DOMAIN Bounds -> Nat] /\ \A b \in DOMAIN Bounds : left[b] \in 0..Bounds[b]
    BY <2>1, RegistrationAssumption
  <2>3. win \in [Windows -> WinSet]
    BY <1>2, <1>3
  <2>4. work \in Seq(StepSet)
    BY <1>2
  <2>5. RegTypeOK
    <3>1. file \in Files /\ place \in Places /\ app \in {"off", "on", "hook"}
      BY <1>2 DEF RegInit, Files
    <3>2. shell \in ShellSet
      BY DEF RegInit, ShellSet
    <3>3. \A w \in Windows : win[w] = Idle
      BY <1>2
    <3> QED
      BY <1>2, <1>3, <1>4, <2>2, <3>1, <3>2, <3>3 DEF RegTypeOK, KeySet, PastSet, ShellSet
  <2> QED
    BY <1>4, <2>2, <2>3, <2>4, <2>5 DEF Types
<1>6. Agenda(work) /\ Hooked /\ Menu
  BY <1>2, NoneOrder DEF Hooked, Menu
<1>7. Keys
  <2>1. Begun
    BY <1>2 DEF Begun, Turn
  <2>2. Progress
    BY <1>2 DEF Progress
  <2>3. Clear
    BY <1>1, Fresh DEF Clear, Consistent
  <2> QED
    BY <2>1, <2>2, <2>3 DEF Keys
<1>8. Wish
  <2>1. WorkWish
    BY <1>2 DEF WorkWish
  <2>2. FileWish
    BY <1>1 DEF FileWish
  <2>3. ReadWish
    BY <1>2, <1>3 DEF ReadWish
  <2>4. WinWish
    BY <1>2, <1>3 DEF WinWish, Windows
  <2> QED
    BY <2>1, <2>2, <2>3, <2>4 DEF Wish
<1> QED
  BY <1>5, <1>6, <1>7, <1>8 DEF RegInv

LEMMA RegNextInv ==
  ASSUME RegInv, [RegNext]_regVars PROVE RegInv'
<1>1. Types /\ Agenda(work) /\ Hooked /\ Keys /\ Menu /\ (~past.lost => Wish)
  BY DEF RegInv
<1>2. Types' /\ Agenda(work)'
  BY <1>1, TypesNext
<1>3. Hooked' /\ Keys' /\ Menu'
  BY <1>1, HookedNext, KeysNext, MenuNext
<1>4. ~past'.lost => Wish'
  BY <1>1, WishNext
<1> QED
  BY <1>2, <1>3, <1>4 DEF RegInv

LEMMA RegSpecInv == RegSpec => []RegInv
BY RegInitInv, RegNextInv, PTL DEF RegSpec

\* While our class is set the backup is the owner's, and what the user chose can be opened,
\* at every moment (file_assoc.rs: register, unregister).
THEOREM RegKeysRight == RegSpec => []KeysRight
<1>1. RegInv => KeysRight
  <2> SUFFICES ASSUME RegInv PROVE KeysRight
    OBVIOUS
  <2>1. \A e \in Ext \ past.excused : Consistent(reg[e], past.owner[e])
    BY DEF RegInv, Keys, Clear
  <2>2. BackupRight
    BY <2>1 DEF BackupRight, Consistent
  <2>3. NeverBroken
    BY <2>1 DEF NeverBroken, Consistent
  <2> QED
    BY <2>2, <2>3 DEF KeysRight, RegInv, Types
<1> QED
  BY <1>1, RegSpecInv, PTL

\* What has its turn is alone with what comes after it.
LEMMA NoneBefore ==
  ASSUME Types, Agenda(work), NEW op, Doing(op), NEW s \in Steps, Rank(s) < Rank(<<op, Arg>>)
  PROVE  FALSE
<1>1. work \in Seq(StepSet) /\ work # <<>>
  BY DEF Types, Doing
<1>2. Head(work) = <<op, Arg>> /\ Head(work) \in StepSet
  BY <1>1, ThisStep
<1> DEFINE h == <<op, Arg>>
<1>3. h \in StepSet /\ s \in StepSet
  BY <1>1, <1>2, OfRange DEF Steps
<1>4. Rank(h) \in 1..6 /\ Rank(s) \in 1..6
  BY <1>3, StepPair
<1>5. s = h \/ Before(h, s)
  BY <1>1, <1>2, AgendaTail DEF Steps
<1> HIDE DEF h
<1>6. Rank(s) < Rank(h)
  BY DEF h
<1> QED
  BY <1>4, <1>5, <1>6 DEF Before

\* A sync that comes to its end without an error has done all it was to do, of the
\* associations (file_assoc.rs sync) and of the menu (shell_reg.rs sync_all).
THEOREM RegSyncDone == RegSpec => []SyncDone
<1>1. RegInv => SyncDone
  <2> SUFFICES ASSUME RegInv PROVE SyncExact /\ MenuWhole
    BY DEF SyncDone
  <2>0. Types /\ Agenda(work) /\ Keys /\ Menu /\ work \in Seq(StepSet) /\ shell \in ShellSet
    BY IsPlain DEF RegInv, Plain
  <2> DEFINE x == Arg
  <2>1. ASSUME Doing("synced")
        PROVE  /\ \A e \in Ext \ past.excused : e \in Held <=> e \in x
               /\ \A e \in x : /\ reg[e].progid = place /\ reg[e].listed
                               /\ reg[e].class = Ours \/ e \in past.taken
               /\ \A e \in Ext \ (x \cup past.excused) :
                     reg[e].class # Ours /\ reg[e].choice # Ours /\ ~reg[e].listed
    <3>1. <<"synced", x>> \in Steps /\ <<"synced", x>> \in StepSet
      BY <2>0, <2>1, ThisStep DEF Doing
    <3>2. x \in SUBSET Ext /\ Rank(<<"synced", x>>) = 5
      BY <3>1, StepPair
    <3>3. \A op \in On \cup Off, e \in Ext : <<op, e>> \notin Steps
      <4> SUFFICES ASSUME NEW op \in On \cup Off, NEW e \in Ext, <<op, e>> \in Steps PROVE FALSE
        OBVIOUS
      <4>1. Rank(<<op, e>>) = 4
        BY DEF Rank, MenuOps, On, Off
      <4>2. Rank(<<op, e>>) < Rank(<<"synced", x>>)
        BY <3>2, <4>1
      <4> QED
        BY <2>0, <2>1, <4>2, NoneBefore
    <3>4. \A e \in Ext : IF e \in x THEN Settled(e) ELSE e \in past.excused \/ reg[e].backup = NoBackup
      <4>1. "list" \in On \cup Off /\ "forget" \in On \cup Off
        BY DEF On, Off
      <4> HIDE DEF x
      <4> QED
        BY <3>1, <3>2, <3>3, <4>1, <2>0 DEF Keys, Progress
    <3>5. \A e \in Ext \ past.excused : Consistent(reg[e], past.owner[e])
      BY <2>0 DEF Keys, Clear
    <3> HIDE DEF x
    <3> QED
      BY <3>2, <3>4, <3>5 DEF Settled, Taken, Held, Consistent
  <2>2. ASSUME Doing("menus")
        PROVE  IF x THEN shell.clsid = place /\ shell.links = Handlers
               ELSE shell = [clsid |-> Nowhere, links |-> {}, package |-> Nowhere] \/ "menu" \in past.excused
    <3>1. <<"menus", x>> \in Steps /\ <<"menus", x>> \in StepSet
      BY <2>0, <2>2, ThisStep DEF Doing
    <3>2. x \in BOOLEAN /\ Rank(<<"menus", x>>) = 2
      BY <3>1, StepPair
    <3>3. \A op \in MenuOps : \A y : <<op, y>> \notin Steps
      <4> SUFFICES ASSUME NEW op \in MenuOps, NEW y, <<op, y>> \in Steps PROVE FALSE
        OBVIOUS
      <4>1. Rank(<<op, y>>) = 1
        <5>1. <<op, y>> \in StepSet
          BY <2>0, OfRange DEF Steps
        <5>2. <<op, y>>[1] = op
          OBVIOUS
        <5> QED
          BY <5>1, <5>2, StepPair
      <4>2. Rank(<<op, y>>) < Rank(<<"menus", x>>)
        BY <3>2, <4>1
      <4> QED
        BY <2>0, <2>2, <4>2, NoneBefore
    <3>4. {"clsid", "link", "unlink", "unclsid", "unpackage"} \subseteq MenuOps
      BY DEF MenuOps
    <3> HIDE DEF x
    <3>5. CASE x = TRUE
      <4>1. shell.clsid = place /\ \A h \in Handlers : h \in shell.links
        BY <2>0, <3>1, <3>3, <3>4, <3>5 DEF Menu
      <4>2. shell.links \subseteq Handlers
        BY <2>0 DEF ShellSet
      <4>3. shell.links = Handlers
        BY <4>1, <4>2
      <4> QED
        BY <3>5, <4>1, <4>3
    <3>6. CASE x = FALSE
      <4>1. "menu" \in past.excused \/ (/\ shell.clsid = Nowhere /\ shell.package = Nowhere
                                        /\ \A h \in Handlers : h \notin shell.links)
        BY <2>0, <3>1, <3>3, <3>4, <3>6 DEF Menu
      <4>2. shell = [clsid |-> shell.clsid, links |-> shell.links, package |-> shell.package]
            /\ shell.links \subseteq Handlers
        BY <2>0 DEF ShellSet
      <4>3. (\A h \in Handlers : h \notin shell.links) => shell.links = {}
        BY <4>2
      <4> QED
        BY <3>6, <4>1, <4>2, <4>3
    <3> QED
      BY <3>2, <3>5, <3>6
  <2> QED
    BY <2>1, <2>2 DEF SyncExact, MenuWhole
<1> QED
  BY <1>1, RegSpecInv, PTL

\* What a step does to the keys of the others.
LEMMA KeptStep ==
  ASSUME RegInv, [RegNext]_regVars, NEW e \in Ext \ past'.excused,
         reg'[e].class # reg[e].class, past'.owner[e] = past.owner[e]
  PROVE  \/ reg'[e].class = Ours /\ Doing("class")
         \/ reg[e].class = Ours /\ reg'[e].class \in {past.owner[e]}
<1>0. /\ Types /\ work \in Seq(StepSet) /\ reg \in [Ext -> KeySet] /\ past \in PastSet
      /\ past.owner \in [Ext -> Others \cup {Nobody}] /\ Clear
  BY IsPlain DEF RegInv, Plain, PastSet, Keys
<1>1. CASE WriteExt
  <2>1. PICK op \in On \cup Off : Doing(op) /\ reg' = [reg EXCEPT ![Arg] = KeyOf(op, @)] /\ past' = past
    BY <1>1, Ops DEF WriteExt
  <2>2. Consistent(reg[e], past.owner[e])
    BY <1>0, <2>1 DEF Clear
  <2>3. reg'[e] = KeyOf(op, reg[e])
    BY <1>0, <2>1
  <2> DEFINE k == reg[e]
  <2>4. k \in KeySet /\ k = [class |-> k.class, backup |-> k.backup, progid |-> k.progid, listed |-> k.listed, choice |-> k.choice]
    BY <1>0 DEF KeySet
  <2>5. past.owner[e] \in Others \cup {Nobody} /\ NoBackup \notin Others \cup {Nobody}
    BY <1>0, Fresh
  <2>6. CASE op = "class"
    <3>1. KeyOf(op, k) = [k EXCEPT !.class = Ours]
      BY <2>6 DEF KeyOf
    <3> QED
      BY <2>1, <2>3, <2>4, <2>6, <3>1
  <2>7. CASE op = "restore"
    <3>1. KeyOf(op, k) = IF k.class # Ours THEN k ELSE [k EXCEPT !.class = IF k.backup = NoBackup THEN Nobody ELSE k.backup]
      BY <2>7 DEF KeyOf, Restored
    <3>2. k.class = Ours /\ KeyOf(op, k).class = IF k.backup = NoBackup THEN Nobody ELSE k.backup
      BY <2>3, <2>4, <3>1
    <3>3. k.backup = past.owner[e]
      BY <2>2, <3>2 DEF Consistent
    <3> QED
      BY <2>3, <2>5, <3>2, <3>3
  <2>8. CASE op \notin {"class", "restore"}
    <3>1. /\ op = "progid" => KeyOf(op, k) = [k EXCEPT !.progid = place]
          /\ op = "backup" => KeyOf(op, k) = IF k.class # Ours THEN [k EXCEPT !.backup = k.class] ELSE k
          /\ op = "list" => KeyOf(op, k) = [k EXCEPT !.listed = TRUE]
          /\ op = "unchoose" => KeyOf(op, k) = IF k.choice = Ours THEN [k EXCEPT !.choice = Nobody] ELSE k
          /\ op = "unlist" => KeyOf(op, k) = [k EXCEPT !.listed = FALSE]
          /\ op = "unprogid" => KeyOf(op, k) = [k EXCEPT !.progid = Nowhere]
          /\ op = "forget" => KeyOf(op, k) = [k EXCEPT !.backup = NoBackup]
      BY DEF KeyOf, Backed, Unchosen
    <3>2. KeyOf(op, k).class = k.class
      BY <2>4, <2>8, <3>1 DEF On, Off
    <3> QED
      BY <2>3, <3>2
  <2> QED
    BY <2>6, <2>7, <2>8
<1>2. CASE Take
  <2>1. PICK x \in Ext, o \in Others :
        /\ reg[x].class # o /\ reg' = [reg EXCEPT ![x].class = o]
        /\ past' = [past EXCEPT !.owner[x] = o, !.taken = IF work = <<>> THEN {} ELSE @ \cup {x},
                      !.excused = @ \cup IF Doing("class") /\ Arg = x THEN {x} ELSE {}]
    BY <1>2 DEF Take
  <2>2. e = x /\ reg'[e].class = o
    BY <1>0, <2>1 DEF KeySet
  <2>3. past'.owner[e] = o /\ past.excused \subseteq past'.excused
    BY <1>0, <2>1, <2>2 DEF PastSet
  <2>4. Consistent(reg[e], past.owner[e])
    BY <1>0, <2>3 DEF Clear
  <2> QED
    BY <2>1, <2>2, <2>3, <2>4 DEF Consistent
<1>3. CASE Pick
  <2>1. PICK x \in Ext, o \in Others \cup {Ours} : reg' = [reg EXCEPT ![x].choice = o]
    BY <1>3 DEF Pick
  <2>2. reg'[e].class = reg[e].class
    BY <1>0, <2>1 DEF KeySet
  <2> QED
    BY <2>2
<1>4. CASE ~(WriteExt \/ Take \/ Pick)
  <2>1. reg' = reg
    <3>1. CASE UNCHANGED regVars
      BY <3>1 DEF regVars, registry
    <3>2. CASE Worker
      BY <3>2, <1>4 DEF Worker, SyncAssoc, SyncMenu, WriteShell, Report, SaveHook, DropFile, Fails, registry
    <3>3. CASE Process
      BY <3>3 DEF Process, Boot, Install, Uninstall, HookEnds, Quit, Die, registry
    <3>4. CASE Window
      BY <3>4 DEF Window, OpenSettings, CloseSettings, Edit, OnConnect, OnAfterOptions, Save, Sync, registry
    <3>5. CASE World
      BY <3>5, <1>4 DEF World, Clean, Damage, Carry, registry
    <3> QED
      BY <3>1, <3>2, <3>3, <3>4, <3>5 DEF RegNext
  <2> QED
    BY <2>1
<1> QED
  BY <1>1, <1>2, <1>3, <1>4

LEMMA LetGoStep ==
  ASSUME RegInv, [RegNext]_regVars, NEW e \in Ext, reg[e].backup # NoBackup, reg'[e].backup = NoBackup
  PROVE  e \notin past.wish \/ past.lost
<1>0. /\ Types /\ Agenda(work) /\ work \in Seq(StepSet) /\ reg \in [Ext -> KeySet]
      /\ (~past.lost => Wish)
  BY IsPlain DEF RegInv, Plain
<1>1. CASE WriteExt
  <2>1. PICK op \in On \cup Off : Doing(op) /\ reg' = [reg EXCEPT ![Arg] = KeyOf(op, @)]
    BY <1>1, Ops DEF WriteExt
  <2>2. Arg = e /\ reg'[e] = KeyOf(op, reg[e])
    BY <1>0, <2>1
  <2>3. op \in Off
    <3>1. reg[e] \in KeySet /\ place \in Places
      BY <1>0, IsPlain DEF Plain
    <3>2. op \in On /\ reg[e].backup # NoBackup => KeyOf(op, reg[e]).backup # NoBackup
      BY <2>1, <3>1, KeyKept
    <3> QED
      BY <2>1, <2>2, <3>2
  <2>4. Head(work) = <<op, e>> /\ Head(work) \in Steps /\ Head(work)[1] = op /\ Head(work)[2] = e
    <3>1. work # <<>>
      BY <2>1 DEF Doing
    <3> QED
      BY <1>0, <2>1, <2>2, <3>1, ThisStep
  <2>5. PICK wanted \in SUBSET Ext : <<"synced", wanted>> \in Steps /\ (e \in wanted <=> op \in On)
    BY <1>0, <2>1, <2>4 DEF Agenda, EndComes, Steps
  <2>6. e \notin wanted
    BY <2>3, <2>5 DEF On, Off
  <2> QED
    BY <1>0, <2>5, <2>6, WishOfStep
<1>2. CASE Take \/ Pick
  <2>1. reg'[e].backup = reg[e].backup
    <3>1. CASE Take
      BY <1>0, <3>1 DEF Take, KeySet
    <3>2. CASE Pick
      BY <1>0, <3>2 DEF Pick, KeySet
    <3> QED
      BY <1>2, <3>1, <3>2
  <2> QED
    BY <2>1
<1>3. CASE ~(WriteExt \/ Take \/ Pick)
  <2>1. reg' = reg
    <3>1. CASE UNCHANGED regVars
      BY <3>1 DEF regVars, registry
    <3>2. CASE Worker
      BY <3>2, <1>3 DEF Worker, SyncAssoc, SyncMenu, WriteShell, Report, SaveHook, DropFile, Fails, registry
    <3>3. CASE Process
      BY <3>3 DEF Process, Boot, Install, Uninstall, HookEnds, Quit, Die, registry
    <3>4. CASE Window
      BY <3>4 DEF Window, OpenSettings, CloseSettings, Edit, OnConnect, OnAfterOptions, Save, Sync, registry
    <3>5. CASE World
      BY <3>5, <1>3 DEF World, Clean, Damage, Carry, registry
    <3> QED
      BY <3>1, <3>2, <3>3, <3>4, <3>5 DEF RegNext
  <2> QED
    BY <2>1
<1> QED
  BY <1>1, <1>2, <1>3

\* Other programs keep their class default except when we register, and get it back when we
\* unregister; no extension the user wants is let go (file_assoc.rs, settings.rs, main.rs).
THEOREM RegNobodyLoses == RegSpec => NobodyLoses
<1>1. RegInv /\ [RegNext]_regVars =>
        [\A e \in Ext \ past'.excused :
            reg'[e].class # reg[e].class /\ past'.owner[e] = past.owner[e] =>
                \/ reg'[e].class = Ours /\ Doing("class")
                \/ reg[e].class = Ours /\ reg'[e].class \in {past.owner[e]}]_regVars
  BY KeptStep
<1>2. RegInv /\ [RegNext]_regVars =>
        [\A e \in Ext : reg[e].backup # NoBackup /\ reg'[e].backup = NoBackup =>
            e \notin past.wish \/ past.lost]_regVars
  BY LetGoStep
<1>3. RegSpec => OthersKept
  BY <1>1, RegSpecInv, PTL DEF RegSpec, OthersKept
<1>4. RegSpec => WishKept
  BY <1>2, RegSpecInv, PTL DEF RegSpec, WishKept
<1> QED
  BY <1>3, <1>4 DEF NobodyLoses

=============================================================================
