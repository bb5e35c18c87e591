--------------------------- MODULE SessionProofs ---------------------------
(***************************************************************************)
(* Proofs about what the windows that show archives share, for any number  *)
(* of archives and windows: every archive left for a window is taken once, *)
(* an archive opened from the shell has one window, and no item is handed  *)
(* out that is half-written or too old.                                    *)
(***************************************************************************)
EXTENDS Session, FiniteSetTheorems, TLAPS

(* The types of what the state is made of. *)
Stages  == {"none", "loading", "listening", "live", "gone"}
Maybe   == Archives \cup {Nothing}
Calls   == {Nothing} \cup [arc : Archives, res : {"ok", "ask", "fail"}]
Asks    == {Nothing} \cup [arc : Archives, mode : {"open", "entry"}]
Windows == [st : Stages, shown : Maybe, call : Calls, ask : Asks]

Todos    == {<<a>> : a \in Disk} \cup {<<a, b>> : a \in Disk, b \in Disk}
Steps    == {"look", "serve", "signal"}
Finds    == Labels \cup {Nothing}
Requests == [todo : Todos, first : BOOLEAN, st : Steps, found : Finds]

Ops      == {"open", "drag", "nested"}
Versions == 0..MaxEdits
Written  == Absent..MaxEdits
Tasks    == [win : Labels, op : Ops, arc : Archives, typed : BOOLEAN, key : BOOLEAN,
             ver : Written, due : Versions]

WindowsOK ==
    /\ win \in [Labels -> Windows] /\ next \in 0..MaxViewers
    /\ \A l \in Viewers : (l > next <=> win[l].st = "none") /\ win[l].st # "listening"

PlacesOK ==
    /\ pending \in [Viewers -> Maybe] /\ opened \in [Labels -> Maybe] /\ startup \in Maybe
    /\ signals \in 0..1 /\ reqs \subseteq Requests /\ pw \in Locked \cup {Nothing}

ItemsOK ==
    /\ cache \in [Archives -> Written] /\ tasks \subseteq Tasks /\ ver \in [Archives -> Versions]
    /\ acts \in 0..MaxActs /\ lapses \subseteq {"overlap", "moved"}
    /\ \A t \in tasks : t.op = "nested" => ItemOf[t.arc] \in Archives

\* A place is filled only for a window that comes up, and a viewer window is in
\* the record only once it is up.
OnTheWay ==
    \A l \in Viewers :
        /\ win[l].st \in {"none", "live"} => pending[l] = Nothing
        /\ win[l].st # "live" => opened[l] = Nothing

Place(l)   == IF l = Main THEN startup ELSE pending[l]
Waiting(a) == {l \in Labels : Alive(l) /\ Place(l) = a}

\* What is owed is what lies in the places of windows that still live.
Counted ==
    /\ owed \in [Archives -> Nat]
    /\ \A a \in Archives : owed[a] = Cardinality(Waiting(a))

\* The archive of the start is left once, and signalled after that.
LeftOnce ==
    /\ \A r, q \in reqs : r.first = TRUE /\ q.first = TRUE => r = q
    /\ \A r \in reqs :
        /\ r.st = "signal" => r.first = TRUE
        /\ r.first = TRUE => signals = 0
        /\ r.first = TRUE /\ r.st # "signal" => startup = Nothing

\* The main window is still to look for what lies in its place.
Announced ==
    startup # Nothing /\ Alive(Main) =>
        \/ win[Main].st \in {"loading", "listening"} \/ signals = 1
        \/ \E r \in reqs : r.st = "signal"

\* What a window is for: the archive in its place, or else the recorded one.
Claim(l) == IF Place(l) # Nothing THEN Place(l) ELSE opened[l]

\* As long as nothing odd happened the main window lives.
Clean == lapses = {} /\ Alive(Main)

\* A window works on the archive it is recorded for.
OwnArchive ==
    \A l \in Labels :
        /\ win[l].call # Nothing => win[l].call.arc = opened[l]
        /\ win[l].ask # Nothing /\ win[l].ask.mode = "open" => win[l].ask.arc = opened[l]
        /\ Alive(l) /\ Place(l) # Nothing => opened[l] = Nothing

\* No two windows are for one archive of the disk, and a request knows the one
\* that is for its archive.
Apart ==
    /\ \A k, l \in Labels :
        k # l /\ Alive(k) /\ Alive(l) /\ Claim(k) = Claim(l) => Claim(k) \notin Disk
    /\ \A r, q \in reqs : r = q
    /\ \A r \in reqs :
        /\ r.first = TRUE /\ r.st # "signal" => opened[Main] = Nothing
        /\ Len(r.todo) = 2 => r.todo[1] # r.todo[2]
        /\ \A l \in Labels :
            Alive(l) =>
                /\ Len(r.todo) = 2 => Claim(l) # r.todo[2]
                /\ r.st = "look" => Place(l) # r.todo[1]
                /\ r.st = "serve" /\ Claim(l) = r.todo[1] => l = r.found

\* The items: none in the temporary folder is half-written, and one that has been
\* read is as new as it is due.
Fresh ==
    /\ spoiled = FALSE
    /\ \A t \in tasks :
        /\ t.due <= ver[t.arc]
        /\ t.ver # Absent => t.due <= t.ver

\* The inductive invariant.
IInv ==
    /\ WindowsOK /\ PlacesOK /\ ItemsOK
    /\ OnTheWay /\ Counted /\ LeftOnce /\ Announced
    /\ Clean => OwnArchive /\ Apart
    /\ Fresh

-----------------------------------------------------------------------------
(* The parts of the state.                                                 *)

\* What the sets of the small parts hold, and that no window or archive is Nothing.
LEMMA Names ==
    /\ Main \in Labels /\ Viewers \subseteq Labels /\ Main \notin Viewers
    /\ \A l \in Labels : l # Nothing /\ (l # Main => l \in Viewers)
    /\ Disk \subseteq Archives /\ Nothing \notin Disk /\ Nothing \notin Archives
    /\ Archives \subseteq Maybe /\ Nothing \in Maybe
    /\ \A a \in Maybe : a # Nothing => a \in Archives
    /\ \A a \in Archives : ItemOf[a] \notin Disk
BY SessionAssumption DEF Main, Labels, Viewers, Disk, Maybe

LEMMA WindowParts ==
    ASSUME NEW w \in Windows
    PROVE  /\ w.st \in Stages /\ w.shown \in Maybe /\ w.call \in Calls /\ w.ask \in Asks
           /\ w = [st |-> w.st, shown |-> w.shown, call |-> w.call, ask |-> w.ask]
           /\ w.call # Nothing => w.call \in [arc : Archives, res : {"ok", "ask", "fail"}]
           /\ w.ask # Nothing => w.ask \in [arc : Archives, mode : {"open", "entry"}]
BY DEF Windows, Calls, Asks

LEMMA RequestParts ==
    ASSUME NEW r \in Requests
    PROVE  /\ r.todo \in Todos /\ r.first \in BOOLEAN /\ r.st \in Steps /\ r.found \in Finds
           /\ r = [todo |-> r.todo, first |-> r.first, st |-> r.st, found |-> r.found]
BY DEF Requests

LEMMA TodoParts ==
    ASSUME NEW t \in Todos
    PROVE  /\ Head(t) = t[1] /\ t[1] \in Disk /\ Len(t) \in {1, 2}
           /\ Len(t) # 1 => Len(t) = 2 /\ t[2] \in Disk /\ Tail(t) = <<t[2]>>
<1>1. CASE t \in {<<a>> : a \in Disk}
  BY <1>1
<1>2. CASE t \in {<<a, b>> : a \in Disk, b \in Disk}
  <2>1. PICK a \in Disk, b \in Disk : t = <<a, b>>
    BY <1>2
  <2>2. Tail(t) = <<b>>
    BY <2>1
  <2> QED BY <2>1, <2>2
<1> QED BY <1>1, <1>2 DEF Todos

LEMMA OneTodo ==
    ASSUME NEW a \in Disk
    PROVE  <<a>> \in Todos /\ Len(<<a>>) = 1 /\ Head(<<a>>) = a
BY DEF Todos

LEMMA RequestType ==
    ASSUME NEW t \in Todos, NEW f \in BOOLEAN
    PROVE  /\ Request(t, f) \in Requests
           /\ Request(t, f).todo = t /\ Request(t, f).first = f
           /\ Request(t, f).st = "look" /\ Request(t, f).found = Nothing
<1>1. "look" \in Steps /\ Nothing \in Finds
  BY DEF Steps, Finds
<1> QED BY <1>1 DEF Request, Requests

LEMMA TaskParts ==
    ASSUME NEW t \in Tasks
    PROVE  /\ t.win \in Labels /\ t.op \in Ops /\ t.arc \in Archives /\ t.typed \in BOOLEAN
           /\ t.key \in BOOLEAN /\ t.ver \in Written /\ t.due \in Versions
           /\ t = [win |-> t.win, op |-> t.op, arc |-> t.arc, typed |-> t.typed,
                   key |-> t.key, ver |-> t.ver, due |-> t.due]
BY DEF Tasks

\* A version is a number; only Absent is below 0.
LEMMA Numbers ==
    /\ \A v \in Written : v \in Int /\ (v # Absent => v \in Versions)
    /\ \A v \in Versions : v \in Nat /\ v \in Written /\ v <= MaxEdits /\ v # Absent
    /\ \A v \in Nat : v <= MaxEdits => v \in Versions
    /\ 0 \in Versions /\ Absent \in Written
    /\ \A v \in Written : v \in Partial..MaxEdits
BY SessionAssumption DEF Written, Versions, Absent, Partial

\* What a request leaves behind when its path is done with.
LEMMA AfterServed ==
    ASSUME NEW r \in reqs, reqs \subseteq Requests
    PROVE  /\ Served(r) \subseteq Requests
           /\ \A q \in Served(r) :
                \/ q \in reqs /\ q # r
                \/ /\ Len(r.todo) = 2 /\ q.todo = <<r.todo[2]>> /\ q.first = FALSE
                   /\ q.st = "look" /\ q.found = Nothing
           /\ \A q \in reqs : q # r => q \in Served(r)
<1>1. r \in Requests
  OBVIOUS
<1>2. r.todo \in Todos
  BY <1>1, RequestParts
<1>3. CASE Len(r.todo) = 1
  BY <1>3 DEF Served
<1>4. CASE Len(r.todo) # 1
  <2>1. Len(r.todo) = 2 /\ r.todo[2] \in Disk /\ Tail(r.todo) = <<r.todo[2]>>
    BY <1>2, <1>4, TodoParts
  <2>2. Tail(r.todo) \in Todos
    BY <2>1, OneTodo
  <2>3. PICK q : q = Request(Tail(r.todo), FALSE)
    OBVIOUS
  <2>4. q \in Requests /\ q.todo = <<r.todo[2]>> /\ q.first = FALSE /\ q.st = "look" /\ q.found = Nothing
    BY <2>1, <2>2, <2>3, RequestType
  <2>5. Served(r) = (reqs \ {r}) \cup {q}
    BY <1>4, <2>3 DEF Served
  <2> QED BY <2>1, <2>4, <2>5
<1> QED BY <1>3, <1>4

-----------------------------------------------------------------------------
(* The places and what is owed.                                            *)

LEMMA Finite ==
    ASSUME NEW S, S \subseteq Labels
    PROVE  /\ IsFiniteSet(S) /\ Cardinality(S) \in Nat
           /\ \A l \in Labels :
                /\ l \notin S => Cardinality(S \cup {l}) = Cardinality(S) + 1
                /\ l \in S => Cardinality(S \ {l}) = Cardinality(S) - 1
<1>1. IsFiniteSet(Viewers)
  BY SessionAssumption, FS_Interval DEF Viewers
<1>2. IsFiniteSet(Labels)
  <2>1. Labels = Viewers \cup {Main}
    BY DEF Labels
  <2> QED BY <1>1, <2>1, FS_AddElement
<1>3. IsFiniteSet(S)
  BY <1>2, FS_Subset
<1>4. Cardinality(S) \in Nat
  BY <1>3, FS_CardinalityType
<1> QED BY <1>3, <1>4, FS_AddElement, FS_RemoveElement

LEMMA CountedSame ==
    ASSUME Counted, owed' = owed, \A a \in Archives : Waiting(a)' = Waiting(a)
    PROVE  Counted'
BY DEF Counted

\* An archive is put into the place of a window.
LEMMA CountedMore ==
    ASSUME Counted, NEW l \in Labels, NEW p \in Archives,
           owed' = [owed EXCEPT ![p] = @ + 1],
           l \notin Waiting(p), Waiting(p)' = Waiting(p) \cup {l},
           \A a \in Archives : a # p => Waiting(a)' = Waiting(a)
    PROVE  Counted'
<1>1. \A a \in Archives : Waiting(a) \subseteq Labels
  BY DEF Waiting
<1>2. Cardinality(Waiting(p)') = Cardinality(Waiting(p)) + 1
  BY <1>1, Finite
<1>3. owed \in [Archives -> Nat] /\ \A a \in Archives : owed[a] = Cardinality(Waiting(a))
  BY DEF Counted
<1>4. owed' \in [Archives -> Nat]
  BY <1>3
<1>5. \A a \in Archives : owed'[a] = Cardinality(Waiting(a)')
  BY <1>2, <1>3
<1> QED BY <1>4, <1>5 DEF Counted

\* It is taken from there, or the window is closed.
LEMMA CountedLess ==
    ASSUME Counted, NEW l \in Labels, NEW p \in Archives,
           owed' = [owed EXCEPT ![p] = @ - 1],
           l \in Waiting(p), Waiting(p)' = Waiting(p) \ {l},
           \A a \in Archives : a # p => Waiting(a)' = Waiting(a)
    PROVE  Counted'
<1>1. \A a \in Archives : Waiting(a) \subseteq Labels
  BY DEF Waiting
<1>2. Waiting(p) \ {l} \subseteq Labels
  BY <1>1
<1>3. Cardinality(Waiting(p)') = Cardinality(Waiting(p)) - 1 /\ Cardinality(Waiting(p)') \in Nat
  BY <1>1, <1>2, Finite
<1>4. owed \in [Archives -> Nat] /\ \A a \in Archives : owed[a] = Cardinality(Waiting(a))
  BY DEF Counted
<1>5. owed[p] - 1 \in Nat
  BY <1>3, <1>4
<1>6. owed' \in [Archives -> Nat]
  BY <1>4, <1>5
<1>7. \A a \in Archives : owed'[a] = Cardinality(Waiting(a)')
  BY <1>3, <1>4
<1> QED BY <1>6, <1>7 DEF Counted

\* A step that changes neither a place nor the stage of a window changes
\* nothing of what depends on them.
LEMMA SamePlaces ==
    ASSUME WindowsOK, OnTheWay, Counted, LeftOnce, Announced,
           \A l \in Labels : win'[l].st = win[l].st,
           UNCHANGED <<next, pending, opened, places>>
    PROVE  /\ OnTheWay' /\ Counted' /\ LeftOnce' /\ Announced'
           /\ Apart => Apart'
           /\ Clean' /\ lapses \subseteq lapses' => Clean
           /\ \A l \in Labels : (Alive(l) <=> Alive(l)') /\ Place(l)' = Place(l)
<1>0. pending' = pending /\ opened' = opened /\ startup' = startup /\ signals' = signals
      /\ reqs' = reqs /\ owed' = owed
  BY DEF places
<1>1. \A l \in Labels : (Alive(l) <=> Alive(l)') /\ Place(l)' = Place(l) /\ Claim(l)' = Claim(l)
  BY <1>0 DEF Alive, Place, Claim
<1>2. OnTheWay'
  BY <1>0, Names DEF OnTheWay
<1>3. \A a \in Archives : Waiting(a)' = Waiting(a)
  BY <1>1 DEF Waiting
<1>4. Counted'
  BY <1>0, <1>3, CountedSame
<1>5. LeftOnce'
  BY <1>0 DEF LeftOnce
<1>6. Announced'
  BY <1>0, <1>1, Names DEF Announced
<1>7. Apart => Apart'
  BY <1>0, <1>1 DEF Apart
<1>8. Clean' /\ lapses \subseteq lapses' => Clean
  BY <1>1, Names DEF Clean
<1> QED BY <1>1, <1>2, <1>4, <1>5, <1>6, <1>7, <1>8

\* A window is changed in one place, which keeps its stage.
LEMMA SameStage ==
    ASSUME WindowsOK, NEW l \in Labels, NEW w \in Windows, w.st = win[l].st,
           win' = [win EXCEPT ![l] = w], next' = next
    PROVE  /\ WindowsOK' /\ \A k \in Labels : win'[k].st = win[k].st
           /\ \A k \in Labels : k # l => win'[k] = win[k]
           /\ win'[l] = w
BY Names DEF WindowsOK

\* open_archive as the other steps see it: the window is up, the call is for the
\* archive and so is the record.
Opening(l, a, w) ==
    /\ w \in Windows /\ w.st = "live" /\ w.ask = win[l].ask
    /\ w.call # Nothing => w.call.arc = a
    /\ win' = [win EXCEPT ![l] = w]
    /\ opened' = [opened EXCEPT ![l] = a]
    /\ pw' \in Locked \cup {Nothing}

LEMMA OpenArchiveOpens ==
    ASSUME WindowsOK, PlacesOK, NEW l \in Labels, NEW a \in Archives, NEW given,
           OpenArchive(l, a, given)
    PROVE  \E w : Opening(l, a, w)
<1>1. PICK res \in {"ok", "ask", "fail"} :
        /\ win' = [win EXCEPT ![l].call = [arc |-> a, res |-> res], ![l].st = "live"]
        /\ pw' = IF res = "ok" /\ a \in Locked THEN a ELSE IF pw = a THEN pw ELSE Nothing
  BY DEF OpenArchive
<1>2. PICK w : w = [win[l] EXCEPT !.call = [arc |-> a, res |-> res], !.st = "live"]
  OBVIOUS
<1>3. win[l] \in Windows /\ win \in [Labels -> Windows]
  BY DEF WindowsOK
<1>4. w \in Windows /\ w.st = "live" /\ w.ask = win[l].ask /\ w.call.arc = a
  BY <1>2, <1>3, WindowParts DEF Windows, Calls, Stages
<1>5. win' = [win EXCEPT ![l] = w]
  BY <1>1, <1>2, <1>3
<1>6. pw' \in Locked \cup {Nothing}
  BY <1>1 DEF PlacesOK
<1>7. opened' = [opened EXCEPT ![l] = a]
  BY DEF OpenArchive
<1> QED BY <1>4, <1>5, <1>6, <1>7 DEF Opening

-----------------------------------------------------------------------------
(* Steps that leave the places alone: the answer of open_archive, and what *)
(* happens to the items.                                                   *)

LEMMA SameItems ==
    ASSUME ItemsOK, Fresh, UNCHANGED <<items, ver>>,
           acts' \in 0..MaxActs, lapses' \subseteq {"overlap", "moved"}
    PROVE  ItemsOK' /\ Fresh'
BY DEF ItemsOK, Fresh, items

LEMMA Acted ==
    ASSUME ItemsOK, Act
    PROVE  acts' \in 0..MaxActs
BY SessionAssumption DEF ItemsOK, Act

\* The questions that are new are not for a whole archive, or are for that of
\* the window's call.
AskKept(k) ==
    \/ win'[k].ask = win[k].ask /\ win'[k].call = win[k].call
    \/ win'[k].ask = Nothing /\ win'[k].call = win[k].call
    \/ win'[k].ask # Nothing /\ win'[k].ask.mode = "entry" /\ win'[k].call = win[k].call
    \/ /\ win'[k].call = Nothing
       /\ win'[k].ask \in {win[k].ask, Nothing} \/ (win[k].call # Nothing /\ win'[k].ask.arc = win[k].call.arc)

LEMMA StepInPlace ==
    ASSUME IInv, WindowsOK', ItemsOK', Fresh', pw' \in Locked \cup {Nothing},
           UNCHANGED <<next, pending, opened, places>>, lapses \subseteq lapses',
           \A k \in Labels : win'[k].st = win[k].st /\ AskKept(k)
    PROVE  IInv'
<1>1. /\ OnTheWay' /\ Counted' /\ LeftOnce' /\ Announced'
      /\ Apart => Apart'
      /\ Clean' => Clean
      /\ \A l \in Labels : (Alive(l) <=> Alive(l)') /\ Place(l)' = Place(l)
  BY SamePlaces DEF IInv
<1>2. PlacesOK'
  BY DEF IInv, PlacesOK, places
<1>3. ASSUME OwnArchive
      PROVE  OwnArchive'
  <2> SUFFICES ASSUME NEW l \in Labels
               PROVE  /\ win'[l].call # Nothing => win'[l].call.arc = opened[l]
                      /\ win'[l].ask # Nothing /\ win'[l].ask.mode = "open" => win'[l].ask.arc = opened[l]
                      /\ Alive(l)' /\ Place(l)' # Nothing => opened[l] = Nothing
    BY DEF OwnArchive
  <2>1. /\ win[l].call # Nothing => win[l].call.arc = opened[l]
        /\ win[l].ask # Nothing /\ win[l].ask.mode = "open" => win[l].ask.arc = opened[l]
        /\ Alive(l) /\ Place(l) # Nothing => opened[l] = Nothing
    BY <1>3 DEF OwnArchive
  <2>2. AskKept(l)
    OBVIOUS
  <2> QED BY <1>1, <2>1, <2>2 DEF AskKept
<1>4. Clean' => OwnArchive' /\ Apart'
  BY <1>1, <1>3 DEF IInv
<1> QED BY <1>1, <1>2, <1>4 DEF IInv

LEMMA AnswerKeeps ==
    ASSUME IInv, NEW l \in Labels, Answer(l)
    PROVE  IInv'
<1>1. WindowsOK /\ ItemsOK /\ PlacesOK
  BY DEF IInv
<1>2. win[l] \in Windows /\ win[l].call # Nothing
  BY <1>1 DEF WindowsOK, Answer
<1>3. PICK c : c = win[l].call
  OBVIOUS
<1>4. c \in [arc : Archives, res : {"ok", "ask", "fail"}]
  BY <1>2, <1>3, WindowParts
<1>5. PICK a : a = CASE c.res = "ok" -> Nothing
                     [] c.res = "ask" -> [arc |-> c.arc, mode |-> "open"]
                     [] OTHER -> win[l].ask
  OBVIOUS
<1>6. a \in Asks /\ (a \in {win[l].ask, Nothing} \/ a.arc = c.arc)
  BY <1>2, <1>4, <1>5, WindowParts DEF Asks
<1>7. PICK w : w = [win[l] EXCEPT !.call = Nothing, !.ask = a,
                       !.shown = IF c.res = "ok" THEN c.arc ELSE @]
  OBVIOUS
<1>8. w.shown = (IF c.res = "ok" THEN c.arc ELSE win[l].shown) /\ w.st = win[l].st
      /\ w.call = Nothing /\ w.ask = a
  BY <1>2, <1>7, WindowParts
<1>9. w \in Windows
  <2>1. w.shown \in Maybe /\ w.call \in Calls
    BY <1>2, <1>4, <1>8, WindowParts, Names DEF Calls
  <2> QED BY <1>2, <1>6, <1>7, <1>8, <2>1, WindowParts DEF Windows
<1>10. win' = [win EXCEPT ![l] = w] /\ next' = next
  BY <1>1, <1>2, <1>3, <1>5, <1>7 DEF Answer, WindowsOK
<1>11. /\ WindowsOK' /\ \A k \in Labels : win'[k].st = win[k].st
       /\ \A k \in Labels : k # l => win'[k] = win[k]
       /\ win'[l] = w
  BY <1>1, <1>8, <1>9, <1>10, SameStage
<1>12. \A k \in Labels : AskKept(k)
  BY <1>2, <1>3, <1>6, <1>8, <1>11 DEF AskKept
<1>13. ItemsOK' /\ Fresh'
  BY SameItems DEF IInv, Answer, ItemsOK
<1>14. pw' \in Locked \cup {Nothing} /\ lapses' = lapses /\ UNCHANGED <<next, pending, opened, places>>
  BY <1>1 DEF Answer, PlacesOK
<1> QED BY <1>11, <1>12, <1>13, <1>14, StepInPlace

\* A question for a password comes or goes.
LEMMA AskChanged ==
    ASSUME WindowsOK, NEW l \in Labels, NEW a \in Asks, next' = next,
           win' = [win EXCEPT ![l].ask = a],
           a = Nothing \/ a.mode = "entry"
    PROVE  WindowsOK' /\ \A k \in Labels : win'[k].st = win[k].st /\ AskKept(k)
<1>1. win[l] \in Windows /\ win \in [Labels -> Windows]
  BY DEF WindowsOK
<1>2. PICK w : w = [win[l] EXCEPT !.ask = a]
  OBVIOUS
<1>3. w \in Windows /\ w.st = win[l].st /\ w.call = win[l].call /\ w.ask = a
  BY <1>1, <1>2, WindowParts DEF Windows
<1>4. win' = [win EXCEPT ![l] = w]
  BY <1>1, <1>2
<1>5. /\ WindowsOK' /\ \A k \in Labels : win'[k].st = win[k].st
      /\ \A k \in Labels : k # l => win'[k] = win[k]
      /\ win'[l] = w
  BY <1>3, <1>4, SameStage
<1>6. \A k \in Labels : AskKept(k)
  BY <1>3, <1>5 DEF AskKept
<1> QED BY <1>5, <1>6

LEMMA NothingAsked ==
    ASSUME WindowsOK, win' = win, next' = next
    PROVE  WindowsOK' /\ \A k \in Labels : win'[k].st = win[k].st /\ AskKept(k)
BY DEF WindowsOK, AskKept

LEMMA ShownAsks ==
    ASSUME WindowsOK, NEW l \in Labels, NEW op, Shown(l, op), next' = next
    PROVE  WindowsOK' /\ \A k \in Labels : win'[k].st = win[k].st /\ AskKept(k)
<1>1. CASE win' = win
  BY <1>1, NothingAsked
<1>2. CASE win' = [win EXCEPT ![l].ask = Nothing]
  <2>1. Nothing \in Asks
    BY DEF Asks
  <2> QED BY <1>2, <2>1, AskChanged
<1> QED BY <1>1, <1>2 DEF Shown

\* An item that is an archive is still to be opened; it is no item any more.
LEMMA NestedType ==
    ASSUME NEW t \in Tasks
    PROVE  /\ Nested(t) \subseteq Tasks
           /\ \A n \in Nested(t) :
                n.arc = t.arc /\ n.ver = t.ver /\ n.due = t.due /\ ItemOf[n.arc] \in Archives
<1>1. CASE Nested(t) = {}
  BY <1>1
<1>2. CASE Nested(t) = {[t EXCEPT !.op = "nested"]} /\ ItemOf[t.arc] \in Archives
  <2>1. PICK n : n = [t EXCEPT !.op = "nested"]
    OBVIOUS
  <2>2. "nested" \in Ops
    BY DEF Ops
  <2>3. n \in Tasks /\ n.arc = t.arc /\ n.ver = t.ver /\ n.due = t.due
    BY <2>1, <2>2, TaskParts DEF Tasks
  <2> QED BY <1>2, <2>1, <2>3
<1> QED BY <1>1, <1>2 DEF Nested

\* What is there already is whole, and what is to be read is due as it is now.
LEMMA UseItemKeeps ==
    ASSUME IInv, NEW l \in Labels, NEW op \in {"open", "drag"}, NEW typed \in BOOLEAN,
           UseItem(l, op, typed), Act,
           UNCHANGED <<next, pending, opened, places, pw, ver, lapses>>
    PROVE  IInv'
<1>1. WindowsOK /\ PlacesOK /\ ItemsOK /\ Fresh
  BY DEF IInv
<1>2. PICK arc : arc = win[l].shown
  OBVIOUS
<1>3. win[l] \in Windows /\ arc \in Archives
  BY <1>1, <1>2, WindowParts, Names DEF UseItem, WindowsOK
<1>4. PICK t : t = Task(l, op, typed)
  OBVIOUS
<1>5. t \in Tasks /\ t.arc = arc /\ t.ver = Absent /\ t.due = ver[arc] /\ t.op # "nested"
  <2>1. op \in Ops /\ Absent \in Written /\ ver[arc] \in Versions
    BY <1>1, <1>3, Numbers DEF Ops, ItemsOK
  <2>2. (typed \/ pw = arc) \in BOOLEAN
    OBVIOUS
  <2> QED BY <1>2, <1>3, <1>4, <2>1, <2>2 DEF Task, Tasks
<1>6. /\ Nested(t) \subseteq Tasks
      /\ \A n \in Nested(t) :
           n.arc = arc /\ n.ver = Absent /\ n.due = ver[arc] /\ ItemOf[n.arc] \in Archives
  BY <1>5, NestedType
<1>7. cache[arc] \in Written /\ ver[arc] \in Nat
  BY <1>1, <1>3, Numbers DEF ItemsOK
<1>8. \/ UNCHANGED <<cache, tasks, spoiled, win>>
      \/ tasks' = tasks \cup {t} /\ UNCHANGED <<cache, spoiled, win>>
      \/ /\ HandOut(cache[arc], 0) /\ Shown(l, op) /\ cache[arc] # Absent
         /\ tasks' = tasks \cup Nested(t) /\ UNCHANGED cache
  BY <1>2, <1>4 DEF UseItem, items
<1>9. spoiled' = FALSE
  <2>1. spoiled = FALSE
    BY <1>1 DEF Fresh
  <2>2. CASE spoiled' = spoiled
    BY <2>1, <2>2
  <2>3. CASE HandOut(cache[arc], 0) /\ cache[arc] # Absent
    <3>1. cache[arc] \in Versions /\ cache[arc] \in Nat
      BY <1>7, <2>3, Numbers
    <3>2. ~(cache[arc] < 0)
      BY <3>1
    <3> QED BY <2>1, <2>3, <3>2 DEF HandOut
  <2> QED BY <1>8, <2>2, <2>3
<1>10. /\ cache' = cache /\ tasks' \subseteq tasks \cup {t} \cup Nested(t)
       /\ win' = win \/ Shown(l, op)
  BY <1>8
<1>11. \A n \in tasks' : n \in Tasks /\ n.due <= ver[n.arc] /\ (n.ver # Absent => n.due <= n.ver)
  <2>1. SUFFICES ASSUME NEW n \in tasks'
                 PROVE  n \in Tasks /\ n.due <= ver[n.arc] /\ (n.ver # Absent => n.due <= n.ver)
    OBVIOUS
  <2>2. CASE n \in tasks
    BY <1>1, <2>2 DEF Fresh, ItemsOK
  <2>3. CASE n \in {t} \cup Nested(t)
    <3>1. n \in Tasks /\ n.arc = arc /\ n.ver = Absent /\ n.due = ver[arc]
      BY <1>5, <1>6, <2>3
    <3> QED BY <1>7, <3>1
  <2> QED BY <1>10, <2>2, <2>3
<1>12. ItemsOK'
  <2>1. \A n \in tasks' : n.op = "nested" => ItemOf[n.arc] \in Archives
    BY <1>1, <1>5, <1>6, <1>10 DEF ItemsOK
  <2> QED BY <1>1, <1>10, <1>11, <2>1, Acted DEF ItemsOK
<1>13. Fresh'
  BY <1>9, <1>11 DEF Fresh
<1>14. WindowsOK' /\ \A k \in Labels : win'[k].st = win[k].st /\ AskKept(k)
  BY <1>1, <1>10, NothingAsked, ShownAsks
<1>15. pw' \in Locked \cup {Nothing} /\ lapses' = lapses
  BY <1>1 DEF PlacesOK
<1> QED BY <1>12, <1>13, <1>14, <1>15, StepInPlace

LEMMA ItemUsed ==
    ASSUME IInv, NEW l \in Labels, OpenEntry(l) \/ Drag(l) \/ SubmitEntryPassword(l)
    PROVE  IInv'
<1>1. CASE OpenEntry(l)
  BY <1>1, UseItemKeeps DEF OpenEntry
<1>2. CASE Drag(l)
  BY <1>2, UseItemKeeps DEF Drag
<1>3. CASE SubmitEntryPassword(l)
  BY <1>3, UseItemKeeps DEF SubmitEntryPassword
<1> QED BY <1>1, <1>2, <1>3

\* The archive is read: no edit has made it older than it was.
LEMMA UnpackKeeps ==
    ASSUME IInv, NEW t \in tasks, Unpack(t)
    PROVE  IInv'
<1>1. WindowsOK /\ PlacesOK /\ ItemsOK /\ Fresh
  BY DEF IInv
<1>2. t \in Tasks /\ t.due <= ver[t.arc] /\ ver[t.arc] \in Versions
  BY <1>1, TaskParts DEF ItemsOK, Fresh
<1>3. PICK n : n = [t EXCEPT !.ver = ver[t.arc]]
  OBVIOUS
<1>4. n.arc = t.arc /\ n.due = t.due /\ n.ver = ver[t.arc] /\ n \in Tasks /\ n.op # "nested"
  BY <1>2, <1>3, TaskParts, Numbers DEF Tasks, Unpack
<1>5. tasks' = (tasks \ {t}) \cup {n}
      /\ UNCHANGED <<windows, places, pw, cache, spoiled, ver, acts, lapses>>
  BY <1>3 DEF Unpack
<1>6. ItemsOK'
  BY <1>1, <1>4, <1>5 DEF ItemsOK
<1>7. Fresh'
  BY <1>1, <1>2, <1>4, <1>5 DEF Fresh
<1>8. WindowsOK' /\ \A k \in Labels : win'[k].st = win[k].st /\ AskKept(k)
  BY <1>1, <1>5, NothingAsked DEF windows
<1>9. pw' \in Locked \cup {Nothing} /\ lapses' = lapses /\ UNCHANGED <<next, pending, opened, places>>
  BY <1>1, <1>5 DEF PlacesOK, windows
<1> QED BY <1>6, <1>7, <1>8, <1>9, StepInPlace

LEMMA UnpackedKeeps ==
    ASSUME IInv, NEW t \in tasks, Unpacked(t)
    PROVE  IInv'
<1>1. WindowsOK /\ PlacesOK /\ ItemsOK /\ Fresh
  BY DEF IInv
<1>2. t \in Tasks /\ t.due <= ver[t.arc] /\ t.ver # Absent /\ t.due <= t.ver
  BY <1>1 DEF ItemsOK, Fresh, Unpacked
<1>3. t.win \in Labels /\ t.arc \in Archives /\ t.ver \in Written /\ t.due \in Int /\ t.ver \in Int
  BY <1>2, TaskParts, Numbers
<1>4. /\ tasks' = (tasks \ {t}) \cup Nested(t)
      /\ cache' = [cache EXCEPT ![t.arc] = t.ver]
      /\ HandOut(t.ver, t.due) /\ Shown(t.win, t.op)
      /\ UNCHANGED <<next, pending, opened, places, ver, acts, lapses>>
  BY DEF Unpacked
<1>5. /\ Nested(t) \subseteq Tasks
      /\ \A n \in Nested(t) :
           n.arc = t.arc /\ n.ver = t.ver /\ n.due = t.due /\ ItemOf[n.arc] \in Archives
  BY <1>2, NestedType
<1>6. ItemsOK'
  BY <1>1, <1>3, <1>4, <1>5 DEF ItemsOK
<1>7. spoiled' = FALSE
  <2>1. ~(t.ver < t.due)
    BY <1>2, <1>3
  <2> QED BY <1>1, <1>4, <2>1 DEF HandOut, Fresh
<1>8. Fresh'
  BY <1>1, <1>2, <1>4, <1>5, <1>7 DEF Fresh
<1>9. WindowsOK' /\ \A k \in Labels : win'[k].st = win[k].st /\ AskKept(k)
  BY <1>1, <1>3, <1>4, ShownAsks
<1>10. pw' \in Locked \cup {Nothing}
  <2>1. pw \in Locked \cup {Nothing}
    BY <1>1 DEF PlacesOK
  <2>2. pw' = IF t.op = "open" /\ t.arc \in Locked THEN t.arc ELSE pw
    BY DEF Unpacked
  <2> QED BY <2>1, <2>2
<1> QED BY <1>4, <1>6, <1>8, <1>9, <1>10, StepInPlace

LEMMA UnpackFailsKeeps ==
    ASSUME IInv, NEW t \in tasks, UnpackFails(t)
    PROVE  IInv'
<1>1. WindowsOK /\ PlacesOK /\ ItemsOK /\ Fresh
  BY DEF IInv
<1>2. t \in Tasks
  BY <1>1 DEF ItemsOK
<1>3. t.win \in Labels /\ t.arc \in Archives
  BY <1>2, TaskParts
<1>4. /\ tasks' = tasks \ {t}
      /\ UNCHANGED <<next, pending, opened, places, pw, cache, spoiled, ver, acts, lapses>>
      /\ win' = win \/ win' = [win EXCEPT ![t.win].ask = [arc |-> t.arc, mode |-> "entry"]]
  BY DEF UnpackFails
<1>5. ItemsOK' /\ Fresh'
  BY <1>1, <1>4 DEF ItemsOK, Fresh
<1>6. PICK a : a = [arc |-> t.arc, mode |-> "entry"]
  OBVIOUS
<1>7. a \in Asks /\ a.mode = "entry"
  BY <1>3, <1>6 DEF Asks
<1>8. WindowsOK' /\ \A k \in Labels : win'[k].st = win[k].st /\ AskKept(k)
  <2>1. CASE win' = win
    BY <1>1, <1>4, <2>1, NothingAsked
  <2>2. CASE win' = [win EXCEPT ![t.win].ask = a]
    BY <1>1, <1>3, <1>4, <1>7, <2>2, AskChanged
  <2> QED BY <1>4, <1>6, <2>1, <2>2
<1>9. pw' \in Locked \cup {Nothing}
  BY <1>1, <1>4 DEF PlacesOK
<1> QED BY <1>4, <1>5, <1>8, <1>9, StepInPlace

LEMMA EditKeeps ==
    ASSUME IInv, NEW a \in Disk, Edit(a)
    PROVE  IInv'
<1>1. WindowsOK /\ PlacesOK /\ ItemsOK /\ Fresh
  BY DEF IInv
<1>2. a \in Archives /\ ver[a] < MaxEdits /\ ver' = [ver EXCEPT ![a] = @ + 1]
      /\ UNCHANGED <<windows, places, pw, items, acts, lapses>>
  BY Names DEF Edit
<1>3. \A x \in Archives : ver[x] \in Nat
  BY <1>1, Numbers DEF ItemsOK
<1>4. ver[a] + 1 \in Versions
  BY <1>2, <1>3, SessionAssumption, Numbers
<1>5. ver' \in [Archives -> Versions]
  BY <1>1, <1>2, <1>4 DEF ItemsOK
<1>6. ItemsOK'
  BY <1>1, <1>2, <1>5 DEF ItemsOK, items
<1>7. \A x \in Archives : ver'[x] \in Nat /\ ver[x] <= ver'[x]
  BY <1>2, <1>3, <1>5, Numbers
<1>8. Fresh'
  <2>1. spoiled' = FALSE /\ tasks' = tasks
    BY <1>1, <1>2 DEF Fresh, items
  <2>2. \A t \in tasks : t.due <= ver'[t.arc] /\ (t.ver # Absent => t.due <= t.ver)
    <3> SUFFICES ASSUME NEW t \in tasks
                 PROVE  t.due <= ver'[t.arc] /\ (t.ver # Absent => t.due <= t.ver)
      OBVIOUS
    <3>1. t \in Tasks /\ t.due <= ver[t.arc] /\ (t.ver # Absent => t.due <= t.ver)
      BY <1>1 DEF Fresh, ItemsOK
    <3>2. t.arc \in Archives /\ t.due \in Nat
      BY <3>1, TaskParts, Numbers
    <3> QED BY <1>3, <1>7, <3>1, <3>2
  <2> QED BY <2>1, <2>2 DEF Fresh
<1>9. WindowsOK' /\ \A k \in Labels : win'[k].st = win[k].st /\ AskKept(k)
  BY <1>1, <1>2, NothingAsked DEF windows
<1>10. pw' \in Locked \cup {Nothing} /\ lapses' = lapses /\ UNCHANGED <<next, pending, opened, places>>
  BY <1>1, <1>2 DEF PlacesOK, windows
<1> QED BY <1>6, <1>8, <1>9, <1>10, StepInPlace

-----------------------------------------------------------------------------
(* Steps of the windows.                                                   *)

\* A window that lives stays alive when it opens an archive, and no other changes.
LEMMA OpeningWindows ==
    ASSUME WindowsOK, PlacesOK, NEW l \in Labels, NEW a \in Archives, NEW w, Opening(l, a, w),
           Alive(l), next' = next
    PROVE  /\ WindowsOK' /\ opened' \in [Labels -> Maybe]
           /\ \A k \in Labels : (Alive(k)' <=> Alive(k)) /\ (k # l => win'[k] = win[k] /\ opened'[k] = opened[k])
           /\ win'[l] = w /\ opened'[l] = a
<1>1. /\ w \in Windows /\ w.st = "live" /\ win' = [win EXCEPT ![l] = w]
      /\ opened' = [opened EXCEPT ![l] = a]
  BY DEF Opening
<1>2. win \in [Labels -> Windows] /\ opened \in [Labels -> Maybe] /\ a \in Maybe
  BY Names DEF WindowsOK, PlacesOK
<1>3. win' \in [Labels -> Windows] /\ win'[l] = w /\ \A k \in Labels : k # l => win'[k] = win[k]
  BY <1>1, <1>2
<1>4. opened' \in [Labels -> Maybe] /\ opened'[l] = a /\ \A k \in Labels : k # l => opened'[k] = opened[k]
  BY <1>1, <1>2
<1>5. \A k \in Labels : Alive(k)' <=> Alive(k)
  BY <1>1, <1>3 DEF Alive
<1>6. \A k \in Viewers : (k > next <=> win'[k].st = "none") /\ win'[k].st # "listening"
  BY <1>1, <1>3, Names DEF WindowsOK, Alive
<1>7. WindowsOK'
  BY <1>3, <1>6 DEF WindowsOK
<1> QED BY <1>3, <1>4, <1>5, <1>7

\* Nothing new is claimed by a window that lives.
LEMMA ApartSame ==
    ASSUME Apart, reqs \subseteq Requests, reqs' = reqs,
           \A l \in Labels :
             Alive(l)' => Alive(l) /\ Claim(l)' = Claim(l) /\ Place(l)' \in {Place(l), Nothing},
           \/ opened'[Main] = opened[Main]
           \/ \A r \in reqs : r.first = TRUE => r.st = "signal"
    PROVE  Apart'
<1>1. \A r \in reqs : r.todo[1] \in Disk /\ r.todo[1] # Nothing
  BY RequestParts, TodoParts, Names
<1>2. \A k, l \in Labels :
        k # l /\ Alive(k)' /\ Alive(l)' /\ Claim(k)' = Claim(l)' => Claim(k)' \notin Disk
  BY DEF Apart
<1>3. \A r, q \in reqs' : r = q
  BY DEF Apart
<1>4. \A r \in reqs :
        /\ r.first = TRUE /\ r.st # "signal" => opened'[Main] = Nothing
        /\ Len(r.todo) = 2 => r.todo[1] # r.todo[2]
  BY DEF Apart
<1>5. \A r \in reqs, l \in Labels :
        Alive(l)' =>
            /\ Len(r.todo) = 2 => Claim(l)' # r.todo[2]
            /\ r.st = "look" => Place(l)' # r.todo[1]
            /\ r.st = "serve" /\ Claim(l)' = r.todo[1] => l = r.found
  BY <1>1 DEF Apart
<1> QED BY <1>2, <1>3, <1>4, <1>5 DEF Apart

\* A window that is only further on than it was.
LEMMA StageUp ==
    ASSUME IInv, NEW l \in Labels, Alive(l), NEW s \in {"listening", "live"},
           l # Main => s = "live" /\ Place(l) = Nothing,
           win' = [win EXCEPT ![l].st = s],
           UNCHANGED <<next, pending, opened, startup, reqs, owed, pw, items, ver, acts, lapses>>,
           signals' \in 0..1, LeftOnce', Announced'
    PROVE  IInv'
<1>1. WindowsOK /\ PlacesOK /\ ItemsOK /\ Fresh /\ OnTheWay /\ Counted
  BY DEF IInv
<1>2. win \in [Labels -> Windows] /\ win[l] \in Windows
  BY <1>1 DEF WindowsOK
<1>3. PICK w : w = [win[l] EXCEPT !.st = s]
  OBVIOUS
<1>4. w \in Windows /\ w.st = s /\ w.call = win[l].call /\ w.ask = win[l].ask
  BY <1>2, <1>3, WindowParts DEF Windows, Stages
<1>5. win' \in [Labels -> Windows] /\ win'[l] = w /\ \A k \in Labels : k # l => win'[k] = win[k]
  BY <1>2, <1>3, <1>4
<1>6. \A k \in Labels : (Alive(k)' <=> Alive(k)) /\ Place(k)' = Place(k) /\ Claim(k)' = Claim(k)
  BY <1>4, <1>5 DEF Alive, Place, Claim
<1>7. WindowsOK'
  BY <1>1, <1>4, <1>5, Names DEF WindowsOK, Alive
<1>8. PlacesOK' /\ ItemsOK' /\ Fresh'
  BY <1>1 DEF PlacesOK, ItemsOK, Fresh, items
<1>9. OnTheWay'
  BY <1>1, <1>4, <1>5, Names DEF OnTheWay, Place
<1>10. \A a \in Archives : Waiting(a)' = Waiting(a)
  BY <1>6 DEF Waiting
<1>11. Counted'
  BY <1>1, <1>10, CountedSame
<1>12. Clean' => OwnArchive' /\ Apart'
  <2> SUFFICES ASSUME Clean'
               PROVE  OwnArchive' /\ Apart'
    OBVIOUS
  <2>1. OwnArchive /\ Apart
    BY <1>6, Names DEF Clean, IInv
  <2>2. Apart'
    BY <1>1, <1>6, <2>1, ApartSame DEF PlacesOK
  <2>3. OwnArchive'
    BY <1>4, <1>5, <1>6, <2>1 DEF OwnArchive
  <2> QED BY <2>2, <2>3
<1> QED BY <1>7, <1>8, <1>9, <1>11, <1>12 DEF IInv

\* A window takes what lies in its place: it claims what it claimed before.
LEMMA TakeKeeps ==
    ASSUME IInv, NEW l \in Labels, Alive(l), NEW p \in Archives, Place(l) = p,
           NEW w, Opening(l, p, w),
           Place(l)' = Nothing, \A k \in Labels : k # l => Place(k)' = Place(k),
           owed' = [owed EXCEPT ![p] = @ - 1],
           pending' \in [Viewers -> Maybe], startup' \in Maybe, signals' \in 0..1,
           UNCHANGED <<next, reqs, items, ver, acts, lapses>>,
           LeftOnce', Announced'
    PROVE  IInv'
<1>1. WindowsOK /\ PlacesOK /\ ItemsOK /\ Fresh /\ OnTheWay /\ Counted
  BY DEF IInv
<1>2. /\ WindowsOK' /\ opened' \in [Labels -> Maybe]
      /\ \A k \in Labels : (Alive(k)' <=> Alive(k)) /\ (k # l => win'[k] = win[k] /\ opened'[k] = opened[k])
      /\ win'[l] = w /\ opened'[l] = p
  BY <1>1, OpeningWindows
<1>3. w.st = "live" /\ w.ask = win[l].ask /\ (w.call # Nothing => w.call.arc = p)
      /\ pw' \in Locked \cup {Nothing}
  BY DEF Opening
<1>4. p # Nothing
  BY Names
<1>5. PlacesOK' /\ ItemsOK' /\ Fresh'
  BY <1>1, <1>2, <1>3 DEF PlacesOK, ItemsOK, Fresh, items
<1>6. OnTheWay'
  <2> SUFFICES ASSUME NEW k \in Viewers
               PROVE  /\ win'[k].st \in {"none", "live"} => pending'[k] = Nothing
                      /\ win'[k].st # "live" => opened'[k] = Nothing
    BY DEF OnTheWay
  <2>1. k # Main /\ k \in Labels /\ Place(k) = pending[k] /\ Place(k)' = pending'[k]
    BY Names DEF Place
  <2>2. CASE k = l
    BY <1>2, <1>3, <2>1, <2>2
  <2>3. CASE k # l
    BY <1>1, <1>2, <2>1, <2>3 DEF OnTheWay
  <2> QED BY <2>2, <2>3
<1>7. Counted'
  <2>1. l \in Waiting(p) /\ Waiting(p)' = Waiting(p) \ {l}
    BY <1>2, <1>4 DEF Waiting
  <2>2. \A a \in Archives : a # p => Waiting(a)' = Waiting(a)
    BY <1>2, Names DEF Waiting
  <2> QED BY <1>1, <2>1, <2>2, CountedLess
<1>8. Clean' => OwnArchive' /\ Apart'
  <2> SUFFICES ASSUME Clean'
               PROVE  OwnArchive' /\ Apart'
    OBVIOUS
  <2>1. OwnArchive /\ Apart
    BY <1>2, Names DEF Clean, IInv
  <2>2. opened[l] = Nothing
    BY <1>4, <2>1 DEF OwnArchive
  <2>3. \A k \in Labels : Claim(k)' = Claim(k) /\ Place(k)' \in {Place(k), Nothing}
    BY <1>2, <1>4 DEF Claim
  <2>4. \/ opened'[Main] = opened[Main]
        \/ \A r \in reqs : r.first = TRUE => r.st = "signal"
    <3>1. CASE l = Main
      BY <1>4, <3>1 DEF Place, IInv, LeftOnce
    <3>2. CASE l # Main
      BY <1>2, <3>2, Names
    <3> QED BY <3>1, <3>2
  <2>5. Apart'
    BY <1>1, <1>2, <2>1, <2>3, <2>4, ApartSame DEF PlacesOK
  <2>6. win[l] \in Windows
    BY <1>1 DEF WindowsOK
  <2>7. ~(win[l].ask # Nothing /\ win[l].ask.mode = "open")
    BY <2>1, <2>2, <2>6, WindowParts, Names DEF OwnArchive
  <2>8. OwnArchive'
    <3> SUFFICES ASSUME NEW k \in Labels
                 PROVE  /\ win'[k].call # Nothing => win'[k].call.arc = opened'[k]
                        /\ win'[k].ask # Nothing /\ win'[k].ask.mode = "open" => win'[k].ask.arc = opened'[k]
                        /\ Alive(k)' /\ Place(k)' # Nothing => opened'[k] = Nothing
      BY DEF OwnArchive
    <3>1. CASE k = l
      BY <1>2, <1>3, <2>7, <3>1
    <3>2. CASE k # l
      BY <1>2, <2>1, <3>2 DEF OwnArchive
    <3> QED BY <3>1, <3>2
  <2> QED BY <2>5, <2>8
<1> QED BY <1>2, <1>5, <1>6, <1>7, <1>8 DEF IInv

LEMMA ListenKeeps ==
    ASSUME IInv, Listen
    PROVE  IInv'
<1>1. /\ Main \in Labels /\ win[Main].st = "loading" /\ Alive(Main)
      /\ win' = [win EXCEPT ![Main].st = "listening"]
      /\ UNCHANGED <<next, pending, opened, startup, reqs, owed, pw, items, ver, acts, lapses>>
      /\ signals' = signals
  BY Names DEF Listen, Alive, places
<1>2. signals' \in 0..1 /\ LeftOnce'
  BY <1>1 DEF IInv, PlacesOK, LeftOnce
<1>3. win'[Main].st = "listening"
  <2>1. win[Main] \in Windows /\ win \in [Labels -> Windows]
    BY <1>1 DEF IInv, WindowsOK
  <2> QED BY <1>1, <2>1, WindowParts DEF Windows
<1>4. Announced'
  BY <1>3 DEF Announced
<1> QED BY <1>1, <1>2, <1>4, StageUp

\* The main window looks into its place, when it comes up or at the signal.
LEMMA DrainKeeps ==
    ASSUME IInv, DrainStartupOpen, win[Main].st \in {"listening", "live"},
           signals' \in 0..1, signals' = signals \/ signals > 0
    PROVE  IInv'
<1>1. Main \in Labels /\ Alive(Main) /\ PlacesOK /\ WindowsOK
  BY Names DEF Alive, IInv
<1>2. startup' = Nothing /\ UNCHANGED <<next, pending, reqs, items, ver, acts, lapses>>
  BY DEF DrainStartupOpen
<1>3. LeftOnce'
  <2>1. signals' = signals \/ signals # 0
    BY <1>1 DEF PlacesOK
  <2>2. signals # 0 => \A r \in reqs : ~(r.first = TRUE)
    BY DEF IInv, LeftOnce
  <2> QED BY <1>2, <2>1, <2>2 DEF IInv, LeftOnce
<1>4. Announced'
  BY <1>2 DEF Announced
<1>5. CASE startup = Nothing
  <2>1. win' = [win EXCEPT ![Main].st = "live"] /\ UNCHANGED <<opened, pw, owed, startup>>
    BY <1>2, <1>5 DEF DrainStartupOpen
  <2> QED BY <1>1, <1>2, <1>3, <1>4, <2>1, StageUp
<1>6. CASE startup # Nothing
  <2>1. OpenArchive(Main, startup, FALSE) /\ owed' = [owed EXCEPT ![startup] = @ - 1]
    BY <1>6 DEF DrainStartupOpen
  <2>2. startup \in Archives
    BY <1>1, <1>6, Names DEF PlacesOK
  <2>3. PICK w : Opening(Main, startup, w)
    BY <1>1, <2>1, <2>2, OpenArchiveOpens
  <2>4. Place(Main) = startup /\ Place(Main)' = Nothing /\ \A k \in Labels : k # Main => Place(k)' = Place(k)
    BY <1>2 DEF Place
  <2>5. pending' \in [Viewers -> Maybe] /\ startup' \in Maybe
    BY <1>1, <1>2, Names DEF PlacesOK
  <2> QED BY <1>1, <1>2, <1>3, <1>4, <2>1, <2>2, <2>3, <2>4, <2>5, TakeKeeps
<1> QED BY <1>5, <1>6

LEMMA DrainAtMountKeeps ==
    ASSUME IInv, DrainAtMount
    PROVE  IInv'
BY DrainKeeps DEF DrainAtMount, IInv, PlacesOK

\* Nobody hears the signal only if the main window has still to look, or is gone.
LEMMA OnSignalKeeps ==
    ASSUME IInv, OnSignal
    PROVE  IInv'
<1>1. signals \in 0..1 /\ signals > 0 /\ signals' = signals - 1
  BY DEF OnSignal, IInv, PlacesOK
<1>2. signals' \in 0..1
  BY <1>1
<1>3. CASE win[Main].st \in {"listening", "live"}
  BY <1>1, <1>2, <1>3, DrainKeeps DEF OnSignal
<1>4. CASE win[Main].st \notin {"listening", "live"}
  <2>1. UNCHANGED <<win, next, pending, opened, startup, reqs, owed, pw, items, ver, acts, lapses>>
    BY <1>4 DEF OnSignal, windows
  <2>2. WindowsOK' /\ PlacesOK' /\ ItemsOK' /\ Fresh' /\ OnTheWay'
    BY <1>2, <2>1 DEF IInv, WindowsOK, PlacesOK, ItemsOK, Fresh, OnTheWay, items
  <2>3. \A k \in Labels : (Alive(k)' <=> Alive(k)) /\ Place(k)' = Place(k) /\ Claim(k)' = Claim(k)
    BY <2>1 DEF Alive, Place, Claim
  <2>4. Counted'
    <3>1. \A a \in Archives : Waiting(a)' = Waiting(a)
      BY <2>3 DEF Waiting
    <3> QED BY <2>1, <3>1, CountedSame DEF IInv
  <2>5. \A r \in reqs : ~(r.first = TRUE)
    <3>1. signals # 0
      BY <1>1
    <3> QED BY <3>1 DEF IInv, LeftOnce
  <2>6. LeftOnce'
    BY <2>1, <2>5 DEF IInv, LeftOnce
  <2>7. Announced'
    BY <1>4, <2>1 DEF Announced, Alive
  <2>8. Clean' => OwnArchive' /\ Apart'
    <3>1. Clean' => OwnArchive /\ Apart
      BY <2>1, <2>3, Names DEF Clean, IInv
    <3>2. OwnArchive => OwnArchive'
      BY <2>1, <2>3 DEF OwnArchive
    <3>3. Apart => Apart'
      BY <2>1, <2>3 DEF Apart
    <3> QED BY <3>1, <3>2, <3>3
  <2> QED BY <2>2, <2>4, <2>6, <2>7, <2>8 DEF IInv
<1> QED BY <1>3, <1>4

LEMMA MountViewerKeeps ==
    ASSUME IInv, NEW l \in Viewers, MountViewer(l)
    PROVE  IInv'
<1>1. l \in Labels /\ l # Main /\ Alive(l) /\ PlacesOK /\ WindowsOK /\ win[l].st = "loading"
  BY Names DEF Alive, IInv, MountViewer
<1>2. /\ pending' = [pending EXCEPT ![l] = Nothing]
      /\ UNCHANGED <<next, startup, signals, reqs, items, ver, acts, lapses>>
  BY DEF MountViewer
<1>3. /\ signals' \in 0..1 /\ LeftOnce'
  BY <1>2 DEF IInv, PlacesOK, LeftOnce
<1>4. pending \in [Viewers -> Maybe]
  BY <1>1 DEF PlacesOK
<1>5. /\ pending' \in [Viewers -> Maybe] /\ startup' \in Maybe
      /\ Place(l) = pending[l] /\ Place(l)' = Nothing
      /\ \A k \in Labels : k # l => Place(k)' = Place(k)
  BY <1>1, <1>2, <1>4, Names DEF Place, PlacesOK
<1>6. win'[Main] = win[Main] => Announced'
  BY <1>2 DEF IInv, Announced, Alive
<1>7. CASE pending[l] = Nothing
  <2>1. win' = [win EXCEPT ![l].st = "live"] /\ UNCHANGED <<opened, pw, owed>>
    BY <1>7 DEF MountViewer
  <2>2. win'[Main] = win[Main]
    BY <1>1, <2>1, Names DEF WindowsOK
  <2>3. pending' = pending
    BY <1>2, <1>4, <1>7
  <2> QED BY <1>1, <1>2, <1>3, <1>5, <1>6, <1>7, <2>1, <2>2, <2>3, StageUp
<1>8. CASE pending[l] # Nothing
  <2>1. OpenArchive(l, pending[l], FALSE) /\ owed' = [owed EXCEPT ![pending[l]] = @ - 1]
    BY <1>8 DEF MountViewer
  <2>2. pending[l] \in Archives
    BY <1>4, <1>8, Names
  <2>3. PICK w : Opening(l, pending[l], w)
    BY <1>1, <2>1, <2>2, OpenArchiveOpens
  <2>4. win'[Main] = win[Main]
    BY <1>1, <1>2, <2>2, <2>3, Names, OpeningWindows
  <2> QED BY <1>1, <1>2, <1>3, <1>5, <1>6, <2>1, <2>2, <2>3, <2>4, TakeKeeps
<1> QED BY <1>7, <1>8

\* A window that is up opens an archive of its own accord: another one only with
\* a lapse.
LEMMA OpenAgain ==
    ASSUME IInv, NEW l \in Labels, win[l].st = "live", NEW a \in Archives,
           OpenArchive(l, a, TRUE) \/ OpenArchive(l, a, FALSE),
           Clean' => Clean /\ opened[l] = a,
           UNCHANGED <<next, pending, places, items, ver>>, Act,
           lapses' \subseteq {"overlap", "moved"}
    PROVE  IInv'
<1>1. WindowsOK /\ PlacesOK /\ ItemsOK /\ Fresh /\ Counted /\ Alive(l)
  BY DEF IInv, Alive
<1>2. PICK w : Opening(l, a, w)
  BY <1>1, OpenArchiveOpens
<1>3. /\ WindowsOK' /\ opened' \in [Labels -> Maybe]
      /\ \A k \in Labels : (Alive(k)' <=> Alive(k)) /\ (k # l => win'[k] = win[k] /\ opened'[k] = opened[k])
      /\ win'[l] = w /\ opened'[l] = a
  BY <1>1, <1>2, OpeningWindows
<1>4. w.st = "live" /\ w.ask = win[l].ask /\ (w.call # Nothing => w.call.arc = a)
      /\ pw' \in Locked \cup {Nothing}
  BY <1>2 DEF Opening
<1>5. UNCHANGED <<next, pending, startup, signals, reqs, owed>>
  BY DEF places
<1>6. PlacesOK' /\ ItemsOK' /\ Fresh'
  BY <1>1, <1>3, <1>4, <1>5, Acted, SameItems DEF PlacesOK
<1>7. OnTheWay'
  BY <1>3, <1>4, <1>5, Names DEF IInv, OnTheWay
<1>8. \A k \in Labels : win'[k].st = win[k].st /\ Place(k)' = Place(k)
  BY <1>3, <1>4, <1>5 DEF Place
<1>9. Counted'
  <2>1. \A x \in Archives : Waiting(x)' = Waiting(x)
    BY <1>3, <1>8 DEF Waiting
  <2> QED BY <1>1, <1>5, <2>1, CountedSame
<1>10. LeftOnce' /\ Announced'
  BY <1>3, <1>5, <1>8, Names DEF IInv, LeftOnce, Announced
<1>11. Clean' => OwnArchive' /\ Apart'
  <2> SUFFICES ASSUME Clean'
               PROVE  OwnArchive' /\ Apart'
    OBVIOUS
  <2>1. OwnArchive /\ Apart /\ opened[l] = a
    BY DEF IInv
  <2>2. \A k \in Labels : opened'[k] = opened[k]
    BY <1>3, <2>1
  <2>3. \A k \in Labels : Claim(k)' = Claim(k)
    BY <1>8, <2>2 DEF Claim
  <2>4. Apart'
    BY <1>1, <1>3, <1>5, <1>8, <2>1, <2>2, <2>3, Names, ApartSame DEF PlacesOK
  <2>5. OwnArchive'
    <3> SUFFICES ASSUME NEW k \in Labels
                 PROVE  /\ win'[k].call # Nothing => win'[k].call.arc = opened'[k]
                        /\ win'[k].ask # Nothing /\ win'[k].ask.mode = "open" => win'[k].ask.arc = opened'[k]
                        /\ Alive(k)' /\ Place(k)' # Nothing => opened'[k] = Nothing
      BY DEF OwnArchive
    <3>1. CASE k = l
      BY <1>3, <1>4, <1>8, <2>1, <2>2, <3>1 DEF OwnArchive
    <3>2. CASE k # l
      BY <1>3, <1>8, <2>1, <2>2, <3>2 DEF OwnArchive
    <3> QED BY <3>1, <3>2
  <2> QED BY <2>4, <2>5
<1> QED BY <1>3, <1>6, <1>7, <1>9, <1>10, <1>11 DEF IInv

LEMMA OpenDroppedKeeps ==
    ASSUME IInv, NEW l \in Labels, NEW a \in Archives, OpenDropped(l, a)
    PROVE  IInv'
<1>1. "moved" \in lapses' /\ lapses' \subseteq {"overlap", "moved"}
  BY DEF OpenDropped, Lapse, IInv, ItemsOK
<1>2. ~Clean'
  BY <1>1 DEF Clean
<1> QED BY <1>1, <1>2, OpenAgain DEF OpenDropped

LEMMA SubmitPasswordKeeps ==
    ASSUME IInv, NEW l \in Labels, SubmitPassword(l)
    PROVE  IInv'
<1>1. /\ win[l].st = "live" /\ win[l].ask # Nothing /\ win[l].ask.mode = "open"
      /\ OpenArchive(l, win[l].ask.arc, TRUE) /\ Act
      /\ UNCHANGED <<next, pending, places, items, ver, lapses>>
  BY DEF SubmitPassword
<1>2. win[l] \in Windows /\ WindowsOK /\ PlacesOK /\ ItemsOK
  BY DEF IInv, WindowsOK
<1>3. win[l].ask.arc \in Archives
  BY <1>1, <1>2, WindowParts
<1>4. PICK w : Opening(l, win[l].ask.arc, w)
  BY <1>1, <1>2, <1>3, OpenArchiveOpens
<1>5. Clean' => Clean
  <2>1. Alive(l)
    BY <1>1 DEF Alive
  <2>2. Alive(Main)' => Alive(Main)
    BY <1>1, <1>2, <1>3, <1>4, <2>1, OpeningWindows, Names
  <2> QED BY <1>1, <2>2 DEF Clean
<1>6. Clean' => Clean /\ opened[l] = win[l].ask.arc
  BY <1>1, <1>5 DEF IInv, OwnArchive
<1>7. lapses' \subseteq {"overlap", "moved"}
  BY <1>1, <1>2 DEF ItemsOK
<1> QED BY <1>1, <1>3, <1>6, <1>7, OpenAgain

\* What lay in the place of a window that is closed is owed no more.
LEMMA CloseKeeps ==
    ASSUME IInv, NEW l \in Labels, Close(l)
    PROVE  IInv'
<1>1. WindowsOK /\ PlacesOK /\ ItemsOK /\ Fresh /\ Counted /\ OnTheWay /\ Alive(l)
  BY DEF IInv, Close
<1>2. PICK w : w = [NoWindow EXCEPT !.st = "gone"]
  OBVIOUS
<1>3. w \in Windows /\ w.st = "gone" /\ w.call = Nothing /\ w.ask = Nothing
  BY <1>2, Names DEF NoWindow, Windows, Stages, Calls, Asks
<1>4. /\ win' = [win EXCEPT ![l] = w]
      /\ opened' = IF l = Main THEN opened ELSE [opened EXCEPT ![l] = Nothing]
      /\ UNCHANGED <<next, pending, startup, signals, reqs, pw, items, ver, lapses>> /\ Act
  BY <1>2 DEF Close
<1>5. /\ win' \in [Labels -> Windows] /\ win'[l] = w
      /\ \A k \in Labels : k # l => win'[k] = win[k]
  BY <1>1, <1>3, <1>4 DEF WindowsOK
<1>6. /\ opened' \in [Labels -> Maybe] /\ (l # Main => opened'[l] = Nothing)
      /\ opened'[Main] = opened[Main]
      /\ \A k \in Labels : k # l => opened'[k] = opened[k]
  BY <1>1, <1>4, Names DEF PlacesOK
<1>7. /\ ~Alive(l)'
      /\ \A k \in Labels : k # l => (Alive(k)' <=> Alive(k))
      /\ \A k \in Labels : Place(k)' = Place(k)
  BY <1>3, <1>4, <1>5 DEF Alive, Place
<1>8. WindowsOK'
  BY <1>1, <1>3, <1>4, <1>5, Names DEF WindowsOK, Alive
<1>9. PlacesOK' /\ ItemsOK' /\ Fresh'
  BY <1>1, <1>4, <1>6, Acted, SameItems DEF PlacesOK, ItemsOK
<1>10. OnTheWay'
  BY <1>1, <1>3, <1>4, <1>5, <1>6, Names DEF OnTheWay
<1>11. Counted'
  <2>1. PICK p : p = IF l = Main THEN startup ELSE pending[l]
    OBVIOUS
  <2>2. Place(l) = p /\ p \in Maybe
    BY <1>1, <2>1, Names DEF Place, PlacesOK
  <2>3. CASE p = Nothing
    <3>1. owed' = owed
      BY <2>1, <2>3 DEF Close
    <3>2. \A a \in Archives : Waiting(a)' = Waiting(a)
      BY <1>7, <2>2, <2>3, Names DEF Waiting
    <3> QED BY <1>1, <3>1, <3>2, CountedSame
  <2>4. CASE p # Nothing
    <3>1. owed' = [owed EXCEPT ![p] = @ - 1]
      BY <2>1, <2>4 DEF Close
    <3>2. l \in Waiting(p) /\ Waiting(p)' = Waiting(p) \ {l}
      BY <1>1, <1>7, <2>2 DEF Waiting
    <3>3. \A a \in Archives : a # p => Waiting(a)' = Waiting(a)
      BY <1>7, <2>2 DEF Waiting
    <3>4. p \in Archives
      BY <2>2, <2>4, Names
    <3> QED BY <1>1, <3>1, <3>2, <3>3, <3>4, CountedLess
  <2> QED BY <2>3, <2>4
<1>12. LeftOnce'
  BY <1>4 DEF IInv, LeftOnce
<1>13. Announced'
  <2>1. CASE l = Main
    BY <1>7, <2>1 DEF Announced
  <2>2. CASE l # Main
    BY <1>4, <1>5, <1>7, <2>2, Names DEF IInv, Announced
  <2> QED BY <2>1, <2>2
<1>14. Clean' => OwnArchive' /\ Apart'
  <2> SUFFICES ASSUME Clean'
               PROVE  OwnArchive' /\ Apart'
    OBVIOUS
  <2>1. OwnArchive /\ Apart
    BY <1>4, <1>7, Names DEF Clean, IInv
  <2>2. \A k \in Labels : k # l => Claim(k)' = Claim(k)
    BY <1>6, <1>7 DEF Claim
  <2>3. Apart'
    BY <1>1, <1>4, <1>6, <1>7, <2>1, <2>2, ApartSame DEF PlacesOK
  <2>4. OwnArchive'
    BY <1>3, <1>5, <1>6, <1>7, <2>1 DEF OwnArchive
  <2> QED BY <2>3, <2>4
<1> QED BY <1>8, <1>9, <1>10, <1>11, <1>12, <1>13, <1>14 DEF IInv

-----------------------------------------------------------------------------
(* Requests of the shell.                                                  *)

\* What stays as it is when no window changes.
LEMMA SameWindows ==
    ASSUME WindowsOK, OnTheWay, UNCHANGED windows
    PROVE  /\ WindowsOK' /\ OnTheWay' /\ opened' = opened /\ pending' = pending /\ win' = win
           /\ \A l \in Labels : Alive(l)' <=> Alive(l)
           /\ \A l \in Viewers : Place(l)' = Place(l)
           /\ startup' = startup => \A l \in Labels : Place(l)' = Place(l) /\ Claim(l)' = Claim(l)
           /\ OwnArchive /\ startup' = startup => OwnArchive'
           /\ Counted /\ startup' = startup /\ owed' = owed => Counted'
<1>1. win' = win /\ next' = next /\ pending' = pending /\ opened' = opened
  BY DEF windows
<1>2. WindowsOK' /\ OnTheWay' /\ \A l \in Labels : Alive(l)' <=> Alive(l)
  BY <1>1 DEF WindowsOK, OnTheWay, Alive
<1>3. \A l \in Viewers : Place(l)' = Place(l)
  BY <1>1, Names DEF Place
<1>4. startup' = startup => \A l \in Labels : Place(l)' = Place(l) /\ Claim(l)' = Claim(l)
  BY <1>1 DEF Place, Claim
<1>5. OwnArchive /\ startup' = startup => OwnArchive'
  BY <1>1, <1>2, <1>4 DEF OwnArchive
<1>6. startup' = startup => \A a \in Archives : Waiting(a)' = Waiting(a)
  BY <1>2, <1>4 DEF Waiting
<1>7. Counted /\ startup' = startup /\ owed' = owed => Counted'
  BY <1>6, CountedSame
<1> QED BY <1>1, <1>2, <1>3, <1>4, <1>5, <1>7

\* Only the first request of the start says so.
LEMMA LeftServed ==
    ASSUME PlacesOK, LeftOnce, NEW r \in reqs, reqs' = Served(r), startup' = startup,
           signals' = signals \/ r.first = TRUE
    PROVE  LeftOnce'
<1>1. \A q \in reqs' : \/ q \in reqs /\ q # r
                       \/ q.first = FALSE /\ q.st = "look"
  BY AfterServed DEF PlacesOK
<1>2. \A q \in reqs' : q.first = TRUE => q \in reqs /\ q # r /\ signals' = signals
  BY <1>1 DEF LeftOnce
<1>3. \A q \in reqs' : q.st = "signal" => q \in reqs
  BY <1>1
<1> QED BY <1>2, <1>3 DEF LeftOnce

\* The second path of the start is not claimed by the window of the first.
LEMMA ApartServed ==
    ASSUME PlacesOK, Apart, NEW r \in reqs, reqs' = Served(r),
           \A k, l \in Labels :
             k # l /\ Alive(k)' /\ Alive(l)' /\ Claim(k)' = Claim(l)' => Claim(k)' \notin Disk,
           \A l \in Labels : Alive(l)' /\ Len(r.todo) = 2 => Place(l)' # r.todo[2]
    PROVE  Apart'
<1>1. \A q \in reqs : q = r
  BY DEF Apart
<1>2. \A q \in reqs' : /\ Len(r.todo) = 2 /\ q.todo = <<r.todo[2]>> /\ q.first = FALSE
                       /\ q.st = "look" /\ q.found = Nothing
  BY <1>1, AfterServed DEF PlacesOK
<1>3. \A q \in reqs' : q \in Requests
  BY AfterServed DEF PlacesOK
<1>4. \A p, q \in reqs' : p = q
  <2> SUFFICES ASSUME NEW p \in reqs', NEW q \in reqs'
               PROVE  p = q
    OBVIOUS
  <2>1. p \in Requests /\ q \in Requests /\ p.todo = q.todo /\ p.first = q.first /\ p.st = q.st /\ p.found = q.found
    BY <1>2, <1>3
  <2> QED BY <2>1, RequestParts
<1>5. \A q \in reqs' : Len(q.todo) = 1 /\ q.todo[1] = r.todo[2]
  BY <1>2
<1>6. \A q \in reqs' :
        /\ q.first = TRUE /\ q.st # "signal" => opened'[Main] = Nothing
        /\ Len(q.todo) = 2 => q.todo[1] # q.todo[2]
        /\ \A l \in Labels :
            Alive(l)' =>
                /\ Len(q.todo) = 2 => Claim(l)' # q.todo[2]
                /\ q.st = "look" => Place(l)' # q.todo[1]
                /\ q.st = "serve" /\ Claim(l)' = q.todo[1] => l = q.found
  BY <1>2, <1>5
<1> QED BY <1>4, <1>6 DEF Apart

LEMMA ShellOpenKeeps ==
    ASSUME IInv, NEW a \in Disk, ShellOpen(a)
    PROVE  IInv'
<1>1. WindowsOK /\ PlacesOK /\ ItemsOK /\ Fresh /\ OnTheWay /\ Counted
  BY DEF IInv
<1>2. PICK q : q = Request(<<a>>, FALSE)
  OBVIOUS
<1>3. q \in Requests /\ q.todo = <<a>> /\ q.first = FALSE /\ q.st = "look" /\ q.found = Nothing
  BY <1>2, OneTodo, RequestType
<1>4. /\ reqs' = reqs \cup {q} /\ Act
      /\ UNCHANGED <<windows, startup, signals, owed, pw, items, ver>>
      /\ lapses' = lapses \cup IF reqs # {} \/ startup # Nothing \/ \E l \in Viewers : win[l].st = "loading"
                               THEN {"overlap"} ELSE {}
  BY <1>2 DEF ShellOpen, Lapse
<1>5. lapses' \subseteq {"overlap", "moved"} /\ lapses \subseteq lapses'
  BY <1>1, <1>4 DEF ItemsOK
<1>6. ItemsOK' /\ Fresh'
  BY <1>1, <1>4, <1>5, Acted, SameItems
<1>7. PlacesOK'
  BY <1>1, <1>3, <1>4 DEF PlacesOK, windows
<1>8. WindowsOK' /\ OnTheWay' /\ Counted'
  BY <1>1, <1>4, SameWindows
<1>9. LeftOnce'
  BY <1>3, <1>4 DEF IInv, LeftOnce
<1>10. Announced'
  BY <1>1, <1>4, SameWindows, Names DEF IInv, Announced
<1>11. Clean' => OwnArchive' /\ Apart'
  <2> SUFFICES ASSUME Clean'
               PROVE  OwnArchive' /\ Apart'
    OBVIOUS
  <2>1. Clean /\ reqs = {} /\ startup = Nothing /\ \A l \in Viewers : win[l].st # "loading"
    BY <1>1, <1>4, SameWindows, Names DEF Clean
  <2>2. OwnArchive /\ Apart
    BY <2>1 DEF IInv
  <2>3. OwnArchive'
    BY <1>1, <1>4, <2>2, SameWindows
  <2>4. \A l \in Labels : Alive(l) => Place(l) = Nothing
    <3>1. \A l \in Viewers : Alive(l) => win[l].st = "live"
      BY <1>1, <2>1 DEF Alive, WindowsOK
    <3> QED BY <1>1, <2>1, <3>1, Names DEF Place, OnTheWay
  <2>5. \A l \in Labels : Place(l)' = Place(l) /\ Claim(l)' = Claim(l) /\ (Alive(l)' <=> Alive(l))
    BY <1>1, <1>4, SameWindows
  <2>6. reqs' = {q}
    BY <1>4, <2>1
  <2>7. \A k, l \in Labels :
          k # l /\ Alive(k)' /\ Alive(l)' /\ Claim(k)' = Claim(l)' => Claim(k)' \notin Disk
    BY <2>2, <2>5 DEF Apart
  <2>8. Len(q.todo) = 1 /\ q.todo[1] = a /\ a # Nothing
    BY <1>3, Names
  <2>9. Apart'
    BY <1>3, <2>4, <2>5, <2>6, <2>7, <2>8 DEF Apart
  <2> QED BY <2>3, <2>9
<1> QED BY <1>6, <1>7, <1>8, <1>9, <1>10, <1>11 DEF IInv

\* The window that is found is the one that claims the archive.
LEMMA LookUpKeeps ==
    ASSUME IInv, NEW r \in reqs, LookUp(r)
    PROVE  IInv'
<1>1. WindowsOK /\ PlacesOK /\ ItemsOK /\ Fresh /\ OnTheWay /\ Counted /\ LeftOnce /\ Announced
  BY DEF IInv
<1>2. r \in Requests /\ r.st = "look" /\ r.todo \in Todos /\ Head(r.todo) = r.todo[1] /\ r.todo[1] \in Disk
  BY <1>1, RequestParts, TodoParts DEF PlacesOK, LookUp
<1>3. PICK f \in Labels \cup {Nothing} :
        /\ f = Nothing => \A l \in Labels : opened[l] # r.todo[1]
        /\ f # Nothing => f \in Labels /\ opened[f] = r.todo[1]
        /\ reqs' = (reqs \ {r}) \cup {[r EXCEPT !.st = "serve", !.found = f]}
  BY <1>2, Names DEF LookUp
<1>4. PICK q : q = [r EXCEPT !.st = "serve", !.found = f]
  OBVIOUS
<1>5. q.todo = r.todo /\ q.first = r.first /\ q.st = "serve" /\ q.found = f /\ q \in Requests
  BY <1>2, <1>3, <1>4, RequestParts DEF Requests, Steps, Finds
<1>6. /\ reqs' = (reqs \ {r}) \cup {q}
      /\ UNCHANGED <<windows, startup, signals, owed, pw, items, ver, acts, lapses>>
  BY <1>3, <1>4 DEF LookUp
<1>7. ItemsOK' /\ Fresh'
  BY <1>1, <1>6, SameItems DEF ItemsOK
<1>8. PlacesOK'
  BY <1>1, <1>5, <1>6 DEF PlacesOK, windows
<1>9. WindowsOK' /\ OnTheWay' /\ Counted'
  BY <1>1, <1>6, SameWindows
<1>10. LeftOnce'
  BY <1>1, <1>2, <1>5, <1>6 DEF LeftOnce
<1>11. Announced'
  BY <1>1, <1>2, <1>6, SameWindows, Names DEF Announced
<1>12. Clean' => OwnArchive' /\ Apart'
  <2> SUFFICES ASSUME Clean'
               PROVE  OwnArchive' /\ Apart'
    OBVIOUS
  <2>1. Clean /\ OwnArchive /\ Apart
    BY <1>1, <1>6, SameWindows, Names DEF Clean, IInv
  <2>2. OwnArchive'
    BY <1>1, <1>6, <2>1, SameWindows
  <2>3. \A l \in Labels : Place(l)' = Place(l) /\ Claim(l)' = Claim(l) /\ (Alive(l)' <=> Alive(l))
    BY <1>1, <1>6, SameWindows
  <2>4. reqs' = {q} /\ opened' = opened
    BY <1>1, <1>6, <2>1, SameWindows DEF Apart
  <2>5. r.todo[1] # Nothing
    BY <1>2, Names
  <2>6. \A l \in Labels : Alive(l) /\ Claim(l) = r.todo[1] => Place(l) = Nothing /\ opened[l] = r.todo[1]
    BY <1>2, <2>1 DEF Apart, Claim
  <2>7. f # Nothing => f \in Labels /\ Alive(f) /\ Claim(f) = r.todo[1]
    <3> SUFFICES ASSUME f # Nothing
                 PROVE  f \in Labels /\ Alive(f) /\ Claim(f) = r.todo[1]
      OBVIOUS
    <3>1. f \in Labels /\ opened[f] = r.todo[1]
      BY <1>3
    <3>2. Alive(f)
      BY <1>1, <2>1, <2>5, <3>1, Names DEF OnTheWay, Alive, Clean
    <3>3. Place(f) = Nothing
      BY <2>1, <2>5, <3>1, <3>2 DEF OwnArchive
    <3> QED BY <3>1, <3>2, <3>3 DEF Claim
  <2>8. \A l \in Labels : Alive(l) /\ Claim(l) = r.todo[1] => l = f
    <3> SUFFICES ASSUME NEW l \in Labels, Alive(l), Claim(l) = r.todo[1]
                 PROVE  l = f
      OBVIOUS
    <3>1. f # Nothing
      BY <1>3, <2>6
    <3> QED BY <1>2, <2>1, <2>7, <3>1 DEF Apart
  <2>9. \A k, l \in Labels :
          k # l /\ Alive(k)' /\ Alive(l)' /\ Claim(k)' = Claim(l)' => Claim(k)' \notin Disk
    BY <2>1, <2>3 DEF Apart
  <2>10. /\ q.first = TRUE => opened'[Main] = Nothing
         /\ Len(q.todo) = 2 => q.todo[1] # q.todo[2]
         /\ \A l \in Labels : Alive(l) /\ Len(q.todo) = 2 => Claim(l) # q.todo[2]
    BY <1>2, <1>5, <2>1, <2>4 DEF Apart
  <2>11. Apart'
    BY <1>5, <2>3, <2>4, <2>8, <2>9, <2>10 DEF Apart
  <2> QED BY <2>2, <2>11
<1> QED BY <1>7, <1>8, <1>9, <1>10, <1>11, <1>12 DEF IInv

\* A path is done with, and no window has changed.
LEMMA ServedKeeps ==
    ASSUME IInv, NEW r \in reqs, reqs' = Served(r),
           UNCHANGED <<windows, startup, owed, pw, items, ver, acts, lapses>>,
           \/ r.st # "signal" /\ signals' = signals
           \/ r.st = "signal" /\ signals' = signals + 1
    PROVE  IInv'
<1>1. WindowsOK /\ PlacesOK /\ ItemsOK /\ Fresh /\ OnTheWay /\ Counted /\ LeftOnce /\ Announced
  BY DEF IInv
<1>2. signals' \in 0..1 /\ (r.st = "signal" => signals' = 1 /\ r.first = TRUE)
  BY <1>1 DEF PlacesOK, LeftOnce
<1>3. ItemsOK' /\ Fresh'
  BY <1>1, SameItems DEF ItemsOK
<1>4. PlacesOK'
  BY <1>1, <1>2, AfterServed DEF PlacesOK, windows
<1>5. WindowsOK' /\ OnTheWay' /\ Counted'
  BY <1>1, SameWindows
<1>6. LeftOnce'
  BY <1>1, <1>2, LeftServed
<1>7. Announced'
  <2>1. CASE r.st = "signal"
    BY <1>2, <2>1 DEF Announced
  <2>2. CASE r.st # "signal"
    <3>1. \A q \in reqs : q.st = "signal" => q \in reqs'
      BY <1>1, <2>2, AfterServed DEF PlacesOK
    <3> QED BY <1>1, <2>2, <3>1, SameWindows, Names DEF Announced
  <2> QED BY <2>1, <2>2
<1>8. Clean' => OwnArchive' /\ Apart'
  <2> SUFFICES ASSUME Clean'
               PROVE  OwnArchive' /\ Apart'
    OBVIOUS
  <2>1. OwnArchive /\ Apart
    BY <1>1, SameWindows, Names DEF Clean, IInv
  <2>2. OwnArchive'
    BY <1>1, <2>1, SameWindows
  <2>3. \A l \in Labels : Place(l)' = Place(l) /\ Claim(l)' = Claim(l) /\ (Alive(l)' <=> Alive(l))
    BY <1>1, SameWindows
  <2>4. \A k, l \in Labels :
          k # l /\ Alive(k)' /\ Alive(l)' /\ Claim(k)' = Claim(l)' => Claim(k)' \notin Disk
    BY <2>1, <2>3 DEF Apart
  <2>5. r.todo \in Todos
    BY <1>1, RequestParts DEF PlacesOK
  <2>6. \A l \in Labels : Alive(l)' /\ Len(r.todo) = 2 => Place(l)' # r.todo[2]
    <3> SUFFICES ASSUME NEW l \in Labels, Alive(l), Len(r.todo) = 2
                 PROVE  Place(l) # r.todo[2]
      BY <2>3
    <3>1. r.todo[2] \in Disk
      BY <2>5, TodoParts
    <3> QED BY <2>1, <3>1, Names DEF Apart, Claim
  <2>7. Apart'
    BY <1>1, <2>1, <2>4, <2>6, ApartServed
  <2> QED BY <2>2, <2>7
<1> QED BY <1>3, <1>4, <1>5, <1>6, <1>7, <1>8 DEF IInv

LEMMA FocusKeeps ==
    ASSUME IInv, NEW r \in reqs, Focus(r) \/ Signal(r)
    PROVE  IInv'
BY ServedKeeps DEF Focus, Signal

\* The archive of the start is left for the main window, which claims nothing yet.
LEMMA LeaveForMainKeeps ==
    ASSUME IInv, NEW r \in reqs, LeaveForMain(r)
    PROVE  IInv'
<1>1. WindowsOK /\ PlacesOK /\ ItemsOK /\ Fresh /\ OnTheWay /\ Counted /\ LeftOnce /\ Announced
  BY DEF IInv
<1>2. PICK p : p = r.todo[1]
  OBVIOUS
<1>3. r \in Requests /\ r.todo \in Todos /\ Head(r.todo) = p /\ p \in Disk /\ p \in Archives /\ p # Nothing
  BY <1>1, <1>2, RequestParts, TodoParts, Names DEF PlacesOK
<1>4. r.st = "serve" /\ r.first = TRUE /\ Alive(Main) /\ ~Found(r)
  BY <1>3, RequestParts DEF LeaveForMain
<1>5. PICK q : q = [r EXCEPT !.st = "signal"]
  OBVIOUS
<1>6. q.todo = r.todo /\ q.first = TRUE /\ q.st = "signal" /\ q \in Requests
  BY <1>3, <1>4, <1>5, RequestParts DEF Requests, Steps
<1>7. /\ reqs' = (reqs \ {r}) \cup {q} /\ startup' = p /\ owed' = [owed EXCEPT ![p] = @ + 1]
      /\ UNCHANGED <<windows, signals, pw, items, ver, acts, lapses>>
  BY <1>3, <1>5 DEF LeaveForMain
<1>8. startup = Nothing /\ signals = 0 /\ \A x \in reqs : x # r => ~(x.first = TRUE)
  BY <1>1, <1>4 DEF LeftOnce
<1>9. ItemsOK' /\ Fresh'
  BY <1>1, <1>7, SameItems DEF ItemsOK
<1>10. PlacesOK'
  BY <1>1, <1>3, <1>6, <1>7, Names DEF PlacesOK, windows
<1>11. /\ WindowsOK' /\ OnTheWay' /\ opened' = opened /\ win' = win
       /\ \A l \in Labels : Alive(l)' <=> Alive(l)
       /\ \A l \in Viewers : Place(l)' = Place(l)
  BY <1>1, <1>7, SameWindows
<1>12. Place(Main) = Nothing /\ Place(Main)' = p
  BY <1>7, <1>8 DEF Place
<1>13. Counted'
  <2>1. Main \notin Waiting(p) /\ Waiting(p)' = Waiting(p) \cup {Main}
    BY <1>3, <1>4, <1>11, <1>12, Names DEF Waiting
  <2>2. \A x \in Archives : x # p => Waiting(x)' = Waiting(x)
    BY <1>3, <1>11, <1>12, Names DEF Waiting
  <2> QED BY <1>1, <1>3, <1>7, <2>1, <2>2, CountedMore, Names
<1>14. LeftOnce'
  BY <1>1, <1>6, <1>7, <1>8 DEF LeftOnce
<1>15. Announced'
  BY <1>6, <1>7 DEF Announced
<1>16. Clean' => OwnArchive' /\ Apart'
  <2> SUFFICES ASSUME Clean'
               PROVE  OwnArchive' /\ Apart'
    OBVIOUS
  <2>1. OwnArchive /\ Apart
    BY <1>7, <1>11, Names DEF Clean, IInv
  <2>2. opened[Main] = Nothing
    BY <1>4, <2>1 DEF Apart
  <2>3. OwnArchive'
    BY <1>11, <2>1, <2>2, Names DEF OwnArchive
  <2>4. /\ Claim(Main)' = p
        /\ \A l \in Labels : l # Main => Claim(l)' = Claim(l)
    BY <1>3, <1>11, <1>12, Names DEF Claim
  <2>5. \A l \in Labels : Alive(l) => Claim(l) # p
    BY <1>2, <1>4, <2>1, Names DEF Apart, Found
  <2>6. reqs' = {q}
    BY <1>7, <2>1 DEF Apart
  <2>7. \A k, l \in Labels :
          k # l /\ Alive(k)' /\ Alive(l)' /\ Claim(k)' = Claim(l)' => Claim(k)' \notin Disk
    BY <1>11, <2>1, <2>4, <2>5 DEF Apart
  <2>8. Len(q.todo) = 2 => q.todo[1] # q.todo[2] /\ \A l \in Labels : Alive(l)' => Claim(l)' # q.todo[2]
    BY <1>2, <1>6, <1>11, <2>1, <2>4 DEF Apart
  <2>9. Apart'
    BY <1>6, <2>6, <2>7, <2>8 DEF Apart
  <2> QED BY <2>3, <2>9
<1> QED BY <1>9, <1>10, <1>11, <1>13, <1>14, <1>15, <1>16 DEF IInv

\* A new window claims the archive it is made for, and nothing else changes.
NewClaim(n, a) ==
    /\ \A k \in Labels : k # n =>
        win'[k] = win[k] /\ (Alive(k)' <=> Alive(k)) /\ Place(k)' = Place(k) /\ Claim(k)' = Claim(k)
    /\ Alive(n)' => Place(n)' = a /\ Claim(n)' = a

LEMMA OpenViewerWindowKeeps ==
    ASSUME IInv, NEW a \in Archives, OpenViewerWindow(a), startup' = startup
    PROVE  /\ WindowsOK' /\ OnTheWay' /\ Counted'
           /\ pending' \in [Viewers -> Maybe] /\ opened' = opened /\ pw' = pw
           /\ OwnArchive => OwnArchive'
           /\ \E n \in Viewers : NewClaim(n, a)
<1>1. WindowsOK /\ PlacesOK /\ OnTheWay /\ Counted
  BY DEF IInv
<1>2. next < MaxViewers /\ next' = next + 1 /\ opened' = opened /\ pw' = pw
  BY DEF OpenViewerWindow
<1>3. PICK n : n = next + 1
  OBVIOUS
<1>4. n \in Viewers /\ n \in Labels /\ n # Main /\ n > next /\ next' \in 0..MaxViewers
  BY <1>1, <1>2, <1>3, SessionAssumption, Names DEF WindowsOK, Viewers
<1>5. win[n].st = "none" /\ opened[n] = Nothing /\ ~Alive(n) /\ pending[n] = Nothing
  BY <1>1, <1>4 DEF WindowsOK, OnTheWay, Alive
<1>6. PICK s \in {"loading", "gone"} :
        /\ win' = [win EXCEPT ![n].st = s]
        /\ s = "loading" => pending' = [pending EXCEPT ![n] = a] /\ owed' = [owed EXCEPT ![a] = @ + 1]
        /\ s = "gone" => pending' = pending /\ owed' = owed
  BY <1>2, <1>3 DEF OpenViewerWindow
<1>7. win \in [Labels -> Windows] /\ pending \in [Viewers -> Maybe] /\ a \in Maybe /\ win[n] \in Windows
  BY <1>1, <1>4, Names DEF WindowsOK, PlacesOK
<1>8. PICK w : w = [win[n] EXCEPT !.st = s]
  OBVIOUS
<1>9. w \in Windows /\ w.st = s /\ w.call = win[n].call /\ w.ask = win[n].ask
  BY <1>7, <1>8, WindowParts DEF Windows, Stages
<1>10. win' \in [Labels -> Windows] /\ win'[n] = w /\ \A k \in Labels : k # n => win'[k] = win[k]
  BY <1>4, <1>6, <1>7, <1>8, <1>9
<1>11. \A k \in Viewers : k > next' <=> k > next /\ k # n
  BY <1>1, <1>2, <1>3, SessionAssumption DEF Viewers, WindowsOK
<1>12. WindowsOK'
  <2>1. \A k \in Viewers : (k > next' <=> win'[k].st = "none") /\ win'[k].st # "listening"
    BY <1>1, <1>9, <1>10, <1>11, Names DEF WindowsOK
  <2> QED BY <1>4, <1>10, <2>1 DEF WindowsOK
<1>13. /\ pending' \in [Viewers -> Maybe] /\ \A k \in Viewers : k # n => pending'[k] = pending[k]
       /\ s = "loading" => pending'[n] = a
  BY <1>4, <1>6, <1>7
<1>14. OnTheWay'
  BY <1>1, <1>2, <1>5, <1>9, <1>10, <1>13, Names DEF OnTheWay
<1>15. NewClaim(n, a)
  <2>1. \A k \in Labels : k # n =>
          win'[k] = win[k] /\ (Alive(k)' <=> Alive(k)) /\ Place(k)' = Place(k) /\ Claim(k)' = Claim(k)
    BY <1>2, <1>10, <1>13, Names DEF Alive, Place, Claim
  <2>2. Alive(n)' => Place(n)' = a /\ Claim(n)' = a
    BY <1>4, <1>9, <1>10, <1>13, Names DEF Alive, Place, Claim
  <2> QED BY <2>1, <2>2 DEF NewClaim
<1>16. Counted'
  <2>1. CASE s = "loading"
    <3>1. Alive(n)' /\ n \notin Waiting(a) /\ Waiting(a)' = Waiting(a) \cup {n}
      BY <1>4, <1>5, <1>9, <1>10, <1>15, <2>1 DEF Waiting, NewClaim, Alive
    <3>2. \A x \in Archives : x # a => Waiting(x)' = Waiting(x)
      BY <1>5, <1>15, <3>1 DEF Waiting, NewClaim
    <3> QED BY <1>1, <1>4, <1>6, <2>1, <3>1, <3>2, CountedMore
  <2>2. CASE s = "gone"
    <3>1. ~Alive(n)'
      BY <1>9, <1>10, <2>2 DEF Alive
    <3>2. \A x \in Archives : Waiting(x)' = Waiting(x)
      BY <1>5, <1>15, <3>1 DEF Waiting, NewClaim
    <3> QED BY <1>1, <1>6, <2>2, <3>2, CountedSame
  <2> QED BY <2>1, <2>2
<1>17. OwnArchive => OwnArchive'
  <2> SUFFICES ASSUME OwnArchive, NEW k \in Labels
               PROVE  /\ win'[k].call # Nothing => win'[k].call.arc = opened'[k]
                      /\ win'[k].ask # Nothing /\ win'[k].ask.mode = "open" => win'[k].ask.arc = opened'[k]
                      /\ Alive(k)' /\ Place(k)' # Nothing => opened'[k] = Nothing
    BY DEF OwnArchive
  <2>1. CASE k = n
    BY <1>2, <1>5, <1>9, <1>10, <2>1 DEF OwnArchive
  <2>2. CASE k # n
    BY <1>2, <1>15, <2>2 DEF OwnArchive, NewClaim
  <2> QED BY <2>1, <2>2
<1> QED BY <1>2, <1>4, <1>12, <1>13, <1>14, <1>15, <1>16, <1>17

\* The archive of a request that is served by a new window has no window.
LEMMA NewWindowKeeps ==
    ASSUME IInv, NEW r \in reqs, NewWindow(r)
    PROVE  IInv'
<1>1. WindowsOK /\ PlacesOK /\ ItemsOK /\ Fresh /\ LeftOnce /\ Announced
  BY DEF IInv
<1>2. PICK p : p = r.todo[1]
  OBVIOUS
<1>3. r.todo \in Todos /\ Head(r.todo) = p /\ p \in Disk /\ p \in Archives
  BY <1>1, <1>2, RequestParts, TodoParts, Names DEF PlacesOK
<1>4. /\ r.st = "serve" /\ ~Found(r) /\ OpenViewerWindow(p) /\ reqs' = Served(r)
      /\ UNCHANGED <<startup, signals, items, acts>>
  BY <1>3 DEF NewWindow
<1>5. ver' = ver /\ lapses' = lapses
  BY <1>4 DEF OpenViewerWindow
<1>6. /\ WindowsOK' /\ OnTheWay' /\ Counted'
      /\ pending' \in [Viewers -> Maybe] /\ opened' = opened /\ pw' = pw
      /\ OwnArchive => OwnArchive'
  BY <1>3, <1>4, OpenViewerWindowKeeps
<1>7. PICK n \in Viewers : NewClaim(n, p)
  BY <1>3, <1>4, OpenViewerWindowKeeps
<1>8. win'[Main] = win[Main] /\ (Alive(Main)' <=> Alive(Main))
  BY <1>7, Names DEF NewClaim
<1>9. ItemsOK' /\ Fresh'
  BY <1>1, <1>4, <1>5, SameItems DEF ItemsOK
<1>10. PlacesOK'
  BY <1>1, <1>4, <1>6, AfterServed DEF PlacesOK
<1>11. LeftOnce'
  BY <1>1, <1>4, LeftServed
<1>12. Announced'
  <2>1. \A q \in reqs : q.st = "signal" => q \in reqs'
    BY <1>1, <1>4, AfterServed DEF PlacesOK
  <2> QED BY <1>1, <1>4, <1>8, <2>1 DEF Announced
<1>13. Clean' => OwnArchive' /\ Apart'
  <2> SUFFICES ASSUME Clean'
               PROVE  OwnArchive' /\ Apart'
    OBVIOUS
  <2>1. OwnArchive /\ Apart
    BY <1>5, <1>8 DEF Clean, IInv
  <2>2. \A l \in Labels : Alive(l) => Claim(l) # p
    BY <1>2, <1>4, <2>1, Names DEF Apart, Found
  <2>3. \A k, l \in Labels :
          k # l /\ Alive(k)' /\ Alive(l)' /\ Claim(k)' = Claim(l)' => Claim(k)' \notin Disk
    BY <1>7, <2>1, <2>2 DEF Apart, NewClaim
  <2>4. \A l \in Labels : Alive(l)' /\ Len(r.todo) = 2 => Place(l)' # r.todo[2]
    <3> SUFFICES ASSUME NEW l \in Labels, Alive(l)', Len(r.todo) = 2
                 PROVE  Place(l)' # r.todo[2]
      OBVIOUS
    <3>1. r.todo[2] \in Disk /\ r.todo[2] # Nothing /\ r.todo[2] # p
      BY <1>2, <1>3, <2>1, TodoParts, Names DEF Apart
    <3>2. CASE l = n
      BY <1>7, <3>1, <3>2 DEF NewClaim
    <3>3. CASE l # n
      BY <1>7, <2>1, <3>1, <3>3 DEF NewClaim, Apart, Claim
    <3> QED BY <3>2, <3>3
  <2>5. Apart'
    BY <1>1, <1>4, <2>1, <2>3, <2>4, ApartServed
  <2> QED BY <1>6, <2>1, <2>5
<1> QED BY <1>6, <1>9, <1>10, <1>11, <1>12, <1>13 DEF IInv

\* An archive within another is none of the disk.
LEMMA OpenArchiveWindowKeeps ==
    ASSUME IInv, NEW t \in tasks, OpenArchiveWindow(t)
    PROVE  IInv'
<1>1. WindowsOK /\ PlacesOK /\ ItemsOK /\ Fresh /\ LeftOnce /\ Announced
  BY DEF IInv
<1>2. t \in Tasks /\ t.arc \in Archives
  BY <1>1, TaskParts DEF ItemsOK
<1>3. PICK p : p = ItemOf[t.arc]
  OBVIOUS
<1>4. /\ tasks' = tasks \ {t} /\ UNCHANGED <<startup, signals, reqs, cache, spoiled, acts>>
      /\ OpenViewerWindow(p) \/ UNCHANGED <<windows, owed, pw, ver, lapses>>
      /\ p \in Archives /\ p \notin Disk
  BY <1>1, <1>2, <1>3, Names DEF OpenArchiveWindow, ItemsOK
<1>5. ver' = ver /\ lapses' = lapses
  BY <1>4 DEF OpenViewerWindow
<1>6. ItemsOK' /\ Fresh'
  BY <1>1, <1>4, <1>5 DEF ItemsOK, Fresh
<1>7. CASE UNCHANGED <<windows, owed, pw, ver, lapses>>
  <2>1. UNCHANGED <<next, pending, opened, places>> /\ win' = win
    BY <1>4, <1>7 DEF windows, places
  <2>2. WindowsOK' /\ \A k \in Labels : win'[k].st = win[k].st /\ AskKept(k)
    BY <1>1, <2>1, NothingAsked
  <2> QED BY <1>1, <1>6, <1>7, <2>1, <2>2, StepInPlace DEF PlacesOK
<1>8. CASE OpenViewerWindow(p)
  <2>1. /\ WindowsOK' /\ OnTheWay' /\ Counted'
        /\ pending' \in [Viewers -> Maybe] /\ opened' = opened /\ pw' = pw
        /\ OwnArchive => OwnArchive'
    BY <1>4, <1>8, OpenViewerWindowKeeps
  <2>2. PICK n \in Viewers : NewClaim(n, p)
    BY <1>4, <1>8, OpenViewerWindowKeeps
  <2>3. win'[Main] = win[Main] /\ (Alive(Main)' <=> Alive(Main))
    BY <2>2, Names DEF NewClaim
  <2>4. PlacesOK'
    BY <1>1, <1>4, <2>1 DEF PlacesOK
  <2>5. LeftOnce' /\ Announced'
    BY <1>1, <1>4, <2>3 DEF LeftOnce, Announced
  <2>6. Clean' => OwnArchive' /\ Apart'
    <3> SUFFICES ASSUME Clean'
                 PROVE  OwnArchive' /\ Apart'
      OBVIOUS
    <3>1. OwnArchive /\ Apart
      BY <1>5, <2>3 DEF Clean, IInv
    <3>2. \A k, l \in Labels :
            k # l /\ Alive(k)' /\ Alive(l)' /\ Claim(k)' = Claim(l)' => Claim(k)' \notin Disk
      BY <1>4, <2>2, <3>1 DEF Apart, NewClaim
    <3>3. \A r \in reqs : r.todo[1] \in Disk /\ (Len(r.todo) = 2 => r.todo[2] \in Disk)
      BY <1>1, RequestParts, TodoParts DEF PlacesOK
    <3>4. \A r \in reqs, l \in Labels :
            Alive(l)' =>
                /\ Len(r.todo) = 2 => Claim(l)' # r.todo[2]
                /\ r.st = "look" => Place(l)' # r.todo[1]
                /\ r.st = "serve" /\ Claim(l)' = r.todo[1] => l = r.found
      <4> SUFFICES ASSUME NEW r \in reqs, NEW l \in Labels, Alive(l)'
                   PROVE  /\ Len(r.todo) = 2 => Claim(l)' # r.todo[2]
                          /\ r.st = "look" => Place(l)' # r.todo[1]
                          /\ r.st = "serve" /\ Claim(l)' = r.todo[1] => l = r.found
        OBVIOUS
      <4>1. CASE l = n
        BY <1>4, <2>2, <3>3, <4>1 DEF NewClaim
      <4>2. CASE l # n
        BY <2>2, <3>1, <4>2 DEF NewClaim, Apart
      <4> QED BY <4>1, <4>2
    <3>5. /\ \A r, q \in reqs : r = q
          /\ \A r \in reqs :
              /\ r.first = TRUE /\ r.st # "signal" => opened'[Main] = Nothing
              /\ Len(r.todo) = 2 => r.todo[1] # r.todo[2]
      BY <2>1, <3>1 DEF Apart
    <3>6. Apart'
      BY <1>4, <3>2, <3>4, <3>5 DEF Apart
    <3> QED BY <2>1, <3>1, <3>6
  <2> QED BY <1>6, <2>1, <2>4, <2>5, <2>6 DEF IInv
<1> QED BY <1>4, <1>7, <1>8

-----------------------------------------------------------------------------
(* The theorems.                                                           *)

\* The program starts with nothing in any place, and at most one request.
LEMMA InitHolds == Init => IInv
<1> SUFFICES ASSUME Init
             PROVE  IInv
  OBVIOUS
<1>1. PICK w : w = [NoWindow EXCEPT !.st = "loading"]
  OBVIOUS
<1>2. w \in Windows /\ w.st = "loading" /\ w.call = Nothing /\ w.ask = Nothing
  BY <1>1, Names DEF NoWindow, Windows, Stages, Calls, Asks
<1>3. NoWindow \in Windows /\ NoWindow.st = "none" /\ NoWindow.call = Nothing /\ NoWindow.ask = Nothing
  BY Names DEF NoWindow, Windows, Stages, Calls, Asks
<1>4. /\ win = [l \in Labels |-> IF l = Main THEN w ELSE NoWindow]
      /\ next = 0 /\ pending = [l \in Viewers |-> Nothing] /\ opened = [l \in Labels |-> Nothing]
      /\ startup = Nothing /\ signals = 0 /\ pw = Nothing
      /\ cache = [a \in Archives |-> Absent] /\ tasks = {} /\ ver = [a \in Archives |-> 0]
      /\ spoiled = FALSE /\ owed = [a \in Archives |-> 0] /\ acts = 0 /\ lapses = {}
  BY <1>1 DEF Init
<1>5. WindowsOK
  <2>1. \A l \in Viewers : l > 0
    BY SessionAssumption DEF Viewers
  <2>2. 0 \in 0..MaxViewers
    BY SessionAssumption
  <2> QED BY <1>2, <1>3, <1>4, <2>1, <2>2, Names DEF WindowsOK
<1>6. ItemsOK /\ Fresh
  BY <1>4, SessionAssumption, Numbers DEF ItemsOK, Fresh
<1>7. OnTheWay
  BY <1>4 , Names DEF OnTheWay
<1>8. \A l \in Labels : Place(l) = Nothing /\ Claim(l) = Nothing
  BY <1>4, Names DEF Place, Claim
<1>9. Counted
  <2>1. \A a \in Archives : Waiting(a) = {}
    BY <1>8, Names DEF Waiting
  <2> QED BY <1>4, <2>1, FS_EmptySet DEF Counted
<1>10. Announced
  BY <1>4 DEF Announced
<1>11. OwnArchive
  BY <1>2, <1>3, <1>4, <1>8 DEF OwnArchive
<1>12. PICK paths \in Launches : reqs = IF paths = <<>> THEN {} ELSE {Request(paths, TRUE)}
  BY DEF Init
<1>13. CASE reqs = {}
  <2>1. PlacesOK /\ LeftOnce
    BY <1>4, <1>13, Names DEF PlacesOK, LeftOnce
  <2>2. Apart
    BY <1>8, <1>13, Names DEF Apart
  <2> QED BY <1>5, <1>6, <1>7, <1>9, <1>10, <1>11, <2>1, <2>2 DEF IInv
<1>14. CASE paths # <<>>
  <2>1. paths \in Todos /\ (Len(paths) = 2 => paths[1] # paths[2])
    <3>1. CASE paths \in {<<a>> : a \in Disk}
      BY <3>1 DEF Todos
    <3>2. CASE paths \in {d \in Disk \X Disk : d[1] # d[2]}
      BY <3>2 DEF Todos
    <3> QED BY <1>14, <3>1, <3>2 DEF Launches
  <2>2. PICK r : r = Request(paths, TRUE)
    OBVIOUS
  <2>3. r \in Requests /\ r.todo = paths /\ r.first = TRUE /\ r.st = "look" /\ r.found = Nothing
    BY <2>1, <2>2, RequestType
  <2>4. reqs = {r}
    BY <1>12, <1>14, <2>2
  <2>5. paths[1] \in Disk /\ (Len(paths) = 2 => paths[2] \in Disk)
    BY <2>1, TodoParts
  <2>6. PlacesOK /\ LeftOnce
    BY <1>4, <2>3, <2>4, Names DEF PlacesOK, LeftOnce
  <2>7. opened[Main] = Nothing
    BY <1>4, Names
  <2>8. Apart
    BY <1>8, <2>1, <2>3, <2>4, <2>5, <2>7, Names DEF Apart
  <2> QED BY <1>5, <1>6, <1>7, <1>9, <1>10, <1>11, <2>6, <2>8 DEF IInv
<1> QED BY <1>12, <1>13, <1>14

LEMMA NextKeeps == IInv /\ [Next]_vars => IInv'
<1> SUFFICES ASSUME IInv, [Next]_vars
             PROVE  IInv'
  OBVIOUS
<1>1. CASE UNCHANGED vars
  <2>1. /\ UNCHANGED windows /\ startup' = startup /\ signals' = signals /\ reqs' = reqs /\ owed' = owed
        /\ pw' = pw /\ UNCHANGED items /\ ver' = ver /\ acts' = acts /\ lapses' = lapses
    BY <1>1 DEF vars, places
  <2>2. WindowsOK /\ PlacesOK /\ ItemsOK /\ Fresh
    BY DEF IInv
  <2>3. ItemsOK' /\ Fresh'
    BY <2>1, <2>2, SameItems DEF ItemsOK
  <2>4. UNCHANGED <<next, pending, opened, places>> /\ win' = win
    BY <2>1 DEF windows, places
  <2>5. WindowsOK' /\ \A k \in Labels : win'[k].st = win[k].st /\ AskKept(k)
    BY <2>2, <2>4, NothingAsked
  <2> QED BY <2>1, <2>2, <2>3, <2>4, <2>5, StepInPlace DEF PlacesOK
<1>2. CASE User
  BY <1>2, Names, OpenDroppedKeeps, SubmitPasswordKeeps, ItemUsed, CloseKeeps, ShellOpenKeeps, EditKeeps DEF User
<1>3. CASE Listen \/ DrainAtMount \/ OnSignal
  BY <1>3, ListenKeeps, DrainAtMountKeeps, OnSignalKeeps
<1>4. CASE \E l \in Labels : Answer(l)
  BY <1>4, AnswerKeeps
<1>5. CASE \E l \in Viewers : MountViewer(l)
  BY <1>5, MountViewerKeeps
<1>6. CASE \E r \in reqs : LookUp(r) \/ Focus(r) \/ LeaveForMain(r) \/ Signal(r) \/ NewWindow(r)
  BY <1>6, LookUpKeeps, FocusKeeps, LeaveForMainKeeps, NewWindowKeeps
<1>7. CASE \E t \in tasks : Unpack(t) \/ Unpacked(t) \/ UnpackFails(t) \/ OpenArchiveWindow(t)
  BY <1>7, UnpackKeeps, UnpackedKeeps, UnpackFailsKeeps, OpenArchiveWindowKeeps
<1>8. QED BY <1>1, <1>2, <1>3, <1>4, <1>5, <1>6, <1>7 DEF Next, Program

\* The inductive invariant: it holds in every state the program can reach.
THEOREM Invariance == Spec => []IInv
BY InitHolds, NextKeeps, PTL DEF Spec

\* What the invariant says about the properties.
LEMMA InvariantGives == IInv => OpenedOnce /\ ItemIsRight
<1> SUFFICES ASSUME IInv
             PROVE  OpenedOnce /\ ItemIsRight
  OBVIOUS
<1>1. WindowsOK /\ PlacesOK /\ ItemsOK /\ OnTheWay /\ Counted /\ Announced
  BY DEF IInv
<1>2. TypeOK
  <2>1. \A l \in Labels : /\ win[l].st \in Stages /\ win[l].shown \in Maybe
                          /\ win[l].st = "listening" => l = Main
    BY <1>1, WindowParts, Names DEF WindowsOK
  <2>2. cache \in [Archives -> Partial..MaxEdits] /\ ver \in [Archives -> 0..MaxEdits]
    BY <1>1, Numbers DEF ItemsOK, Versions
  <2>3. owed \in [Archives -> Nat]
    BY <1>1 DEF Counted
  <2> QED BY <1>1, <2>1, <2>2, <2>3 DEF TypeOK, WindowsOK, PlacesOK, ItemsOK, Stages, Maybe
<1>3. TakenOnce
  <2>1. \A a \in Archives : owed[a] >= 0
    BY <1>1 DEF Counted
  <2>2. ASSUME Quiet
        PROVE  (\A a \in Archives : owed[a] = 0) /\ (Alive(Main) => startup = Nothing)
    <3>1. Alive(Main) => startup = Nothing
      BY <1>1, <2>2, Names DEF Quiet, Announced
    <3>2. \A l \in Viewers : Alive(l) => pending[l] = Nothing
      BY <1>1, <2>2, Names DEF Quiet, OnTheWay, Alive
    <3>3. \A l \in Labels : Alive(l) => Place(l) = Nothing
      BY <3>1, <3>2, Names DEF Place
    <3>4. \A a \in Archives : Waiting(a) = {}
      BY <3>3, Names DEF Waiting
    <3> QED BY <1>1, <3>1, <3>4, FS_EmptySet DEF Counted
  <2> QED BY <2>1, <2>2 DEF TakenOnce
<1>4. OneWindowEach
  <2> SUFFICES ASSUME NEW k \in Labels, NEW l \in Labels, k # l, Alive(k), Alive(l),
                      opened[k] = opened[l], opened[k] \in Disk, Clean
               PROVE  FALSE
    BY <1>1 DEF OneWindowEach, Clean, ItemsOK
  <2>1. OwnArchive /\ Apart
    BY DEF IInv
  <2>2. opened[k] # Nothing /\ Place(k) = Nothing /\ Place(l) = Nothing
    BY <2>1, Names DEF OwnArchive
  <2>3. Claim(k) = opened[k] /\ Claim(l) = opened[l]
    BY <2>2 DEF Claim
  <2> QED BY <2>1, <2>3 DEF Apart
<1>5. ItemIsRight
  BY DEF IInv, Fresh, ItemIsRight
<1> QED BY <1>2, <1>3, <1>4, <1>5 DEF OpenedOnce

\* Every archive that is left for a window is taken by it, and once, and an
\* archive opened from the shell has one window (commands.rs open_from_shell,
\* take_startup_open, take_viewer_archive).
THEOREM ArchivesOpenOnce == Spec => []OpenedOnce
BY Invariance, InvariantGives, PTL

\* No item is run or handed to a drop target half-written, or unpacked from an
\* archive older than the one it was asked of.
THEOREM ItemsAreRight == Spec => []ItemIsRight
BY Invariance, InvariantGives, PTL

=============================================================================
