--------------------------- MODULE ExtractionProofs ---------------------------
(***************************************************************************)
(* Proofs about one extraction, for any archives, paths, answers and any   *)
(* files that are there before: what has a name is whole, "ok" means that  *)
(* everything asked for has its place or was passed over without a word,   *)
(* and a file of the user is replaced only by what he answered for.        *)
(*                                                                         *)
(* Then about the window that starts it, for any archives the shell names  *)
(* and any order of its calls, of the answers and of what the user does:   *)
(* a request reaches the job as a whole, what is extracted was checked     *)
(* before, and what is said of its end is true.                            *)
(***************************************************************************)
EXTENDS Extraction, ExtractWindow, FiniteSetTheorems, WellFoundedInduction, TLAPS

FsType == [disk : [Paths -> Content], temps : SUBSET Items, live : SUBSET Items,
           stuck : SUBSET Items, missing : SUBSET Items]

StagedType == [item : Files, goal : Paths, len : {"part", "short", "whole", "long"},
               ok : BOOLEAN, n : 0..Chunks]

SzType == [op : BOOLEAN, aborted : BOOLEAN, hr : BOOLEAN, passed : SUBSET Items]

ItemsOf(st) == {s.item : s \in st}

\* No name is left that unique_path could find.
NamesTaken(f, p) == \A k \in DOMAIN NewNames[p] : f.disk[NewNames[p][k]] # None

\* The user was asked about item e and answered to replace the file, or to find
\* another name where there was none.
Allowed(f, e, p) ==
    /\ arc[e].name \in DOMAIN answers
    /\ \/ answers[arc[e].name] = "overwrite"
       \/ answers[arc[e].name] = "rename" /\ NamesTaken(f, p)

\* The name a staged item s is going to get: its own path, or one nobody from
\* this archive has; an old file has it only if the user has given it up.
Aimed(f, s) ==
    /\ s.goal = arc[s.item].path \/ f.disk[s.goal] \in {None, Alien, Folder}
    /\ f.disk[s.goal] = Old => Allowed(f, s.item, s.goal)

\* The disk f, the staged items st and those that wait td fit together.
Ledger(f, st, td) ==
    /\ f \in FsType /\ st \subseteq StagedType /\ td \subseteq sel
    /\ \A x, y \in st : x = y
    /\ f.live = ItemsOf(st) /\ f.temps \ f.stuck = ItemsOf(st)
    /\ (f.temps \cup f.stuck) \cap td = {} /\ ItemsOf(st) \subseteq sel \ td
    /\ \A p \in Paths : f.disk[p] # Torn
    /\ \A e \in sel \ td : \A t \in td : e < t
    /\ \A e \in sel \ (td \cup sz.passed) : \A s \in st : e <= s.item
    /\ \A s \in st : Aimed(f, s)

\* The user has been asked about every old file in the way of an item.
OldAsked(f) ==
    \A e \in Files \cap sel : f.disk[arc[e].path] = Old => arc[e].name \in DOMAIN answers

\* What has become of item e is known.
Accounted(f, e) ==
    \/ e \in f.missing
    \/ \E p \in Paths : f.disk[p] = e
    \/ arc[e].name \in DOMAIN answers /\ answers[arc[e].name] = "skip"
    \/ \E x \in Files : x > e /\ f.disk[arc[x].path] = x

AllAccounted(f, st, td) ==
    \A e \in (Files \cap sel) \ (td \cup sz.passed) : e \in ItemsOf(st) \/ Accounted(f, e)

\* Neither an item nor the engine has failed as far as 7z.dll tells.
Clean == ~sz.op /\ ~sz.aborted /\ sz.hr

Typed ==
    /\ be \in Backends /\ arc \in Archives /\ sealed \in BOOLEAN /\ cancel \in BOOLEAN
    /\ DOMAIN answers \subseteq Names /\ Range(answers) \subseteq Answers
    /\ pc \in {"check", "start", "next", "read", "write", "engine", "item", "close", "done"}
    /\ sel \subseteq Items
    /\ sz \in SzType
    /\ result \in Results

\* Where the worker is, and what that says about the rest.
Where ==
    /\ result # "none" <=> pc = "done"
    /\ pc \in {"check", "start"} => todo = sel
    /\ pc \in {"check", "start", "next", "done"} => staged = {}
    /\ pc \in {"check", "start"} \/ be # "7z" => Clean /\ sz.passed = {}
    /\ pc \in {"next", "read", "write"} => be # "7z"
    /\ pc \in {"engine", "item", "close"} => be = "7z"
    /\ pc \in {"engine", "close"} /\ Clean =>
         \A s \in staged : s.ok = TRUE \/ s.item \in sz.passed
    /\ pc = "close" /\ Clean => todo = {}
    /\ result = "ok" => Clean /\ todo = {} /\ fs.missing = {}

IInv ==
    /\ Typed
    /\ Ledger(fs, staged, todo)
    /\ pc # "check" => OldAsked(fs)
    /\ Where
    /\ Clean /\ result \in {"none", "ok"} => AllAccounted(fs, staged, todo)

-----------------------------------------------------------------------------
(***************************************************************************)
(* Numbers, items, and what the helpers make of the disk.                  *)
(***************************************************************************)
\* A set of numbers that is not empty has a least one.
LEMMA LeastIs ==
  ASSUME NEW S \in SUBSET (Nat \ {0}), NEW n \in Nat, S \subseteq 1 .. n, S # {}
  PROVE  Min(S) \in S /\ \A x \in S : Min(S) <= x
<1> DEFINE Below == {1 .. i : i \in S}
<1>1. IsFiniteSet(1 .. n)
  BY FS_Interval
<1>2. IsWellFoundedOn(StrictSubsetOrdering(1 .. n), SUBSET (1 .. n))
  BY <1>1, FS_StrictSubsetOrderingWellFounded, FS_FiniteSubsetsOfFinite
<1>3. \E T \in Below : \A U \in Below : ~(<<U, T>> \in StrictSubsetOrdering(1 .. n))
  <2>1. Below \subseteq SUBSET (1 .. n) /\ Below # {}
    <3>1. \A i \in S : 1 .. i \subseteq 1 .. n
      OBVIOUS
    <3> QED BY <3>1
  <2> HIDE DEF Below
  <2> QED BY <1>2, <2>1, WFMin
<1>4. PICK i \in S : \A j \in S : ~(<<1 .. j, 1 .. i>> \in StrictSubsetOrdering(1 .. n))
  <2>1. PICK T \in Below : \A U \in Below : ~(<<U, T>> \in StrictSubsetOrdering(1 .. n))
    BY <1>3
  <2>2. PICK i \in S : T = 1 .. i
    OBVIOUS
  <2>3. \A j \in S : 1 .. j \in Below
    OBVIOUS
  <2> HIDE DEF Below
  <2> QED BY <2>1, <2>2, <2>3
<1>5. ASSUME NEW j \in S, ~(i <= j) PROVE FALSE
  <2>1. i \in 1 .. n /\ j \in 1 .. n /\ j < i
    BY <1>5
  <2>2. 1 .. j \subseteq 1 .. n /\ 1 .. i \subseteq 1 .. n /\ 1 .. j \subseteq 1 .. i
    BY <2>1
  <2>3. i \in 1 .. i /\ i \notin 1 .. j
    BY <2>1
  <2>4. 1 .. j # 1 .. i
    BY <2>3
  <2>5. <<1 .. j, 1 .. i>> \in StrictSubsetOrdering(1 .. n)
    BY <2>2, <2>4 DEF StrictSubsetOrdering
  <2> QED BY <1>4, <2>5
<1>6. \A j \in S : i <= j
  BY <1>5
<1> QED BY <1>6 DEF Min

\* Items are numbers, and no item is mistaken for something else.
LEMMA ItemsAre ==
  ASSUME arc \in Archives
  PROVE  /\ \E n \in Nat : Items = 1 .. n
         /\ Items \subseteq Content /\ Files \subseteq Items /\ Items \subseteq Nat \ {0}
         /\ {None, Old, Alien, Folder, Torn} \cap Items = {}
         /\ \A e \in Items : arc[e].path \in Paths /\ arc[e].kind \in Kinds
<1>1. /\ arc \in Seq(Range(arc))
      /\ \A e \in DOMAIN arc : arc[e].kind \in Kinds /\ arc[e].path \in Paths
  BY ArchivesAssumption
<1>2. PICK n \in Nat : Items = 1 .. n
  BY <1>1 DEF Items
<1>3. Items \subseteq Content
  BY DEF Items, Content
<1> QED BY <1>1, <1>2, <1>3 DEF Items, Files, None, Old, Alien, Folder, Torn

LEMMA ContentIs == {None, Old, Alien, Folder, Torn} \subseteq Content
BY DEF Content

\* The five kinds of what is no item differ.
LEMMA KindsDiffer ==
  /\ None # Old /\ None # Alien /\ None # Folder /\ Old # Alien /\ Old # Folder /\ Alien # Folder
  /\ Torn \notin {None, Old, Alien, Folder}
BY DEF None, Old, Alien, Folder, Torn

\* Nothing that has a name loses it, and what is new is not from the archive.
Grows(f, g) ==
    \A p \in Paths : g.disk[p] = f.disk[p] \/ (f.disk[p] = None /\ g.disk[p] \in {Alien, Folder})

\* g is f with the missing ones miss.
IsMissed(f, g, miss) ==
    /\ g \in FsType /\ g.disk = f.disk /\ g.temps = f.temps /\ g.live = f.live /\ g.stuck = f.stuck
    /\ g.missing = f.missing \cup miss

LEMMA MissedIs ==
  ASSUME NEW f \in FsType, NEW e \in Items
  PROVE  IsMissed(f, Missed(f, e), {e})
BY DEF Missed, IsMissed, FsType

IsCreated(f, g, e) ==
    /\ g \in FsType /\ g.disk = f.disk /\ g.missing = f.missing /\ g.stuck = f.stuck
    /\ g.temps = f.temps \cup {e} /\ g.live = f.live \cup {e}

LEMMA CreatedIs ==
  ASSUME NEW f \in FsType, NEW e \in Items
  PROVE  IsCreated(f, Created(f, e), e)
BY DEF Created, IsCreated, FsType

IsRemoved(f, g, e) ==
    /\ g \in FsType /\ g.disk = f.disk /\ g.missing = f.missing /\ g.live = f.live \ {e}
    /\ \/ g.temps = f.temps \ {e} /\ g.stuck = f.stuck
       \/ g.temps = f.temps /\ g.stuck = f.stuck \cup {e}

LEMMA RemovedIs ==
  ASSUME NEW f \in FsType, NEW e \in Items, NEW g \in Removed(f, e)
  PROVE  IsRemoved(f, g, e)
BY DEF Removed, IsRemoved, FsType

IsRenamed(f, g, s) ==
    /\ g \in FsType /\ g.missing = f.missing /\ g.stuck = f.stuck
    /\ g.temps = f.temps \ {s.item} /\ g.live = f.live \ {s.item}
    /\ g.disk[s.goal] = s.item /\ f.disk[s.goal] # Folder
    /\ \A p \in Paths : p # s.goal => g.disk[p] = f.disk[p]

LEMMA CommittedIs ==
  ASSUME arc \in Archives, NEW f \in FsType, NEW s, s.item \in Files, s.goal \in Paths,
         s.len \in {"whole", "long"}, NEW g \in Committed(f, s)
  PROVE  IsRenamed(f, g, s)
<1>1. g = Renamed(f, s) /\ f.disk[s.goal] # Folder
  BY DEF Committed
<1>2. s.item \in Items /\ s.item \in Content
  BY ItemsAre
<1>3. PICK d : d = [f.disk EXCEPT ![s.goal] = s.item]
  OBVIOUS
<1>4. f.disk \in [Paths -> Content]
  BY DEF FsType
<1>5. /\ d \in [Paths -> Content] /\ d[s.goal] = s.item
      /\ \A p \in Paths : p # s.goal => d[p] = f.disk[p]
  BY <1>2, <1>3, <1>4
<1>6. g = [f EXCEPT !.disk = d, !.temps = @ \ {s.item}, !.live = @ \ {s.item}]
  BY <1>1, <1>3 DEF Renamed, FsType
<1>7. g \in FsType /\ g.disk = d /\ g.missing = f.missing /\ g.stuck = f.stuck
      /\ g.temps = f.temps \ {s.item} /\ g.live = f.live \ {s.item}
  BY <1>5, <1>6 DEF FsType
<1> QED BY <1>1, <1>5, <1>7 DEF IsRenamed

\* A folder is made, or missed.
IsMade(f, g, e) ==
    /\ g \in FsType /\ Grows(f, g) /\ g.temps = f.temps /\ g.live = f.live /\ g.stuck = f.stuck
    /\ g.missing \in {f.missing, f.missing \cup {e}}

LEMMA DirMadeIs ==
  ASSUME arc \in Archives, NEW f \in FsType, NEW e \in Items, NEW g \in DirMade(f, e)
  PROVE  IsMade(f, g, e)
<1>1. CASE g = Missed(f, e)
  BY <1>1, MissedIs DEF IsMissed, IsMade, Grows
<1>2. CASE g = [f EXCEPT !.disk[arc[e].path] = Folder] /\ f.disk[arc[e].path] \in {None, Folder}
  <2>1. arc[e].path \in Paths /\ Folder \in Content
    BY ItemsAre, ContentIs
  <2>2. g = [f EXCEPT !.disk = [f.disk EXCEPT ![arc[e].path] = Folder]]
    BY <1>2 DEF FsType
  <2> QED BY <1>2, <2>1, <2>2 DEF IsMade, Grows, FsType
<1> QED BY <1>1, <1>2 DEF DirMade

-----------------------------------------------------------------------------
(***************************************************************************)
(* What may happen to the disk, the staged item and those that wait.       *)
(***************************************************************************)
Grown(f, g) ==
    /\ g \in FsType /\ Grows(f, g) /\ f.missing \subseteq g.missing
    /\ g.temps = f.temps /\ g.live = f.live /\ g.stuck = f.stuck

\* No name that was there before comes up again.
LEMMA OldOnly ==
  ASSUME arc \in Archives, NEW f, NEW g, OldAsked(f),
         \A p \in Paths : g.disk[p] = Old => f.disk[p] = Old
  PROVE  OldAsked(g)
BY ItemsAre DEF OldAsked

LEMMA GrownTaken ==
  ASSUME NEW f, NEW g, Grows(f, g), NEW p \in Paths, NamesTaken(f, p)
  PROVE  NamesTaken(g, p)
<1>1. \A k \in DOMAIN NewNames[p] : NewNames[p][k] \in Paths
  BY ArchivesAssumption
<1> QED BY <1>1, KindsDiffer DEF NamesTaken, Grows

LEMMA GrownAimed ==
  ASSUME NEW f, NEW g, Grows(f, g), NEW s \in StagedType, Aimed(f, s)
  PROVE  Aimed(g, s)
<1>1. s.goal \in Paths
  BY DEF StagedType
<1>2. s.goal = arc[s.item].path \/ g.disk[s.goal] \in {None, Alien, Folder}
  BY <1>1 DEF Grows, Aimed
<1>3. ASSUME g.disk[s.goal] = Old PROVE Allowed(g, s.item, s.goal)
  <2>1. f.disk[s.goal] = Old
    BY <1>1, <1>3, KindsDiffer DEF Grows
  <2>2. Allowed(f, s.item, s.goal)
    BY <2>1 DEF Aimed
  <2> QED BY <1>1, <2>2, GrownTaken DEF Allowed
<1> QED BY <1>2, <1>3 DEF Aimed

LEMMA GrownLedger ==
  ASSUME NEW f, NEW g, NEW st, NEW td, Ledger(f, st, td), Grown(f, g)
  PROVE  Ledger(g, st, td)
<1>1. \A p \in Paths : g.disk[p] # Torn
  BY KindsDiffer DEF Ledger, Grown, Grows
<1>2. \A s \in st : Aimed(g, s)
  BY GrownAimed DEF Ledger, Grown
<1> QED BY <1>1, <1>2 DEF Ledger, Grown

LEMMA GrownAccounted ==
  ASSUME arc \in Archives, NEW f, NEW g, Grown(f, g), NEW e \in Files, Accounted(f, e)
  PROVE  Accounted(g, e)
<1>1. \A p \in Paths : f.disk[p] \in Items => g.disk[p] = f.disk[p]
  BY ItemsAre DEF Grown, Grows
<1>2. e \in Items /\ \A x \in Files : x \in Items /\ arc[x].path \in Paths
  BY ItemsAre
<1>3. ASSUME NEW x \in Files, x > e, f.disk[arc[x].path] = x PROVE Accounted(g, e)
  BY <1>1, <1>2, <1>3 DEF Accounted
<1>4. ASSUME NEW p \in Paths, f.disk[p] = e PROVE Accounted(g, e)
  BY <1>1, <1>2, <1>4 DEF Accounted
<1>5. e \in f.missing => Accounted(g, e)
  BY DEF Accounted, Grown
<1>6. arc[e].name \in DOMAIN answers /\ answers[arc[e].name] = "skip" => Accounted(g, e)
  BY DEF Accounted
<1> QED BY <1>3, <1>4, <1>5, <1>6 DEF Accounted

LEMMA GrownAll ==
  ASSUME arc \in Archives, NEW f, NEW g, NEW st, NEW td, Grown(f, g), AllAccounted(f, st, td)
  PROVE  AllAccounted(g, st, td)
BY GrownAccounted DEF AllAccounted

LEMMA GrownAsked ==
  ASSUME arc \in Archives, NEW f, NEW g, Grown(f, g), OldAsked(f)
  PROVE  OldAsked(g)
<1>1. \A p \in Paths : g.disk[p] = Old => f.disk[p] = Old
  BY KindsDiffer DEF Grown, Grows
<1> QED BY <1>1, OldOnly

\* The staged item s is given up: its temporary file is removed or stuck.
LEMMA RemovedLedger ==
  ASSUME arc \in Archives, NEW f, NEW g, NEW s, NEW td, Ledger(f, {s}, td), IsRemoved(f, g, s.item)
  PROVE  Ledger(g, {}, td)
<1>1. ItemsOf({s}) = {s.item} /\ ItemsOf({}) = {}
  BY DEF ItemsOf
<1>2. g.live = {} /\ g.temps \ g.stuck = {} /\ (g.temps \cup g.stuck) \cap td = {}
  BY <1>1 DEF Ledger, IsRemoved
<1>3. \A p \in Paths : g.disk[p] # Torn
  BY DEF Ledger, IsRemoved
<1> QED BY <1>1, <1>2, <1>3 DEF Ledger, IsRemoved

LEMMA RemovedAll ==
  ASSUME NEW f, NEW g, NEW s, NEW td, IsRemoved(f, g, s.item), AllAccounted(f, {s}, td),
         s.item \in sz.passed \/ Accounted(g, s.item)
  PROVE  AllAccounted(g, {}, td)
<1>1. ItemsOf({s}) = {s.item}
  BY DEF ItemsOf
<1>2. \A e : Accounted(f, e) => Accounted(g, e)
  BY DEF Accounted, IsRemoved
<1> QED BY <1>1, <1>2 DEF AllAccounted

\* The staged item s gets its name.
LEMMA RenamedLedger ==
  ASSUME arc \in Archives, NEW f, NEW g, NEW s, NEW td, Ledger(f, {s}, td), IsRenamed(f, g, s)
  PROVE  Ledger(g, {}, td)
<1>1. ItemsOf({s}) = {s.item} /\ ItemsOf({}) = {}
  BY DEF ItemsOf
<1>2. g.live = {} /\ g.temps \ g.stuck = {} /\ (g.temps \cup g.stuck) \cap td = {}
  <2>1. f.live = {s.item} /\ f.temps \ f.stuck = {s.item} /\ (f.temps \cup f.stuck) \cap td = {}
    BY <1>1 DEF Ledger
  <2>2. g.live = f.live \ {s.item} /\ g.temps = f.temps \ {s.item} /\ g.stuck = f.stuck
    BY DEF IsRenamed
  <2>3. g.live = {}
    BY <2>1, <2>2
  <2>4. g.temps \ g.stuck = {}
    BY <2>1, <2>2
  <2>5. (g.temps \cup g.stuck) \cap td = {}
    BY <2>1, <2>2
  <2> QED BY <2>3, <2>4, <2>5
<1>3. s.item \in Items /\ s.goal \in Paths
  BY ItemsAre DEF Ledger, StagedType
<1>4. s.item # Torn
  BY <1>3, ItemsAre
<1>5. \A p \in Paths : g.disk[p] # Torn
  BY <1>3, <1>4 DEF Ledger, IsRenamed
<1>6. g \in FsType /\ td \subseteq sel /\ \A e \in sel \ td : \A t \in td : e < t
  BY DEF Ledger, IsRenamed
<1> QED BY <1>1, <1>2, <1>5, <1>6 DEF Ledger

LEMMA RenamedAsked ==
  ASSUME arc \in Archives, NEW f, NEW g, NEW s \in StagedType, IsRenamed(f, g, s), OldAsked(f)
  PROVE  OldAsked(g)
<1>1. s.item \in Items /\ s.item # Old
  BY ItemsAre DEF StagedType
<1>2. \A p \in Paths : g.disk[p] = Old => f.disk[p] = Old
  BY <1>1 DEF IsRenamed
<1> QED BY <1>2, OldOnly

\* An item that loses its place loses it to a later one of its own path.
LEMMA RenamedAll ==
  ASSUME arc \in Archives, NEW f, NEW g, NEW s, NEW td, Ledger(f, {s}, td), IsRenamed(f, g, s),
         AllAccounted(f, {s}, td)
  PROVE  AllAccounted(g, {}, td)
<1>1. ItemsOf({s}) = {s.item} /\ s.item \in Files /\ s.goal \in Paths /\ Aimed(f, s)
  BY DEF ItemsOf, Ledger, StagedType
<1>2. g.disk[s.goal] = s.item /\ (\A p \in Paths : p # s.goal => g.disk[p] = f.disk[p])
      /\ g.missing = f.missing
  BY DEF IsRenamed
<1>3. Items \subseteq Nat \ {0} /\ Files \subseteq Items /\ {None, Alien, Folder} \cap Items = {}
      /\ \A x \in Items : arc[x].path \in Paths
  BY ItemsAre
<1> SUFFICES ASSUME NEW e \in (Files \cap sel) \ (td \cup sz.passed) PROVE Accounted(g, e)
  BY DEF AllAccounted
<1>4. e <= s.item /\ e \in Items /\ s.item \in Items
  BY <1>1, <1>3 DEF Ledger
<1>5. CASE e = s.item
  BY <1>1, <1>2, <1>5 DEF Accounted
<1>6. CASE e # s.item
  <2>1. Accounted(f, e)
    BY <1>1, <1>6 DEF AllAccounted
  <2>4. e \in Nat /\ s.item \in Nat
    BY <1>3, <1>4
  <2>5. s.item > e
    BY <2>4, <1>4, <1>6
  <2>2. ASSUME s.goal = arc[s.item].path PROVE Accounted(g, e)
    BY <1>1, <1>2, <1>4, <2>1, <2>5, <2>2 DEF Accounted
  <2>3. ASSUME s.goal # arc[s.item].path PROVE Accounted(g, e)
    <3>1. f.disk[s.goal] \notin Items
      BY <1>1, <1>3, <2>3 DEF Aimed
    <3>2. \A p \in Paths : f.disk[p] \in Items => g.disk[p] = f.disk[p]
      BY <1>2, <3>1
    <3>3. \A x \in Files : f.disk[arc[x].path] = x => g.disk[arc[x].path] = x
      BY <1>3, <3>2
    <3>4. \A p \in Paths : f.disk[p] = e => g.disk[p] = e
      BY <1>4, <3>2
    <3> QED BY <1>2, <2>1, <3>3, <3>4 DEF Accounted
  <2> QED BY <2>2, <2>3
<1> QED BY <1>5, <1>6

\* The first of those that wait has its turn: it leaves them, and everything
\* that had its turn comes before it.
LEMMA TakeLedger ==
  ASSUME arc \in Archives, sel \subseteq Items, NEW f, NEW td, Ledger(f, {}, td), td # {}
  PROVE  /\ Min(td) \in td /\ Min(td) \in sel /\ Min(td) \in Items
         /\ Min(td) \notin f.temps /\ Min(td) \notin f.stuck
         /\ \A e \in sel \ (td \ {Min(td)}) : e <= Min(td)
         /\ Ledger(f, {}, td \ {Min(td)})
<1>1. td \subseteq sel
  BY DEF Ledger
<1>2. PICK n \in Nat : Items = 1 .. n
  BY ItemsAre
<1>3. Min(td) \in td /\ \A x \in td : Min(td) <= x
  <2>1. td \in SUBSET (Nat \ {0}) /\ td \subseteq 1 .. n
    BY <1>1, <1>2
  <2> QED BY <2>1, LeastIs
<1>4. PICK t : t = Min(td)
  OBVIOUS
<1>5. t \in td /\ \A x \in td : t <= x
  BY <1>4, <1>3
<1>6. t \in sel /\ t \in Items /\ t \in Nat
  BY <1>1, <1>2, <1>5
<1>7. t \notin f.temps /\ t \notin f.stuck
  BY <1>5 DEF Ledger
<1>8. \A e \in sel \ td : e < t
  BY <1>5 DEF Ledger
<1>9. \A e \in sel \ (td \ {t}) : e <= t /\ \A x \in td \ {t} : e < x
  <2> SUFFICES ASSUME NEW e \in sel \ (td \ {t}) PROVE e <= t /\ \A x \in td \ {t} : e < x
    OBVIOUS
  <2>1. e \in Nat /\ \A x \in td : x \in Nat
    BY <1>1, <1>2
  <2>2. e <= t
    BY <1>6, <1>8, <2>1
  <2>3. ASSUME NEW x \in td \ {t} PROVE e < x
    BY <1>6, <1>5, <2>1, <2>2, <2>3
  <2> QED BY <2>2, <2>3
<1>10. ItemsOf({}) = {}
  BY DEF ItemsOf
<1>11. Ledger(f, {}, td \ {t})
  <2>1. f \in FsType /\ {} \subseteq StagedType /\ td \ {t} \subseteq sel
    BY DEF Ledger
  <2>2. f.live = {} /\ f.temps \ f.stuck = {} /\ (f.temps \cup f.stuck) \cap (td \ {t}) = {}
    BY <1>10 DEF Ledger
  <2>3. \A p \in Paths : f.disk[p] # Torn
    BY DEF Ledger
  <2> QED BY <1>9, <1>10, <2>1, <2>2, <2>3 DEF Ledger
<1> QED BY <1>4, <1>6, <1>5, <1>7, <1>9, <1>11

\* What has its turn and is accounted for is no longer looked for.
LEMMA TakeAll ==
  ASSUME NEW f, NEW td, NEW t, AllAccounted(f, {}, td), t \in Files => t \in sz.passed \/ Accounted(f, t)
  PROVE  AllAccounted(f, {}, td \ {t})
BY DEF AllAccounted

\* The user wants the item t: its temporary file is created.
LEMMA StageLedger ==
  ASSUME arc \in Archives, sel \subseteq Items, Range(answers) \subseteq Answers,
         NEW f, NEW td, NEW t, Ledger(f, {}, td), td # {}, OldAsked(f), t = Min(td),
         t \in Files, Policy(f, t) # "skip"
  PROVE  Ledger(Created(f, t), {Fresh(f, t)}, td \ {t})
<1>1. t \in td /\ t \in sel /\ t \in Items /\ t \notin f.temps /\ t \notin f.stuck
  BY TakeLedger
<1>2. \A e \in sel \ (td \ {t}) : e <= t
  BY TakeLedger
<1>3. Ledger(f, {}, td \ {t})
  BY TakeLedger
<1>4. f \in FsType
  BY DEF Ledger
<1> DEFINE g == Created(f, t)
           s == Fresh(f, t)
           p == arc[t].path
<1>5. IsCreated(f, g, t)
  BY <1>1, <1>4, CreatedIs
<1>6. p \in Paths
  BY <1>1, ItemsAre
<1>7. s.item = t /\ s.goal = Goal(f, t)
  BY DEF Fresh
<1>8. Goal(f, t) \in Paths /\ Aimed(f, s)
  <2>1. CASE ~Exists(f, p)
    <3>1. Goal(f, t) = p /\ f.disk[p] = None
      BY <2>1 DEF Goal, Policy, Exists
    <3> QED BY <1>6, <1>7, <3>1, KindsDiffer DEF Aimed
  <2>2. CASE Exists(f, p) /\ Policy(f, t) = "overwrite"
    <3>1. Goal(f, t) = p
      BY <2>2 DEF Goal
    <3>2. ASSUME f.disk[p] = Old PROVE Allowed(f, t, p)
      <4>1. arc[t].name \in DOMAIN answers
        BY <1>1, <3>2 DEF OldAsked
      <4> QED BY <2>2, <4>1 DEF Policy, Allowed
    <3> QED BY <1>6, <1>7, <3>1, <3>2 DEF Aimed
  <2>3. CASE Exists(f, p) /\ Policy(f, t) = "rename"
    <3> DEFINE free == {n \in DOMAIN NewNames[p] : ~Exists(f, NewNames[p][n])}
    <3>1. arc[t].name \in DOMAIN answers /\ answers[arc[t].name] = "rename"
      BY <2>3 DEF Policy
    <3>2. Goal(f, t) = UniquePath(f, p)
      BY <2>3 DEF Goal
    <3>3. NewNames[p] \in Seq(Paths)
      BY <1>6, ArchivesAssumption
    <3>4. CASE free = {}
      <4>1. Goal(f, t) = p
        BY <3>2, <3>4 DEF UniquePath
      <4>2. NamesTaken(f, p)
        BY <3>4 DEF NamesTaken, Exists
      <4> QED BY <1>6, <1>7, <3>1, <4>1, <4>2 DEF Aimed, Allowed
    <3>5. CASE free # {}
      <4>1. Goal(f, t) = NewNames[p][Min(free)]
        BY <3>2, <3>5 DEF UniquePath
      <4>2. PICK n \in Nat : DOMAIN NewNames[p] = 1 .. n
        BY <3>3
      <4>3. free \in SUBSET (Nat \ {0}) /\ free \subseteq 1 .. n
        BY <4>2
      <4> HIDE DEF free
      <4>4. Min(free) \in free
        BY <3>5, <4>3, LeastIs
      <4>5. Min(free) \in DOMAIN NewNames[p] /\ f.disk[NewNames[p][Min(free)]] = None
        BY <4>4 DEF free, Exists
      <4>6. NewNames[p][Min(free)] \in Paths
        BY <3>3, <4>5
      <4> QED BY <1>7, <4>1, <4>5, <4>6, KindsDiffer DEF Aimed
    <3> QED BY <3>4, <3>5
  <2>4. Policy(f, t) \in {"new"} \cup Answers /\ (Exists(f, p) => Policy(f, t) # "new")
    <3>1. arc[t].name \in DOMAIN answers => answers[arc[t].name] \in Answers
      BY DEF Range
    <3> QED BY <3>1 DEF Policy, Answers
  <2> QED BY <2>1, <2>2, <2>3, <2>4 DEF Answers
<1>9. s \in StagedType
  <2>1. 0 \in 0 .. Chunks
    BY ArchivesAssumption
  <2> QED BY <1>8, <2>1 DEF Fresh, StagedType
<1> HIDE DEF s, g
<1>10. ItemsOf({s}) = {t} /\ ItemsOf({}) = {}
  BY <1>7 DEF ItemsOf
<1>11. g.live = {t} /\ g.temps \ g.stuck = {t} /\ (g.temps \cup g.stuck) \cap (td \ {t}) = {}
  <2>1. f.live = {} /\ f.temps \ f.stuck = {} /\ (f.temps \cup f.stuck) \cap td = {}
    BY <1>10 DEF Ledger
  <2>2. g.live = f.live \cup {t} /\ g.temps = f.temps \cup {t} /\ g.stuck = f.stuck
    BY <1>5 DEF IsCreated
  <2>3. g.live = {t} /\ g.temps \ g.stuck = {t}
    BY <1>1, <2>1, <2>2
  <2>4. (g.temps \cup g.stuck) \cap (td \ {t}) = {}
    BY <2>1, <2>2
  <2> QED BY <2>3, <2>4
<1>12. \A q \in Paths : g.disk[q] # Torn
  BY <1>5 DEF IsCreated, Ledger
<1>13. \A e \in sel \ (td \ {t}) : \A x \in td \ {t} : e < x
  BY <1>3 DEF Ledger
<1>14. g \in FsType /\ td \ {t} \subseteq sel /\ {t} \subseteq sel \ (td \ {t})
  BY <1>1, <1>3, <1>5 DEF IsCreated, Ledger
<1>15. Aimed(g, s)
  BY <1>5, <1>8 DEF IsCreated, Aimed, Allowed, NamesTaken
<1>17. \A e \in sel \ ((td \ {t}) \cup sz.passed) : e <= s.item
  BY <1>2, <1>7
<1>16. Ledger(g, {s}, td \ {t})
  BY <1>9, <1>10, <1>11, <1>12, <1>13, <1>14, <1>15, <1>17 DEF Ledger
<1> QED BY <1>16 DEF g, s

\* Nothing else changes when the temporary file is created.
LEMMA StageAll ==
  ASSUME arc \in Archives, NEW f \in FsType, NEW td, NEW t \in Items, AllAccounted(f, {}, td)
  PROVE  AllAccounted(Created(f, t), {Fresh(f, t)}, td \ {t})
<1>1. IsCreated(f, Created(f, t), t)
  BY CreatedIs
<1>2. ItemsOf({Fresh(f, t)}) = {t} /\ ItemsOf({}) = {}
  BY DEF ItemsOf, Fresh
<1>3. \A e : Accounted(f, e) => Accounted(Created(f, t), e)
  BY <1>1 DEF Accounted, IsCreated
<1> QED BY <1>2, <1>3 DEF AllAccounted

\* The staged item is written further: it keeps its number and its goal.
LEMMA UpdateLedger ==
  ASSUME NEW f, NEW s, NEW u \in StagedType, NEW td, Ledger(f, {s}, td),
         u.item = s.item, u.goal = s.goal
  PROVE  Ledger(f, {u}, td)
<1>1. ItemsOf({s}) = ItemsOf({u})
  BY DEF ItemsOf
<1>2. Aimed(f, u)
  BY DEF Ledger, Aimed
<1>3. /\ \A e \in sel \ td : \A t \in td : e < t
      /\ \A e \in sel \ (td \cup sz.passed) : e <= u.item
  BY DEF Ledger
<1> QED BY <1>1, <1>2, <1>3 DEF Ledger

LEMMA UpdateAll ==
  ASSUME NEW f, NEW s, NEW u, NEW td, AllAccounted(f, {s}, td), u.item = s.item
  PROVE  AllAccounted(f, {u}, td)
BY DEF AllAccounted, ItemsOf

-----------------------------------------------------------------------------
(***************************************************************************)
(* What a turn makes of the ledger: it still fits, and what was accounted  *)
(* for still is.                                                           *)
(***************************************************************************)
Fits(f, st, td, g, st2, td2) ==
    Ledger(f, st, td) => Ledger(g, st2, td2) /\ (OldAsked(f) => OldAsked(g))

Accounts(f, st, td, g, st2, td2) ==
    Ledger(f, st, td) /\ AllAccounted(f, st, td) => AllAccounted(g, st2, td2)

LEMMA MissedGrown ==
  ASSUME NEW f \in FsType, NEW e \in Items
  PROVE  Grown(f, Missed(f, e)) /\ e \in Missed(f, e).missing
BY MissedIs DEF IsMissed, Grown, Grows

LEMMA MadeGrown ==
  ASSUME arc \in Archives, NEW f \in FsType, NEW e \in Items, NEW g \in DirMade(f, e)
  PROVE  Grown(f, g)
BY DirMadeIs DEF IsMade, Grown

\* Given up and nothing noted.
LEMMA RemovedFits ==
  ASSUME arc \in Archives, NEW f, NEW s, NEW td, NEW g \in Removed(f, s.item)
  PROVE  Fits(f, {s}, td, g, {}, td)
<1> SUFFICES ASSUME Ledger(f, {s}, td) PROVE Ledger(g, {}, td) /\ (OldAsked(f) => OldAsked(g))
  BY DEF Fits
<1>1. f \in FsType /\ s \in StagedType
  BY DEF Ledger
<1>2. s.item \in Items
  BY <1>1, ItemsAre DEF StagedType
<1>3. IsRemoved(f, g, s.item)
  BY <1>1, <1>2, RemovedIs
<1>4. Ledger(g, {}, td)
  BY <1>3, RemovedLedger
<1>5. OldAsked(f) => OldAsked(g)
  BY <1>3 DEF IsRemoved, OldAsked
<1> QED BY <1>4, <1>5

\* Given up and noted as missing.
LEMMA MissedFits ==
  ASSUME arc \in Archives, NEW f, NEW s, NEW td, NEW g \in Removed(f, s.item)
  PROVE  /\ Fits(f, {s}, td, Missed(g, s.item), {}, td)
         /\ Accounts(f, {s}, td, Missed(g, s.item), {}, td)
<1> SUFFICES ASSUME Ledger(f, {s}, td)
             PROVE  /\ Ledger(Missed(g, s.item), {}, td)
                    /\ OldAsked(f) => OldAsked(Missed(g, s.item))
                    /\ AllAccounted(f, {s}, td) => AllAccounted(Missed(g, s.item), {}, td)
  BY DEF Fits, Accounts
<1>1. f \in FsType /\ s \in StagedType
  BY DEF Ledger
<1>2. s.item \in Items
  BY <1>1, ItemsAre DEF StagedType
<1>3. IsRemoved(f, g, s.item)
  BY <1>1, <1>2, RemovedIs
<1>4. Ledger(g, {}, td) /\ (OldAsked(f) => OldAsked(g))
  BY RemovedFits DEF Fits
<1>5. g \in FsType
  BY <1>3 DEF IsRemoved
<1>6. PICK h : h = Missed(g, s.item)
  OBVIOUS
<1>7. Grown(g, h) /\ s.item \in h.missing
  BY <1>2, <1>5, <1>6, MissedGrown
<1>8. Ledger(h, {}, td)
  BY <1>4, <1>7, GrownLedger
<1>9. OldAsked(f) => OldAsked(h)
  BY <1>4, <1>7, GrownAsked
<1>10. ASSUME AllAccounted(f, {s}, td) PROVE AllAccounted(h, {}, td)
  <2>1. IsMissed(g, h, {s.item})
    BY <1>2, <1>5, <1>6, MissedIs
  <2>2. \A e : Accounted(f, e) => Accounted(h, e)
    BY <1>3, <2>1 DEF IsRemoved, IsMissed, Accounted
  <2>3. Accounted(h, s.item)
    BY <1>7 DEF Accounted
  <2>4. ItemsOf({s}) = {s.item}
    BY DEF ItemsOf
  <2> QED BY <1>10, <2>2, <2>3, <2>4 DEF AllAccounted
<1> QED BY <1>6, <1>8, <1>9, <1>10

\* The item gets its name.
LEMMA CommittedFits ==
  ASSUME arc \in Archives, NEW f, NEW s, s.len \in {"whole", "long"}, NEW td,
         NEW g \in Committed(f, s)
  PROVE  Fits(f, {s}, td, g, {}, td) /\ Accounts(f, {s}, td, g, {}, td)
<1> SUFFICES ASSUME Ledger(f, {s}, td)
             PROVE  /\ Ledger(g, {}, td)
                    /\ OldAsked(f) => OldAsked(g)
                    /\ AllAccounted(f, {s}, td) => AllAccounted(g, {}, td)
  BY DEF Fits, Accounts
<1>1. f \in FsType /\ s \in StagedType
  BY DEF Ledger
<1>2. s.item \in Files /\ s.goal \in Paths
  BY <1>1 DEF StagedType
<1>3. IsRenamed(f, g, s)
  BY <1>1, <1>2, CommittedIs
<1> QED BY <1>1, <1>3, RenamedLedger, RenamedAsked, RenamedAll

\* The last item of 7z.dll is settled.
LEMMA SettledFits ==
  ASSUME arc \in Archives, NEW f, NEW td, Ledger(f, staged, td), NEW g \in Settled(f)
  PROVE  /\ Fits(f, staged, td, g, {}, td)
         /\ (\A s \in staged : s.ok = TRUE \/ s.item \in sz.passed)
            => Accounts(f, staged, td, g, {}, td)
<1>1. CASE staged = {}
  BY <1>1 DEF Settled, Fits, Accounts
<1>2. CASE staged # {}
  <2>1. PICK s : s \in staged
    BY <1>2
  <2>2. staged = {s}
    BY <2>1 DEF Ledger
  <2>3. \A x : x = (CHOOSE y \in staged : TRUE) => x = s
    BY <2>2
  <2>4. g \in (IF ~s.ok THEN Removed(f, s.item)
               ELSE IF s.len \notin {"whole", "long"}
               THEN {Missed(h, s.item) : h \in Removed(f, s.item)}
               ELSE Committed(f, s) \cup {Missed(h, s.item) : h \in Removed(f, s.item)})
    BY <1>2, <2>3 DEF Settled
  <2>5. CASE s.ok # TRUE
    <3>1. g \in Removed(f, s.item)
      <4>1. s.ok \in BOOLEAN
        BY <2>1 DEF Ledger, StagedType
      <4> QED BY <2>4, <2>5, <4>1
    <3>2. IsRemoved(f, g, s.item)
      <4>1. f \in FsType /\ s.item \in Items
        BY <2>1, ItemsAre DEF Ledger, StagedType
      <4> QED BY <3>1, <4>1, RemovedIs
    <3>3. s.item \in sz.passed => Accounts(f, {s}, td, g, {}, td)
      BY <3>2, RemovedAll DEF Accounts
    <3> QED BY <2>1, <2>2, <2>5, <3>1, <3>3, RemovedFits
  <2>6. CASE \E h \in Removed(f, s.item) : g = Missed(h, s.item)
    BY <2>2, <2>6, MissedFits
  <2>7. CASE s.len \in {"whole", "long"} /\ g \in Committed(f, s)
    BY <2>2, <2>7, CommittedFits
  <2> QED BY <2>4, <2>5, <2>6, <2>7
<1> QED BY <1>1, <1>2

\* The item in turn is opened.
LEMMA OpenedFits ==
  ASSUME arc \in Archives, sel \subseteq Items, Range(answers) \subseteq Answers,
         NEW f, NEW td, Ledger(f, {}, td), td # {}, OldAsked(f), NEW o \in Opened(f, Min(td))
  PROVE  /\ Fits(f, {}, td, o.fs, o.staged, td \ {Min(td)})
         /\ Accounts(f, {}, td, o.fs, o.staged, td \ {Min(td)})
         /\ \A s \in o.staged : s.ok = FALSE
<1>1. PICK t : t = Min(td)
  OBVIOUS
<1>2. t \in td /\ t \in Items /\ Ledger(f, {}, td \ {t})
  BY <1>1, TakeLedger
<1>3. f \in FsType
  BY DEF Ledger
<1>4. arc[t].kind \in Kinds
  BY <1>2, ItemsAre
<1>5. ASSUME NEW g, Grown(f, g), o = [fs |-> g, staged |-> {}],
             t \in Files => t \in sz.passed \/ Accounted(g, t)
      PROVE  /\ Fits(f, {}, td, o.fs, o.staged, td \ {t})
             /\ Accounts(f, {}, td, o.fs, o.staged, td \ {t})
             /\ \A s \in o.staged : s.ok = FALSE
  <2>1. o.fs = g /\ o.staged = {}
    BY <1>5
  <2>2. Ledger(g, {}, td \ {t}) /\ OldAsked(g)
    BY <1>2, <1>5, GrownLedger, GrownAsked
  <2>3. ASSUME AllAccounted(f, {}, td) PROVE AllAccounted(g, {}, td \ {t})
    BY <1>5, <2>3, GrownAll, TakeAll
  <2> QED BY <2>1, <2>2, <2>3 DEF Fits, Accounts
<1>6. CASE o = [fs |-> Missed(f, t), staged |-> {}]
  <2>1. Grown(f, Missed(f, t)) /\ Accounted(Missed(f, t), t)
    BY <1>2, <1>3, MissedGrown DEF Accounted
  <2> QED BY <1>1, <1>5, <1>6, <2>1
<1>7. CASE arc[t].kind = "dir" /\ \E g \in DirMade(f, t) : o = [fs |-> g, staged |-> {}]
  <2>1. t \notin Files
    BY <1>7 DEF Files
  <2> QED BY <1>1, <1>2, <1>3, <1>5, <1>7, <2>1, MadeGrown
<1>8. CASE Policy(f, t) = "skip" /\ o = [fs |-> f, staged |-> {}]
  <2>1. Grown(f, f)
    BY <1>3 DEF Grown, Grows
  <2>2. Accounted(f, t)
    BY <1>8 DEF Accounted, Policy
  <2> QED BY <1>1, <1>5, <1>8, <2>1, <2>2
<1>9. CASE arc[t].kind = "file" /\ Policy(f, t) # "skip"
           /\ o = [fs |-> Created(f, t), staged |-> {Fresh(f, t)}]
  <2>1. t \in Files
    BY <1>2, <1>9 DEF Files
  <2>2. o.fs = Created(f, t) /\ o.staged = {Fresh(f, t)}
    BY <1>9
  <2>3. Ledger(o.fs, o.staged, td \ {t})
    BY <1>1, <1>9, <2>1, <2>2, StageLedger
  <2>4. OldAsked(o.fs)
    BY <1>2, <1>3, <2>2, CreatedIs DEF IsCreated, OldAsked
  <2>5. AllAccounted(f, {}, td) => AllAccounted(o.fs, o.staged, td \ {t})
    BY <1>2, <1>3, <2>2, StageAll
  <2>6. \A s \in o.staged : s.ok = FALSE
    BY <2>2 DEF Fresh
  <2> QED BY <1>1, <2>3, <2>4, <2>5, <2>6 DEF Fits, Accounts
<1>10. CASE t \in sz.passed /\ o = [fs |-> f, staged |-> {}]
  <2>1. Grown(f, f)
    BY <1>3 DEF Grown, Grows
  <2> QED BY <1>1, <1>5, <1>10, <2>1
<1> QED BY <1>1, <1>4, <1>6, <1>7, <1>8, <1>9, <1>10 DEF Opened, Kinds

-----------------------------------------------------------------------------
(***************************************************************************)
(* The invariant, action by action.                                        *)
(***************************************************************************)
\* What was asked for stays, and what a step sets has its type.
Framed ==
    /\ UNCHANGED <<be, arc, sel, sealed, answers>>
    /\ cancel' \in BOOLEAN
    /\ pc' \in {"check", "start", "next", "read", "write", "engine", "item", "close", "done"}
    /\ sz' \in SzType /\ sz.passed \subseteq sz'.passed
    /\ result' \in Results

LEMMA Assembled ==
  ASSUME IInv, Framed, Ledger(fs', staged', todo'), pc' # "check" => OldAsked(fs'), Where',
         Clean' /\ result' \in {"none", "ok"} => AllAccounted(fs', staged', todo')
  PROVE  IInv'
<1>1. arc' = arc /\ sel' = sel /\ answers' = answers
  BY DEF Framed
<1>2. Items' = Items /\ Files' = Files /\ Names' = Names
  BY <1>1 DEF Items, Files, Names
<1>3. FsType' = FsType /\ StagedType' = StagedType
  BY <1>2 DEF FsType, StagedType
<1>8. sz.passed \subseteq sz'.passed
  BY DEF Framed
<1>4. Ledger(fs, staged, todo)'
  <2>1. ItemsOf(staged)' = ItemsOf(staged')
    BY DEF ItemsOf
  <2>2. ASSUME NEW s, Aimed(fs', s) PROVE Aimed(fs, s)'
    BY <1>1, <2>2 DEF Aimed, Allowed, NamesTaken
  <2>3. \A e \in sel \ (todo' \cup sz'.passed) : \A s \in staged' : e <= s.item
    BY <1>8 DEF Ledger
  <2> QED BY <1>1, <1>3, <2>1, <2>2, <2>3 DEF Ledger
<1>5. OldAsked(fs') => OldAsked(fs)'
  BY <1>1, <1>2 DEF OldAsked
<1>6. AllAccounted(fs', staged', todo') => AllAccounted(fs, staged, todo)'
  <2>1. ItemsOf(staged)' = ItemsOf(staged')
    BY DEF ItemsOf
  <2>2. ASSUME NEW e, Accounted(fs', e) PROVE Accounted(fs, e)'
    BY <1>1, <1>2, <2>2 DEF Accounted
  <2> QED BY <1>1, <1>2, <1>8, <2>1, <2>2 DEF AllAccounted
<1>7. Typed'
  BY <1>1, <1>2 DEF Typed, SzType, Framed, IInv
<1> QED BY <1>4, <1>5, <1>6, <1>7 DEF IInv

\* Steps that leave the disk, the staged item and those that wait alone.
LEMMA Untouched ==
  ASSUME IInv, Framed, UNCHANGED <<todo, staged, fs>>, pc' # "check" => pc # "check", Where',
         Clean' => Clean, result' \in {"none", "ok"} => result \in {"none", "ok"}
  PROVE  IInv'
<1>1. Ledger(fs', staged', todo') /\ (pc' # "check" => OldAsked(fs'))
  BY DEF IInv
<1>2. Clean' /\ result' \in {"none", "ok"} => AllAccounted(fs', staged', todo')
  BY DEF IInv
<1> QED BY <1>1, <1>2, Assembled

LEMMA InitInv == Init => IInv
<1> SUFFICES ASSUME Init PROVE IInv
  OBVIOUS
<1>1. arc \in Archives /\ staged = {} /\ todo = sel /\ sel \subseteq Items /\ pc = "check"
      /\ result = "none"
  BY DEF Init
<1>2. PICK O \in SUBSET Olds :
        fs = [disk |-> [p \in Paths |-> IF p \in O THEN Old ELSE None],
              temps |-> {}, live |-> {}, stuck |-> {}, missing |-> {}]
  BY DEF Init
<1>3. fs \in FsType /\ \A p \in Paths : fs.disk[p] \in {Old, None}
  BY <1>2, ContentIs DEF FsType
<1>4. Typed
  <2>1. DOMAIN answers = {}
    BY DEF Init
  <2>2. Range(answers) = {}
    BY <2>1 DEF Range
  <2> QED BY <2>1, <2>2 DEF Init, Typed, SzType, Results
<1>5. Ledger(fs, staged, todo)
  <2>1. ItemsOf({}) = {}
    BY DEF ItemsOf
  <2>2. fs.live = {} /\ fs.temps = {} /\ fs.stuck = {}
    BY <1>2
  <2> QED BY <1>1, <1>3, <2>1, <2>2, KindsDiffer DEF Ledger
<1>6. Where
  BY <1>1 DEF Where, Clean, Init
<1>7. AllAccounted(fs, staged, todo)
  BY <1>1 DEF AllAccounted
<1> QED BY <1>1, <1>4, <1>5, <1>6, <1>7 DEF IInv

LEMMA CheckConflictsInv == IInv /\ CheckConflicts => IInv'
<1> SUFFICES ASSUME IInv, CheckConflicts PROVE IInv'
  OBVIOUS
<1>1. /\ pc = "check" /\ pc' = "start"
      /\ UNCHANGED <<be, arc, sel, sealed, cancel, todo, staged, fs, sz, result>>
  BY DEF CheckConflicts
<1>2. answers' \in [Conflicts -> Answers]
  BY DEF CheckConflicts
<1>3. arc \in Archives /\ staged = {} /\ todo = sel /\ sel \subseteq Items
  BY <1>1 DEF IInv, Typed, Where
<1>4. Conflicts \subseteq Names
  BY <1>3, ItemsAre DEF Conflicts, Names
<1>5. Items' = Items /\ Files' = Files /\ Names' = Names
  BY <1>1 DEF Items, Files, Names
<1>6. Typed'
  <2>1. DOMAIN answers' \subseteq Names /\ Range(answers)' \subseteq Answers
    BY <1>2, <1>4 DEF Range
  <2> QED BY <1>1, <1>5, <2>1 DEF IInv, Typed, SzType
<1>7. Ledger(fs, staged, todo)'
  <2>1. FsType' = FsType /\ StagedType' = StagedType
    BY <1>5 DEF FsType, StagedType
  <2>2. ItemsOf(staged)' = ItemsOf(staged)
    BY <1>1 DEF ItemsOf
  <2>3. Ledger(fs, staged, todo) /\ staged' = {}
    BY <1>1, <1>3 DEF IInv
  <2> QED BY <1>1, <2>1, <2>2, <2>3 DEF Ledger
<1>8. OldAsked(fs)'
  <2> SUFFICES ASSUME NEW e \in Files \cap sel, fs.disk[arc[e].path] = Old
               PROVE  arc[e].name \in DOMAIN answers'
    BY <1>1, <1>5 DEF OldAsked
  <2>1. Exists(fs, arc[e].path)
    BY KindsDiffer DEF Exists
  <2>2. arc[e].name \in Conflicts
    BY <1>3, <2>1 DEF Conflicts
  <2> QED BY <1>2, <2>2
<1>9. Where'
  <2>1. result = "none" /\ Clean /\ sz.passed = {}
    BY <1>1 DEF IInv, Where
  <2> QED BY <1>1, <1>3, <2>1 DEF Where, Clean
<1>10. AllAccounted(fs, staged, todo)'
  BY <1>1, <1>3 DEF AllAccounted
<1> QED BY <1>6, <1>7, <1>8, <1>9, <1>10 DEF IInv

LEMMA CancelInv == IInv /\ Cancel => IInv'
<1> SUFFICES ASSUME IInv, Cancel PROVE IInv'
  OBVIOUS
<1>1. Framed
  BY DEF Cancel, Framed, IInv, Typed
<1>2. Where'
  BY DEF Cancel, IInv, Where, Clean
<1> QED BY <1>1, <1>2, Untouched DEF Cancel, Clean

LEMMA AlienWritesInv == IInv /\ AlienWrites => IInv'
<1> SUFFICES ASSUME IInv, AlienWrites PROVE IInv'
  OBVIOUS
<1>1. Framed
  BY DEF AlienWrites, Framed, IInv, Typed
<1>2. Grown(fs, fs') /\ fs'.missing = fs.missing
  <2>1. PICK p \in Paths : ~Exists(fs, p) /\ fs' = [fs EXCEPT !.disk[p] = Alien]
    BY DEF AlienWrites
  <2>2. fs \in FsType
    BY DEF IInv, Ledger
  <2>3. fs' = [fs EXCEPT !.disk = [fs.disk EXCEPT ![p] = Alien]]
    BY <2>1, <2>2 DEF FsType
  <2>4. fs' \in FsType
    BY <2>2, <2>3, ContentIs DEF FsType
  <2> QED BY <2>1, <2>2, <2>3, <2>4 DEF Grown, Grows, FsType, Exists
<1>3. Where'
  BY <1>2 DEF AlienWrites, IInv, Where, Clean
<1>4. arc \in Archives
  BY DEF IInv, Typed
<1>5. UNCHANGED <<pc, staged, todo, sz, result>>
  BY DEF AlienWrites
<1>6. Ledger(fs', staged', todo')
  BY <1>2, <1>5, GrownLedger DEF IInv
<1>7. pc' # "check" => OldAsked(fs')
  BY <1>2, <1>4, <1>5, GrownAsked DEF IInv
<1>8. Clean' /\ result' \in {"none", "ok"} => AllAccounted(fs', staged', todo')
  BY <1>2, <1>4, <1>5, GrownAll DEF IInv, Clean
<1> QED BY <1>1, <1>3, <1>6, <1>7, <1>8, Assembled

\* What holds of every state.
LEMMA Here ==
  ASSUME IInv
  PROVE  /\ arc \in Archives /\ sel \subseteq Items /\ Range(answers) \subseteq Answers
         /\ sz \in SzType
         /\ Ledger(fs, staged, todo) /\ fs \in FsType /\ Where
         /\ pc # "done" => result = "none"
         /\ pc # "check" => OldAsked(fs)
         /\ pc # "done" /\ Clean => AllAccounted(fs, staged, todo)
BY DEF IInv, Typed, Ledger, Where

\* The Rust engines know no 7z.dll: nothing it could say has been said.
LEMMA RustHere ==
  ASSUME IInv, Rust, pc # "done"
  PROVE  Clean /\ sz.passed = {} /\ AllAccounted(fs, staged, todo) /\ (pc = "next" => staged = {})
BY Here DEF Where, Rust

LEMMA StartInv == IInv /\ Start => IInv'
<1> SUFFICES ASSUME IInv, Start PROVE IInv'
  OBVIOUS
<1>1. Framed
  BY DEF Start, End, Framed, IInv, Typed, Results
<1>2. Where'
  BY DEF Start, End, IInv, Where, Clean
<1>3. pc' # "check" => pc # "check"
  BY DEF Start
<1>4. result = "none"
  BY Here DEF Start
<1> QED BY <1>1, <1>2, <1>3, <1>4, Untouched DEF Start, Clean

\* The items that are chosen or that are not known are passed over together.
LEMMA NoneWait ==
  ASSUME NEW f, NEW td, Ledger(f, {}, td)
  PROVE  Ledger(f, {}, {})
<1>1. ItemsOf({}) = {} /\ f.live = {} /\ f.temps \ f.stuck = {}
  BY DEF Ledger, ItemsOf
<1> QED BY <1>1 DEF Ledger

LEMMA StartUncountedInv == IInv /\ StartUncounted => IInv'
<1> SUFFICES ASSUME IInv, StartUncounted PROVE IInv'
  OBVIOUS
<1>1. /\ pc = "start" /\ be = "7z" /\ pc' = "engine" /\ sz' = [sz EXCEPT !.passed = sel]
      /\ todo' \in {{}, todo}
      /\ UNCHANGED <<be, arc, sel, sealed, answers, cancel, staged, fs, result>>
  BY DEF StartUncounted
<1>2. /\ sz \in SzType /\ sel \subseteq Items /\ Ledger(fs, staged, todo) /\ OldAsked(fs)
      /\ staged = {} /\ sz.passed = {} /\ result = "none"
  BY <1>1, Here DEF Where
<1>3. sz' \in SzType /\ sz'.passed = sel
  BY <1>1, <1>2 DEF SzType
<1>4. Framed
  BY <1>1, <1>2, <1>3 DEF Framed, IInv, Typed
<1>5. Ledger(fs', staged', todo') /\ OldAsked(fs')
  BY <1>1, <1>2, NoneWait
<1>6. Where'
  BY <1>1, <1>2, <1>3 DEF Where
<1>7. Items' = Items /\ Files' = Files /\ FsType' = FsType /\ StagedType' = StagedType
  BY <1>1 DEF Items, Files, FsType, StagedType
<1>8. Ledger(fs, staged, todo)'
  BY <1>1, <1>2, <1>3, <1>5, <1>7 DEF Ledger, ItemsOf
<1>9. AllAccounted(fs, staged, todo)'
  BY <1>1, <1>3 DEF AllAccounted
<1>10. OldAsked(fs)' /\ Typed'
  BY <1>1, <1>2, <1>3, <1>4, <1>7 DEF OldAsked, Typed, SzType, Framed, IInv, Names, Items
<1> QED BY <1>6, <1>8, <1>9, <1>10 DEF IInv

LEMMA CanceledBetweenInv == IInv /\ CanceledBetween => IInv'
<1> SUFFICES ASSUME IInv, CanceledBetween PROVE IInv'
  OBVIOUS
<1>1. Framed
  BY DEF CanceledBetween, End, Framed, IInv, Typed, Results
<1>2. Where'
  BY DEF CanceledBetween, End, IInv, Where, Clean
<1> QED BY <1>1, <1>2, Untouched DEF CanceledBetween, End, Clean

\* A turn that stages nothing: what it makes of the disk has only grown.
LEMMA TurnInv ==
  ASSUME IInv, Framed, Rust, pc = "next", todo # {}, todo' = todo \ {Turn}, Grown(fs, fs'),
         Turn \in Files => Accounted(fs', Turn), UNCHANGED <<pc, staged, sz, result>>
  PROVE  IInv'
<1>1. staged = {} /\ arc \in Archives /\ sel \subseteq Items /\ AllAccounted(fs, {}, todo)
      /\ Ledger(fs, {}, todo) /\ OldAsked(fs) /\ result = "none" /\ Clean
  BY Here, RustHere
<1>2. Ledger(fs', {}, todo)
  BY <1>1, GrownLedger
<1>3. Ledger(fs', {}, todo') /\ OldAsked(fs')
  BY <1>1, <1>2, TakeLedger, GrownAsked DEF Turn
<1>4. AllAccounted(fs', {}, todo')
  <2>1. AllAccounted(fs', {}, todo)
    BY <1>1, GrownAll
  <2> QED BY <2>1, TakeAll
<1>5. Where'
  BY <1>1, Here DEF Where, Clean, Framed
<1> QED BY <1>1, <1>3, <1>4, <1>5, Assembled

LEMMA TurnIs ==
  ASSUME IInv, Rust, pc = "next", todo # {}
  PROVE  Turn \in Items /\ staged = {}
<1>1. staged = {} /\ arc \in Archives /\ sel \subseteq Items /\ Ledger(fs, {}, todo)
  BY Here, RustHere
<1> QED BY <1>1, TakeLedger DEF Turn

LEMMA RefuseUnsafeInv == IInv /\ RefuseUnsafe => IInv'
<1> SUFFICES ASSUME IInv, RefuseUnsafe PROVE IInv'
  OBVIOUS
<1>1. Framed
  BY DEF RefuseUnsafe, End, Framed, IInv, Typed, Results
<1>2. CASE fs' = Missed(fs, Turn) /\ todo' = todo \ {Turn} /\ UNCHANGED <<pc, result>>
  <2>1. Turn \in Items /\ Turn \notin Files
    BY TurnIs DEF RefuseUnsafe, Files
  <2>2. Grown(fs, fs')
    BY <1>2, <2>1, MissedGrown, Here
  <2> QED BY <1>1, <1>2, <2>1, <2>2, TurnInv DEF RefuseUnsafe
<1>3. CASE End("failed") /\ UNCHANGED <<fs, todo>>
  <2>1. Where'
    BY <1>3 DEF RefuseUnsafe, End, IInv, Where, Clean
  <2> QED BY <1>1, <1>3, <2>1, Untouched DEF RefuseUnsafe, End, Clean
<1> QED BY <1>2, <1>3 DEF RefuseUnsafe

LEMMA MakeDirInv == IInv /\ MakeDir => IInv'
<1> SUFFICES ASSUME IInv, MakeDir PROVE IInv'
  OBVIOUS
<1>1. Framed
  BY DEF MakeDir, Framed, IInv, Typed
<1>2. Turn \in Items /\ Turn \notin Files
  BY TurnIs DEF MakeDir, Files
<1>3. Grown(fs, fs')
  BY <1>2, MadeGrown, Here DEF MakeDir
<1> QED BY <1>1, <1>2, <1>3, TurnInv DEF MakeDir

LEMMA SkipItemInv == IInv /\ SkipItem => IInv'
<1> SUFFICES ASSUME IInv, SkipItem PROVE IInv'
  OBVIOUS
<1>1. Framed
  BY DEF SkipItem, Framed, IInv, Typed
<1>2. Grown(fs, fs')
  BY Here DEF SkipItem, Grown, Grows
<1>3. Accounted(fs', Turn)
  BY DEF SkipItem, Accounted, Policy
<1> QED BY <1>1, <1>2, <1>3, TurnInv DEF SkipItem

LEMMA StageItemInv == IInv /\ StageItem => IInv'
<1> SUFFICES ASSUME IInv, StageItem PROVE IInv'
  OBVIOUS
<1>1. Framed
  BY DEF StageItem, End, Framed, IInv, Typed, Results
<1>2. Rust /\ pc = "next" /\ todo # {} /\ todo' = todo \ {Turn} /\ UNCHANGED sz
  BY DEF StageItem
<1>3. Turn \in Items /\ staged = {}
  BY <1>2, TurnIs
<1>4. Turn \in Files
  BY <1>3 DEF StageItem, Files
<1>5. arc \in Archives /\ sel \subseteq Items /\ Range(answers) \subseteq Answers /\ fs \in FsType
      /\ Ledger(fs, {}, todo) /\ OldAsked(fs) /\ result = "none"
  BY <1>2, <1>3, Here
<1>6. Clean /\ sz.passed = {} /\ AllAccounted(fs, {}, todo)
  BY <1>2, <1>3, RustHere
<1>7. CASE staged' = {Fresh(fs, Turn)} /\ fs' = Created(fs, Turn) /\ pc' = "read"
           /\ UNCHANGED result
  <2>1. Ledger(fs', staged', todo')
    BY <1>2, <1>4, <1>5, <1>7, StageLedger DEF StageItem, Turn
  <2>2. OldAsked(fs')
    BY <1>3, <1>5, <1>7, CreatedIs DEF IsCreated, OldAsked
  <2>3. AllAccounted(fs', staged', todo')
    BY <1>2, <1>3, <1>5, <1>6, <1>7, StageAll
  <2>4. Where'
    BY <1>2, <1>5, <1>6, <1>7, Here DEF Where, Clean, Rust, Framed, StageItem
  <2> QED BY <1>1, <2>1, <2>2, <2>3, <2>4, Assembled
<1>8. CASE fs' = Missed(fs, Turn) /\ UNCHANGED <<pc, staged, result>>
  <2>1. Grown(fs, fs') /\ Accounted(fs', Turn)
    BY <1>3, <1>5, <1>8, MissedGrown DEF Accounted
  <2> QED BY <1>1, <1>2, <1>8, <2>1, TurnInv
<1>9. ASSUME NEW r \in {"failed", "password"}, End(r), UNCHANGED <<fs, staged>> PROVE IInv'
  <2>1. Ledger(fs', staged', todo') /\ OldAsked(fs')
    BY <1>2, <1>3, <1>5, <1>9, TakeLedger DEF Turn
  <2>2. Where'
    BY <1>2, <1>3, <1>5, <1>6, <1>9 DEF Where, Clean, Rust, Framed, StageItem, End
  <2> QED BY <1>1, <1>9, <2>1, <2>2, Assembled DEF End
<1> QED BY <1>7, <1>8, <1>9 DEF StageItem

\* What holds while a Rust engine writes an item.
LEMMA WithinHere ==
  ASSUME IInv, pc \in {"read", "write"}
  PROVE  /\ be # "7z" /\ Clean /\ sz.passed = {} /\ AllAccounted(fs, staged, todo) /\ result = "none"
         /\ Ledger(fs, staged, todo) /\ OldAsked(fs) /\ arc \in Archives
         /\ \A s \in staged : staged = {s} /\ s \in StagedType
<1>1. \A s \in staged : staged = {s} /\ s \in StagedType
  BY Here DEF Ledger
<1> QED BY <1>1, Here DEF Where

\* The item is broken off: it is missing and the next one has its turn, or the
\* job is over.
LEMMA BreakInv ==
  ASSUME IInv, Framed, pc \in {"read", "write"}, UNCHANGED <<todo, sz>>, staged' = {},
         NEW s \in staged, NEW f \in Removed(fs, s.item),
         \/ fs' = Missed(f, s.item) /\ pc' = "next" /\ UNCHANGED result
         \/ fs' = f /\ pc' = "done" /\ result' \in {"canceled", "failed", "password"}
  PROVE  IInv'
<1>1. /\ be # "7z" /\ Clean /\ sz.passed = {} /\ AllAccounted(fs, {s}, todo) /\ result = "none"
      /\ Ledger(fs, {s}, todo) /\ OldAsked(fs) /\ arc \in Archives
  BY WithinHere
<1>2. Ledger(f, {}, todo) /\ OldAsked(f)
  BY <1>1, RemovedFits DEF Fits
<1>3. /\ Ledger(Missed(f, s.item), {}, todo) /\ OldAsked(Missed(f, s.item))
      /\ AllAccounted(Missed(f, s.item), {}, todo)
  BY <1>1, MissedFits DEF Fits, Accounts
<1>4. Ledger(fs', staged', todo') /\ OldAsked(fs')
  BY <1>2, <1>3
<1>5. Clean' /\ result' \in {"none", "ok"} => AllAccounted(fs', staged', todo')
  BY <1>3
<1>6. Where'
  BY <1>1 DEF Where, Clean, Framed
<1> QED BY <1>4, <1>5, <1>6, Assembled

LEMMA CanceledWithinInv == IInv /\ CanceledWithin => IInv'
<1> SUFFICES ASSUME IInv, CanceledWithin PROVE IInv'
  OBVIOUS
<1>1. Framed
  BY DEF CanceledWithin, End, Framed, IInv, Typed, Results
<1> QED BY <1>1, BreakInv DEF CanceledWithin, End

LEMMA DecodeChunkInv == IInv /\ DecodeChunk => IInv'
<1> SUFFICES ASSUME IInv, DecodeChunk PROVE IInv'
  OBVIOUS
<1>1. Framed
  BY DEF DecodeChunk, Framed, IInv, Typed
<1>2. PICK s \in staged : s.n < Chunks /\ staged' = {[s EXCEPT !.n = @ + 1]}
  BY DEF DecodeChunk
<1>3. /\ be # "7z" /\ Clean /\ sz.passed = {} /\ AllAccounted(fs, {s}, todo) /\ result = "none"
      /\ Ledger(fs, {s}, todo) /\ OldAsked(fs) /\ s \in StagedType
  BY WithinHere DEF DecodeChunk
<1>4. PICK u : u = [s EXCEPT !.n = @ + 1]
  OBVIOUS
<1>5. u \in StagedType /\ u.item = s.item /\ u.goal = s.goal
  <2>1. s.n \in 0 .. Chunks /\ Chunks \in Nat
    BY <1>3, ArchivesAssumption DEF StagedType
  <2>2. s.n + 1 \in 0 .. Chunks
    BY <1>2, <2>1
  <2> QED BY <1>3, <1>4, <2>2 DEF StagedType
<1>6. Ledger(fs, {u}, todo) /\ AllAccounted(fs, {u}, todo)
  BY <1>3, <1>5, UpdateLedger, UpdateAll
<1>7. UNCHANGED <<todo, fs, sz, result>> /\ staged' = {u} /\ pc' = "write"
  BY <1>2, <1>4 DEF DecodeChunk
<1>8. Where'
  BY <1>1, <1>3, <1>7 DEF Where, Clean, Framed
<1> QED BY <1>1, <1>3, <1>6, <1>7, <1>8, Assembled

LEMMA WriteChunkInv == IInv /\ WriteChunk => IInv'
<1> SUFFICES ASSUME IInv, WriteChunk PROVE IInv'
  OBVIOUS
<1>1. Framed
  BY DEF WriteChunk, Framed, IInv, Typed
<1>2. Where'
  BY DEF WriteChunk, IInv, Where, Clean
<1> QED BY <1>1, <1>2, Untouched DEF WriteChunk, Clean

LEMMA BrokeInv == IInv /\ Broke => IInv'
<1> SUFFICES ASSUME IInv, Broke PROVE IInv'
  OBVIOUS
<1>1. pc \in {"read", "write"} /\ UNCHANGED <<be, arc, sel, sealed, answers, cancel, todo, sz>>
      /\ staged' = {}
  BY DEF Broke
<1>2. \E s \in staged : \E f \in Removed(fs, s.item) :
         \/ be = "egg" /\ cancel /\ fs' = f /\ End("canceled")
         \/ \E b \in IF be = "zip" THEN {"missed"} ELSE Breaks :
             /\ be = "egg" => ~cancel
             /\ \/ b = "missed" /\ fs' = Missed(f, s.item) /\ pc' = "next" /\ UNCHANGED result
                \/ b # "missed" /\ fs' = f /\ End(b)
  BY DEF Broke
<1>3. \A b \in IF be = "zip" THEN {"missed"} ELSE Breaks : b \in {"missed", "failed", "password"}
  BY DEF Breaks
<1>4. PICK s \in staged : \E f \in Removed(fs, s.item) :
         \/ fs' = Missed(f, s.item) /\ pc' = "next" /\ UNCHANGED result
         \/ fs' = f /\ pc' = "done" /\ result' \in {"canceled", "failed", "password"}
  BY <1>2, <1>3 DEF End
<1>5. Framed
  BY <1>1, <1>4 DEF Framed, IInv, Typed, Results
<1> QED BY <1>1, <1>4, <1>5, BreakInv

LEMMA EndOfItemInv == IInv /\ EndOfItem => IInv'
<1> SUFFICES ASSUME IInv, EndOfItem PROVE IInv'
  OBVIOUS
<1>1. pc \in {"read", "write"} /\ UNCHANGED <<be, arc, sel, sealed, answers, cancel, todo, sz>>
      /\ staged' = {}
  BY DEF EndOfItem
<1>2. PICK s \in staged, len \in {"short", "whole", "long"} :
         \/ /\ len = "whole"
            /\ fs' \in Committed(fs, [s EXCEPT !.len = len])
            /\ pc' = "next" /\ UNCHANGED result
         \/ /\ len # "whole"
            /\ \E f \in Removed(fs, s.item) : fs' = Missed(f, s.item)
            /\ pc' = "next" /\ UNCHANGED result
         \/ /\ len = "whole"
            /\ \E f \in Removed(fs, s.item) :
                 \/ be = "zip" /\ fs' = Missed(f, s.item) /\ pc' = "next" /\ UNCHANGED result
                 \/ be = "egg" /\ fs' = f /\ End("failed")
  BY DEF EndOfItem
<1>3. Framed
  BY <1>1, <1>2 DEF End, Framed, IInv, Typed, Results
<1>4. CASE \E f \in Removed(fs, s.item) :
             \/ fs' = Missed(f, s.item) /\ pc' = "next" /\ UNCHANGED result
             \/ fs' = f /\ pc' = "done" /\ result' \in {"canceled", "failed", "password"}
  BY <1>1, <1>3, <1>4, BreakInv
<1>5. CASE len = "whole" /\ fs' \in Committed(fs, [s EXCEPT !.len = len]) /\ pc' = "next"
           /\ UNCHANGED result
  <2>1. /\ be # "7z" /\ Clean /\ sz.passed = {} /\ AllAccounted(fs, {s}, todo) /\ result = "none"
        /\ Ledger(fs, {s}, todo) /\ OldAsked(fs) /\ arc \in Archives /\ s \in StagedType
    BY <1>1, WithinHere
  <2>2. PICK u : u = [s EXCEPT !.len = len]
    OBVIOUS
  <2>3. u \in StagedType /\ u.item = s.item /\ u.goal = s.goal /\ u.len = "whole"
    BY <1>5, <2>1, <2>2 DEF StagedType
  <2>4. Ledger(fs, {u}, todo) /\ AllAccounted(fs, {u}, todo)
    BY <2>1, <2>3, UpdateLedger, UpdateAll
  <2>5. fs' \in Committed(fs, u)
    BY <1>5, <2>2
  <2>6. Ledger(fs', {}, todo) /\ OldAsked(fs') /\ AllAccounted(fs', {}, todo)
    BY <2>1, <2>3, <2>4, <2>5, CommittedFits DEF Fits, Accounts
  <2>7. Where'
    BY <1>1, <1>5, <2>1 DEF Where, Clean
  <2> QED BY <1>1, <1>3, <2>6, <2>7, Assembled
<1>6. \/ \E f \in Removed(fs, s.item) :
             \/ fs' = Missed(f, s.item) /\ pc' = "next" /\ UNCHANGED result
             \/ fs' = f /\ pc' = "done" /\ result' \in {"canceled", "failed", "password"}
      \/ len = "whole" /\ fs' \in Committed(fs, [s EXCEPT !.len = len]) /\ pc' = "next"
         /\ UNCHANGED result
  BY <1>2 DEF End
<1> QED BY <1>4, <1>5, <1>6

LEMMA FinishAllInv == IInv /\ FinishAll => IInv'
<1> SUFFICES ASSUME IInv, FinishAll PROVE IInv'
  OBVIOUS
<1>1. Framed
  BY DEF FinishAll, End, FinishWith, Framed, IInv, Typed, Results
<1>2. Clean /\ staged = {} /\ result = "none"
  BY Here, RustHere DEF FinishAll
<1>3. Where'
  BY <1>2 DEF FinishAll, End, FinishWith, IInv, Where, Clean
<1> QED BY <1>1, <1>2, <1>3, Untouched DEF FinishAll, Clean

LEMMA GetStreamInv == IInv /\ GetStream => IInv'
<1> SUFFICES ASSUME IInv, GetStream PROVE IInv'
  OBVIOUS
<1>1. pc = "engine" /\ todo # {} /\ UNCHANGED <<be, arc, sel, sealed, answers, cancel, result>>
  BY DEF GetStream
<1>2. /\ arc \in Archives /\ sel \subseteq Items /\ Range(answers) \subseteq Answers
      /\ sz \in SzType
      /\ Ledger(fs, staged, todo) /\ OldAsked(fs) /\ result = "none"
      /\ Clean => AllAccounted(fs, staged, todo)
  BY <1>1, Here
<1>3. be = "7z" /\ (Clean => \A s \in staged : s.ok = TRUE \/ s.item \in sz.passed)
  BY <1>1, Here DEF Where
<1>4. PICK f \in Settled(fs) :
        \/ /\ cancel
           /\ fs' = f /\ staged' = {}
           /\ sz' = [sz EXCEPT !.aborted = TRUE, !.hr = FALSE]
           /\ pc' = "close" /\ UNCHANGED todo
        \/ /\ ~cancel
           /\ pc' = "item" /\ todo' = todo \ {Turn}
           /\ \E o \in Opened(f, Turn) : fs' = o.fs /\ staged' = o.staged
           /\ UNCHANGED sz
  BY DEF GetStream
<1>5. Ledger(f, {}, todo) /\ OldAsked(f) /\ (Clean => AllAccounted(f, {}, todo))
  BY <1>2, <1>3, SettledFits DEF Fits, Accounts
<1>6. Framed
  <2>1. sz' \in SzType /\ sz'.passed = sz.passed
    BY <1>2, <1>4 DEF SzType
  <2> QED BY <1>1, <1>2, <1>4, <2>1 DEF Framed, IInv, Typed
<1>7. CASE fs' = f /\ staged' = {} /\ sz' = [sz EXCEPT !.aborted = TRUE, !.hr = FALSE]
           /\ pc' = "close" /\ UNCHANGED todo
  <2>1. ~Clean'
    BY <1>2, <1>7 DEF Clean
  <2>2. Where'
    BY <1>1, <1>2, <1>3, <1>7, <2>1 DEF Where
  <2> QED BY <1>5, <1>6, <1>7, <2>1, <2>2, Assembled
<1>8. CASE pc' = "item" /\ todo' = todo \ {Turn} /\ UNCHANGED sz
           /\ \E o \in Opened(f, Turn) : fs' = o.fs /\ staged' = o.staged
  <2>1. PICK o \in Opened(f, Turn) : fs' = o.fs /\ staged' = o.staged
    BY <1>8
  <2>2. Ledger(fs', staged', todo') /\ OldAsked(fs')
        /\ (AllAccounted(f, {}, todo) => AllAccounted(fs', staged', todo'))
    BY <1>1, <1>2, <1>5, <1>8, <2>1, OpenedFits DEF Fits, Accounts, Turn
  <2>3. Clean' => Clean
    BY <1>8 DEF Clean
  <2>4. Where'
    BY <1>1, <1>2, <1>3, <1>8 DEF Where
  <2> QED BY <1>5, <1>6, <2>2, <2>3, <2>4, Assembled
<1> QED BY <1>4, <1>7, <1>8

LEMMA SetOperationResultInv == IInv /\ SetOperationResult => IInv'
<1> SUFFICES ASSUME IInv, SetOperationResult PROVE IInv'
  OBVIOUS
<1>1. pc = "item" /\ pc' = "engine"
      /\ UNCHANGED <<be, arc, sel, sealed, answers, cancel, todo, fs, result>>
  BY DEF SetOperationResult
<1>2. PICK done \in BOOLEAN, len \in {"short", "whole", "long"} :
        /\ sz' = [sz EXCEPT !.op = @ \/ ~done]
        /\ staged' = {[s EXCEPT !.ok = done, !.len = IF done THEN len ELSE @] : s \in staged}
  BY DEF SetOperationResult
<1>3. /\ sz \in SzType
      /\ Ledger(fs, staged, todo) /\ OldAsked(fs) /\ result = "none"
      /\ Clean => AllAccounted(fs, staged, todo)
  BY <1>1, Here
<1>4. be = "7z"
  BY <1>1, Here DEF IInv, Where
<1>5. sz' \in SzType /\ sz'.passed = sz.passed
      /\ (Clean' => Clean /\ done = TRUE)
  BY <1>2, <1>3 DEF Clean, SzType
<1>6. Framed
  BY <1>1, <1>5 DEF Framed, IInv, Typed
<1>7. /\ Ledger(fs, staged', todo)
      /\ AllAccounted(fs, staged, todo) => AllAccounted(fs, staged', todo)
      /\ \A u \in staged' : u.ok = done
  <2>1. CASE staged = {}
    <3>1. staged' = {}
      BY <1>2, <2>1
    <3> QED BY <1>3, <2>1, <3>1
  <2>2. CASE staged # {}
    <3>1. PICK s : s \in staged
      BY <2>2
    <3>2. staged = {s} /\ s \in StagedType
      BY <1>3, <3>1 DEF Ledger
    <3>3. PICK u : u = [s EXCEPT !.ok = done, !.len = IF done THEN len ELSE @]
      OBVIOUS
    <3>4. u \in StagedType /\ u.item = s.item /\ u.goal = s.goal /\ u.ok = done
      BY <3>2, <3>3 DEF StagedType
    <3>5. staged' = {u}
      BY <1>2, <3>2, <3>3
    <3> QED BY <1>3, <3>2, <3>4, <3>5, UpdateLedger, UpdateAll
  <2> QED BY <2>1, <2>2
<1>8. Where'
  BY <1>1, <1>3, <1>4, <1>5, <1>7 DEF Where
<1>9. Ledger(fs', staged', todo') /\ OldAsked(fs')
      /\ (Clean' => AllAccounted(fs', staged', todo'))
  BY <1>1, <1>3, <1>5, <1>7
<1> QED BY <1>6, <1>8, <1>9, Assembled

\* An item passed over is asked for no longer; the one before it keeps its place
\* in the order of those that are.
LEMMA PassOverInv == IInv /\ PassOver => IInv'
<1> SUFFICES ASSUME IInv, PassOver PROVE IInv'
  OBVIOUS
<1>1. /\ pc = "engine" /\ pc' = "engine" /\ todo # {} /\ todo' = todo \ {Turn}
      /\ sz' = [sz EXCEPT !.passed = @ \cup {Turn}]
      /\ UNCHANGED <<be, arc, sel, sealed, answers, cancel, staged, fs, result>>
  BY DEF PassOver
<1>2. /\ arc \in Archives /\ sel \subseteq Items /\ sz \in SzType /\ fs \in FsType
      /\ Ledger(fs, staged, todo) /\ OldAsked(fs) /\ result = "none" /\ be = "7z"
      /\ Clean => AllAccounted(fs, staged, todo)
      /\ Clean => \A s \in staged : s.ok = TRUE \/ s.item \in sz.passed
  BY <1>1, Here DEF Where
<1>3. Turn \in Items /\ \A t \in todo : Turn <= t
  <2>1. PICK n \in Nat : Items = 1 .. n
    BY <1>2, ItemsAre
  <2>2. todo \in SUBSET (Nat \ {0}) /\ todo \subseteq 1 .. n
    BY <1>2, <2>1 DEF Ledger
  <2>3. Min(todo) \in todo /\ \A t \in todo : Min(todo) <= t
    BY <1>1, <2>1, <2>2, LeastIs
  <2> QED BY <2>1, <2>2, <2>3 DEF Turn
<1>4. sz' \in SzType /\ sz'.passed = sz.passed \cup {Turn} /\ (Clean' <=> Clean)
  BY <1>1, <1>2, <1>3 DEF SzType, Clean
<1>5. Framed
  BY <1>1, <1>2, <1>4 DEF Framed, IInv, Typed
<1>6. Where'
  BY <1>1, <1>2, <1>4 DEF Where
<1>7. Items' = Items /\ Files' = Files /\ FsType' = FsType /\ StagedType' = StagedType
  BY <1>1 DEF Items, Files, FsType, StagedType
<1>8. Ledger(fs, staged, todo)'
  <2>1. \A e \in sel \ todo' : \A t \in todo' : e < t
    <3> SUFFICES ASSUME NEW e \in sel \ todo', NEW t \in todo' PROVE e < t
      OBVIOUS
    <3>1. t \in todo /\ t # Turn /\ t \in Nat /\ Turn \in Nat
      BY <1>1, <1>2, <1>3, ItemsAre DEF Ledger
    <3>2. Turn <= t
      BY <1>3, <3>1
    <3>3. CASE e = Turn
      BY <3>1, <3>2, <3>3
    <3>4. CASE e # Turn
      BY <1>1, <1>2, <3>1, <3>4 DEF Ledger
    <3> QED BY <3>3, <3>4
  <2>2. \A e \in sel \ (todo' \cup sz'.passed) : \A s \in staged : e <= s.item
    BY <1>1, <1>2, <1>4 DEF Ledger
  <2>3. (fs.temps \cup fs.stuck) \cap todo' = {} /\ ItemsOf(staged) \subseteq sel \ todo'
        /\ todo' \subseteq sel
    BY <1>1, <1>2 DEF Ledger
  <2>4. ItemsOf(staged)' = ItemsOf(staged)
    BY <1>1 DEF ItemsOf
  <2>5. \A s \in staged : Aimed(fs, s)'
    BY <1>1, <1>2 DEF Ledger, Aimed, Allowed, NamesTaken
  <2>6. /\ fs \in FsType /\ staged \subseteq StagedType /\ \A x, y \in staged : x = y
        /\ fs.live = ItemsOf(staged) /\ fs.temps \ fs.stuck = ItemsOf(staged)
        /\ \A p \in Paths : fs.disk[p] # Torn
    BY <1>2 DEF Ledger
  <2>7. fs' = fs /\ staged' = staged /\ sel' = sel
    BY <1>1
  <2> QED BY <1>7, <2>1, <2>2, <2>3, <2>4, <2>5, <2>6, <2>7 DEF Ledger
<1>9. Clean => AllAccounted(fs, staged, todo)'
  <2>1. ItemsOf(staged)' = ItemsOf(staged)
    BY <1>1 DEF ItemsOf
  <2>2. ASSUME NEW e, Accounted(fs, e) PROVE Accounted(fs, e)'
    BY <1>1, <1>7, <2>2 DEF Accounted
  <2> QED BY <1>1, <1>2, <1>4, <1>7, <2>1, <2>2 DEF AllAccounted
<1>10. OldAsked(fs)' /\ Typed'
  BY <1>1, <1>2, <1>4, <1>5, <1>7 DEF OldAsked, Typed, SzType, Framed, IInv, Names, Items
<1> QED BY <1>4, <1>6, <1>8, <1>9, <1>10 DEF IInv

\* Of the staged item nobody will know whether it is good.
LEMMA NoResultInv == IInv /\ NoResult => IInv'
<1> SUFFICES ASSUME IInv, NoResult PROVE IInv'
  OBVIOUS
<1>1. /\ pc = "item" /\ pc' = "engine" /\ sz' = [sz EXCEPT !.passed = @ \cup ItemsOf(staged)]
      /\ UNCHANGED <<be, arc, sel, sealed, answers, cancel, todo, staged, fs, result>>
  BY DEF NoResult, ItemsOf
<1>2. /\ sel \subseteq Items /\ sz \in SzType /\ Ledger(fs, staged, todo) /\ OldAsked(fs)
      /\ result = "none" /\ be = "7z"
  BY <1>1, Here DEF Where
<1>3. ItemsOf(staged) \subseteq Items
  BY <1>2 DEF Ledger
<1>4. sz' \in SzType /\ sz'.passed = sz.passed \cup ItemsOf(staged) /\ (Clean' <=> Clean)
  BY <1>1, <1>2, <1>3 DEF SzType, Clean
<1>5. \A s \in staged : s.item \in sz'.passed
  BY <1>4 DEF ItemsOf
<1>6. Framed
  BY <1>1, <1>2, <1>4 DEF Framed, IInv, Typed
<1>7. Where'
  BY <1>1, <1>2, <1>5 DEF Where
<1> QED BY <1>1, <1>2, <1>4, <1>6, <1>7, Untouched

LEMMA SetCompletedInv == IInv /\ SetCompleted => IInv'
<1> SUFFICES ASSUME IInv, SetCompleted PROVE IInv'
  OBVIOUS
<1>1. sz' \in SzType /\ sz'.passed = sz.passed /\ ~Clean'
  BY Here DEF SetCompleted, Clean, SzType
<1>2. Framed
  BY <1>1 DEF SetCompleted, Framed, IInv, Typed
<1>3. Where'
  BY <1>1 DEF SetCompleted, IInv, Where
<1> QED BY <1>1, <1>2, <1>3, Untouched DEF SetCompleted

LEMMA EngineReturnsInv == IInv /\ EngineReturns => IInv'
<1> SUFFICES ASSUME IInv, EngineReturns PROVE IInv'
  OBVIOUS
<1>1. sz' \in SzType /\ sz'.passed = sz.passed
      /\ (Clean' => Clean /\ pc = "engine" /\ todo = {})
  BY Here DEF EngineReturns, Clean, SzType
<1>2. Framed
  BY <1>1 DEF EngineReturns, Framed, IInv, Typed
<1>3. Where'
  BY <1>1 DEF EngineReturns, IInv, Where
<1> QED BY <1>1, <1>2, <1>3, Untouched DEF EngineReturns

LEMMA ConcludeInv == IInv /\ Conclude => IInv'
<1> SUFFICES ASSUME IInv, Conclude PROVE IInv'
  OBVIOUS
<1>1. /\ pc = "close" /\ pc' = "done" /\ fs' \in Settled(fs) /\ staged' = {}
      /\ UNCHANGED <<be, arc, sel, sealed, answers, cancel, todo, sz>>
  BY DEF Conclude, End
<1>2. /\ arc \in Archives /\ Ledger(fs, staged, todo) /\ OldAsked(fs) /\ result = "none"
      /\ sz \in SzType
      /\ Clean => /\ AllAccounted(fs, staged, todo) /\ todo = {}
                  /\ \A s \in staged : s.ok = TRUE \/ s.item \in sz.passed
  BY <1>1, Here DEF Where
<1>3. \/ result' \in {"canceled", "failed", "password", "warning"}
      \/ result' = "ok" /\ Clean /\ fs'.missing = {}
  BY <1>2 DEF Conclude, End, Blamed, FinishWith, Clean
<1>4. Framed
  BY <1>1, <1>3 DEF Framed, IInv, Typed, Results
<1>5. Ledger(fs', {}, todo) /\ OldAsked(fs') /\ (Clean => AllAccounted(fs', {}, todo))
  BY <1>1, <1>2, SettledFits DEF Fits, Accounts
<1>6. Clean' <=> Clean
  BY <1>1 DEF Clean
<1>7. Where'
  BY <1>1, <1>2, <1>3, <1>6, Here DEF Where
<1> QED BY <1>1, <1>4, <1>5, <1>6, <1>7, Assembled

LEMMA NextInv == IInv /\ [Next]_vars => IInv'
<1> SUFFICES ASSUME IInv, [Next]_vars PROVE IInv'
  OBVIOUS
<1>1. CASE UNCHANGED vars
  <2>1. Framed
    BY <1>1 DEF vars, Framed, IInv, Typed
  <2>2. Where'
    BY <1>1 DEF vars, IInv, Where, Clean
  <2> QED BY <1>1, <2>1, <2>2, Untouched DEF vars, Clean
<1>2. CASE CheckConflicts \/ Cancel \/ AlienWrites
  BY <1>2, CheckConflictsInv, CancelInv, AlienWritesInv
<1>3. CASE Start \/ StartUncounted \/ CanceledBetween \/ RefuseUnsafe \/ MakeDir \/ SkipItem \/ StageItem
  BY <1>3, StartInv, StartUncountedInv, CanceledBetweenInv, RefuseUnsafeInv, MakeDirInv, SkipItemInv, StageItemInv
<1>4. CASE CanceledWithin \/ DecodeChunk \/ WriteChunk \/ RetryWrite \/ Broke \/ EndOfItem
           \/ FinishAll
  <2>1. CASE RetryWrite
    BY <1>1, <2>1 DEF RetryWrite
  <2> QED BY <1>4, <2>1, CanceledWithinInv, DecodeChunkInv, WriteChunkInv, BrokeInv,
             EndOfItemInv, FinishAllInv
<1>5. CASE GetStream \/ SetOperationResult \/ PassOver \/ NoResult \/ SetCompleted
           \/ EngineReturns \/ Conclude
  BY <1>5, GetStreamInv, SetOperationResultInv, PassOverInv, NoResultInv, SetCompletedInv, EngineReturnsInv, ConcludeInv
<1> QED BY <1>1, <1>2, <1>3, <1>4, <1>5 DEF Next, Worker

\* The invariant holds in every state of every extraction.
THEOREM Invariance == Spec => []IInv
BY InitInv, NextInv, PTL DEF Spec

-----------------------------------------------------------------------------
\* Every name below the target has its old content or the whole of an item, and
\* no temporary file outlives the job but one that could not be removed.
THEOREM NamesAreWhole == Spec => []FilesWhole
<1>1. IInv => FilesWhole
  <2> SUFFICES ASSUME IInv PROVE FilesWhole
    OBVIOUS
  <2>1. Ledger(fs, staged, todo) /\ Where /\ Typed
    BY DEF IInv
  <2>2. Cardinality(staged) <= 1
    <3>1. CASE staged = {}
      BY <3>1, FS_EmptySet
    <3>2. CASE staged # {}
      <4>1. PICK s \in staged : staged = {s}
        BY <2>1, <3>2 DEF Ledger
      <4>2. Cardinality({s}) = 1
        BY FS_Singleton
      <4> QED BY <4>1, <4>2
    <3> QED BY <3>1, <3>2
  <2>3. TypeOK
    BY <2>1, <2>2 DEF TypeOK, Typed, SzType, Ledger, FsType, StagedType
  <2>4. Torn \notin Range(fs.disk)
    <3>1. DOMAIN fs.disk = Paths
      BY <2>1 DEF Ledger, FsType
    <3> QED BY <2>1, <3>1 DEF Ledger, Range
  <2>5. fs.temps \ fs.stuck = {s.item : s \in staged}
    BY <2>1 DEF Ledger, ItemsOf
  <2>6. ASSUME result # "none" PROVE fs.live = {}
    <3>1. staged = {}
      BY <2>1, <2>6 DEF Where
    <3> QED BY <2>1, <3>1 DEF Ledger, ItemsOf
  <2> QED BY <2>3, <2>4, <2>5, <2>6 DEF FilesWhole, WholeFiles
<1> QED BY Invariance, <1>1, PTL

\* "ok" lets the window delete the archive: whatever was asked for has its
\* place, was skipped by the user, or lost its place to a later item, but for what
\* 7z.dll passed over without a word.
THEOREM OkIsComplete == Spec => []OkMeansAll
<1>1. IInv => OkMeansAll
  <2> SUFFICES ASSUME IInv, result = "ok", NEW e \in Files \cap sel, ~(be = "7z" /\ e \in sz.passed)
               PROVE  Placed(e)
    BY DEF OkMeansAll
  <2>1. Clean /\ todo = {} /\ fs.missing = {} /\ staged = {} /\ fs \in FsType
    BY DEF IInv, Where, Ledger
  <2>2. AllAccounted(fs, {}, {}) /\ e \notin sz.passed
    BY <2>1 DEF IInv, Where
  <2>3. Accounted(fs, e)
    BY <2>2 DEF AllAccounted, ItemsOf
  <2>4. DOMAIN fs.disk = Paths
    BY <2>1 DEF FsType
  <2>5. (\E p \in Paths : fs.disk[p] = e) => e \in Range(fs.disk)
    BY <2>4 DEF Range
  <2> QED BY <2>1, <2>3, <2>5 DEF Accounted, Shared, Placed
<1> QED BY Invariance, <1>1, PTL

-----------------------------------------------------------------------------
(***************************************************************************)
(* The files of the user.                                                  *)
(***************************************************************************)
\* An old file goes only for the staged item, which he allowed to replace it.
OldKept(f, g) ==
    \A p \in Paths : f.disk[p] = Old /\ g.disk[p] # Old =>
        g.disk[p] \in Files \cap ItemsOf(staged) /\ Allowed(f, g.disk[p], p)

LEMMA RenamedKeeps ==
  ASSUME NEW f, NEW s \in staged, Ledger(f, {s}, todo), arc \in Archives, NEW u \in StagedType,
         u.item = s.item, u.goal = s.goal, u.len \in {"whole", "long"}, NEW g \in Committed(f, u)
  PROVE  OldKept(f, g)
<1>1. f \in FsType /\ Aimed(f, s)
  BY DEF Ledger
<1>2. u.item \in Files /\ u.goal \in Paths
  BY DEF StagedType
<1>3. IsRenamed(f, g, u)
  BY <1>1, <1>2, CommittedIs
<1>4. u.item \in ItemsOf(staged)
  BY DEF ItemsOf
<1> QED BY <1>1, <1>2, <1>3, <1>4 DEF OldKept, IsRenamed, Aimed

LEMMA SettledKeeps ==
  ASSUME NEW f, Ledger(f, staged, todo), arc \in Archives, NEW g \in Settled(f)
  PROVE  OldKept(f, g)
<1>1. CASE g.disk = f.disk
  BY <1>1 DEF OldKept
<1>2. CASE staged = {}
  BY <1>1, <1>2 DEF Settled
<1>3. CASE staged # {}
  <2>1. PICK s : s \in staged
    BY <1>3
  <2>2. staged = {s} /\ s \in StagedType /\ f \in FsType
    BY <2>1 DEF Ledger
  <2>3. s.item \in Items
    BY <2>2, ItemsAre DEF StagedType
  <2>4. \A x : x = (CHOOSE y \in staged : TRUE) => x = s
    BY <2>2
  <2>5. g \in (IF ~s.ok THEN Removed(f, s.item)
               ELSE IF s.len \notin {"whole", "long"}
               THEN {Missed(h, s.item) : h \in Removed(f, s.item)}
               ELSE Committed(f, s) \cup {Missed(h, s.item) : h \in Removed(f, s.item)})
    BY <1>3, <2>4 DEF Settled
  <2>6. CASE g \in Removed(f, s.item)
    BY <1>1, <2>2, <2>3, <2>6, RemovedIs DEF IsRemoved
  <2>7. CASE \E h \in Removed(f, s.item) : g = Missed(h, s.item)
    <3>1. PICK h \in Removed(f, s.item) : g = Missed(h, s.item)
      BY <2>7
    <3>2. h \in FsType /\ h.disk = f.disk
      BY <2>2, <2>3, RemovedIs DEF IsRemoved
    <3>3. g.disk = f.disk
      BY <2>3, <3>1, <3>2, MissedIs DEF IsMissed
    <3> QED BY <1>1, <3>3
  <2>8. CASE s.len \in {"whole", "long"} /\ g \in Committed(f, s)
    BY <2>1, <2>2, <2>8, RenamedKeeps
  <2> QED BY <2>5, <2>6, <2>7, <2>8
<1> QED BY <1>2, <1>3

LEMMA OpenedGrows ==
  ASSUME arc \in Archives, NEW f \in FsType, NEW t \in Items, NEW o \in Opened(f, t)
  PROVE  Grows(f, o.fs)
<1>1. CASE o.fs = Missed(f, t)
  BY <1>1, MissedGrown DEF Grown
<1>2. CASE o.fs \in DirMade(f, t)
  BY <1>2, MadeGrown DEF Grown
<1>3. CASE o.fs = f
  BY <1>3 DEF Grows
<1>4. CASE o.fs = Created(f, t)
  BY <1>4, CreatedIs DEF IsCreated, Grows
<1>5. arc[t].kind \in Kinds
  BY ItemsAre
<1> QED BY <1>1, <1>2, <1>3, <1>4, <1>5 DEF Opened, Kinds

\* What only grows afterwards takes no file away.
LEMMA GrowsKeeps ==
  ASSUME arc \in Archives, NEW f, NEW h, NEW g, OldKept(f, h), Grows(h, g)
  PROVE  OldKept(f, g)
<1>1. \A p \in Paths : h.disk[p] \in Files => h.disk[p] # None
  BY ItemsAre
<1> QED BY <1>1, KindsDiffer DEF OldKept, Grows

LEMMA SameKeeps == \A f, g : g.disk = f.disk => OldKept(f, g)
BY DEF OldKept

\* A file that was there when the user was asked goes only for an item he
\* answered "overwrite" for, or for one he answered "rename" for when every name
\* unique_path tries is taken: then it returns the path itself (formats.rs:48).
THEOREM OldFilesKept == Spec => [][OldKept(fs, fs')]_vars
<1>1. IInv /\ [Next]_vars => [OldKept(fs, fs')]_vars
  <2> SUFFICES ASSUME IInv, Next PROVE OldKept(fs, fs')
    OBVIOUS
  <2>1. arc \in Archives /\ Ledger(fs, staged, todo) /\ fs \in FsType /\ sel \subseteq Items
    BY Here
  <2>2. CASE Grows(fs, fs')
    BY <2>2, KindsDiffer DEF Grows, OldKept
  <2>3. CASE UNCHANGED fs
    BY <2>3, SameKeeps
  <2>4. CASE CheckConflicts \/ Cancel \/ Start \/ StartUncounted \/ CanceledBetween \/ SkipItem
             \/ DecodeChunk \/ WriteChunk \/ RetryWrite \/ FinishAll \/ SetOperationResult
             \/ PassOver \/ NoResult \/ SetCompleted \/ EngineReturns
    BY <2>3, <2>4 DEF CheckConflicts, Cancel, Start, StartUncounted, CanceledBetween, SkipItem,
          DecodeChunk, WriteChunk, RetryWrite, FinishAll, SetOperationResult, PassOver, NoResult,
          SetCompleted, EngineReturns, vars
  <2>5. CASE AlienWrites
    <3>1. PICK p \in Paths : ~Exists(fs, p) /\ fs' = [fs EXCEPT !.disk[p] = Alien]
      BY <2>5 DEF AlienWrites
    <3>2. \A q \in Paths : fs'.disk[q] = IF q = p THEN Alien ELSE fs.disk[q]
      BY <2>1, <3>1 DEF FsType
    <3> QED BY <2>2, <3>1, <3>2 DEF Grows, Exists
  <2>6. CASE RefuseUnsafe \/ MakeDir \/ StageItem
    <3>1. Turn \in Items
      BY <2>6, TurnIs DEF RefuseUnsafe, MakeDir, StageItem
    <3>2. Grows(fs, Missed(fs, Turn))
      BY <2>1, <3>1, MissedGrown DEF Grown
    <3>3. Grows(fs, Created(fs, Turn))
      BY <2>1, <3>1, CreatedIs DEF IsCreated, Grows
    <3>4. \A g \in DirMade(fs, Turn) : Grows(fs, g)
      BY <2>1, <3>1, MadeGrown DEF Grown
    <3> QED BY <2>2, <2>3, <2>6, <3>2, <3>3, <3>4 DEF RefuseUnsafe, MakeDir, StageItem
  <2>7. ASSUME NEW s \in staged, NEW f \in Removed(fs, s.item), fs' \in {f, Missed(f, s.item)}
        PROVE  OldKept(fs, fs')
    <3>1. s.item \in Items
      BY <2>1, ItemsAre DEF Ledger, StagedType
    <3>2. f \in FsType /\ f.disk = fs.disk
      BY <2>1, <3>1, RemovedIs DEF IsRemoved
    <3>3. Missed(f, s.item).disk = fs.disk
      BY <3>1, <3>2, MissedIs DEF IsMissed
    <3> QED BY <2>7, <3>2, <3>3, SameKeeps
  <2>8. CASE CanceledWithin
    BY <2>7, <2>8 DEF CanceledWithin
  <2>9. CASE Broke
    BY <2>7, <2>9 DEF Broke
  <2>10. CASE EndOfItem
    <3>1. PICK s \in staged :
             \/ fs' \in Committed(fs, [s EXCEPT !.len = "whole"])
             \/ \E f \in Removed(fs, s.item) : fs' \in {f, Missed(f, s.item)}
      BY <2>10 DEF EndOfItem
    <3>2. CASE fs' \in Committed(fs, [s EXCEPT !.len = "whole"])
      <4>1. s \in StagedType /\ Ledger(fs, {s}, todo)
        <5>1. s \in StagedType /\ staged = {s}
          BY <2>1 DEF Ledger
        <5> QED BY <2>1, <5>1
      <4>2. PICK u : u = [s EXCEPT !.len = "whole"]
        OBVIOUS
      <4>3. u \in StagedType /\ u.item = s.item /\ u.goal = s.goal /\ u.len = "whole"
        BY <4>1, <4>2 DEF StagedType
      <4>4. fs' \in Committed(fs, u)
        BY <3>2, <4>2
      <4> QED BY <2>1, <4>1, <4>3, <4>4, RenamedKeeps
    <3> QED BY <2>7, <3>1, <3>2
  <2>11. CASE GetStream
    <3>1. PICK f \in Settled(fs) : fs' = f \/ \E o \in Opened(f, Turn) : fs' = o.fs
      BY <2>11 DEF GetStream
    <3>2. OldKept(fs, f)
      BY <2>1, SettledKeeps
    <3>3. f \in FsType /\ Turn \in Items
      <4>1. Ledger(f, {}, todo) /\ todo # {}
        BY <2>1, <2>11, SettledFits DEF Fits, GetStream
      <4> QED BY <2>1, <4>1, TakeLedger DEF Ledger, Turn
    <3>4. CASE fs' = f
      BY <3>2, <3>4
    <3>5. CASE \E o \in Opened(f, Turn) : fs' = o.fs
      <4>1. Grows(f, fs')
        BY <2>1, <3>3, <3>5, OpenedGrows
      <4> QED BY <2>1, <3>2, <4>1, GrowsKeeps
    <3> QED BY <3>1, <3>4, <3>5
  <2>12. CASE Conclude
    BY <2>1, <2>12, SettledKeeps DEF Conclude
  <2> QED BY <2>4, <2>5, <2>6, <2>8, <2>9, <2>10, <2>11, <2>12 DEF Next, Worker
<1> QED BY Invariance, <1>1, PTL DEF Spec

\* While an item is being written, unique_path would still find a name for every
\* old file.
NamesLeft == staged # {} => \A p \in Paths : fs.disk[p] = Old => ~NamesTaken(fs, p)

\* Where names do not run out, only "overwrite" lets an old file go.
THEOREM OnlyOverwritten == Spec /\ []NamesLeft => AnswersKept
<1>1. NamesLeft /\ OldKept(fs, fs') =>
        \A p \in Paths :
          fs.disk[p] = Old /\ fs'.disk[p] # Old =>
            /\ fs'.disk[p] \in Files
            /\ LET n == arc[fs'.disk[p]].name
               IN  n \in DOMAIN answers /\ answers[n] = "overwrite"
  <2>1. ASSUME NamesLeft, NEW p \in Paths, NEW e \in ItemsOf(staged), fs.disk[p] = Old,
               Allowed(fs, e, p)
        PROVE  arc[e].name \in DOMAIN answers /\ answers[arc[e].name] = "overwrite"
    BY <2>1 DEF NamesLeft, Allowed, ItemsOf
  <2> QED BY <2>1 DEF OldKept
<1>2. NamesLeft /\ [OldKept(fs, fs')]_vars =>
        [\A p \in Paths :
          fs.disk[p] = Old /\ fs'.disk[p] # Old =>
            /\ fs'.disk[p] \in Files
            /\ LET n == arc[fs'.disk[p]].name
               IN  n \in DOMAIN answers /\ answers[n] = "overwrite"]_vars
  BY <1>1
<1> QED BY OldFilesKept, <1>2, PTL DEF AnswersKept

-----------------------------------------------------------------------------
(***************************************************************************)
(* The extract window.  The calls of the shell, the slot and the numbers   *)
(* of jobs are right whatever the user does (Gathering, Kept, Core); that  *)
(* only one thing goes on at a time, on which the rest depends, holds      *)
(* until [OK] is pressed while a request is being taken (Safe).            *)
(***************************************************************************)

\* A request that can be on its way.
Asked == {r \in Requests : /\ IsInjective(r)
                           /\ \A n \in DOMAIN r : Verb[r[n]] = VerbOf(r)
                           /\ r # <<>> /\ VerbOf(r) = "form" => Len(r) = 1}
Named == Chosen \cup {NoArchive}
EventSet == [id : Nat \ {0}, end : Ends]
JobSet == [id : Nat \ {0}, arc : Chosen, checked : Named, opens : BOOLEAN, canceled : BOOLEAN]
CallSet ==
    [op : {"take", "load", "check", "extract", "delete"}, req : Asked, arc : Named, gen : Nat,
     checked : Named, opens : BOOLEAN, answer : {"none", "ok", "refused"}, id : Nat]
WinSet ==
    [init : BOOLEAN, gen : Nat, req : Asked, idx : Nat \ {0}, mode : {"form", "auto", "batch"},
     phase : {"form", "running", "done"}, jobId : Nat, starting : BOOLEAN, checking : BOOLEAN,
     restarting : BOOLEAN, finishing : BOOLEAN, asking : BOOLEAN, needPassword : BOOLEAN,
     checked : Named, opens : BOOLEAN, pending : BOOLEAN, deleteAfter : BOOLEAN,
     issue : BOOLEAN, result : {"none"} \cup Ends, buffer : SUBSET EventSet]

\* What was gathered and waits for its timer.
Gathering ==
    /\ unasked \subseteq Chosen
    /\ agg \in [paths : Seq(Chosen \ unasked), gen : Nat]
    /\ agg.gen + Cardinality(unasked) = Cardinality(Chosen)
    /\ timers \subseteq 1..agg.gen
    /\ IsInjective(agg.paths)
    /\ \A n \in DOMAIN agg.paths : Verb[agg.paths[n]] = VerbOf(agg.paths)
    /\ agg.paths # <<>> => agg.gen \in timers
    /\ openers \subseteq [req : Asked \ {<<>>}, kept : BOOLEAN]

WinTyped ==
    /\ w \in WinSet /\ calls \subseteq CallSet
    /\ job = Idle \/ job \in JobSet
    /\ jobs \in Nat /\ events \subseteq EventSet
Kept ==
    /\ slot \in Asked /\ win \in {"none", "mounting", "open", "dying"}
    /\ good \subseteq Chosen /\ deleted \subseteq Chosen /\ ticked \subseteq Chosen
    /\ crossed \in BOOLEAN

\* What the histories name.
Noted == overwritten \subseteq Chosen /\ silent \subseteq 1..jobs /\ dropped \subseteq 1..jobs

\* Numbers of jobs are issued once, and a job ends once.
Issued ==
    /\ job # Idle => job.id <= jobs
    /\ w.jobId <= jobs /\ \A c \in calls : c.id <= jobs
    /\ \A e \in events \cup w.buffer : e.id <= jobs
EndsOnce ==
    /\ events \cap w.buffer = {}
    /\ \A e, f \in events \cup w.buffer : e.id = f.id => e = f
    /\ \A e \in events \cup w.buffer : job # Idle => e.id # job.id

\* What holds of the window whatever the user does.
Takes(c) == c.op \in {"take", "load"}
Places ==
    /\ win # "open" => w = Blank /\ calls = {}
    /\ IF w.req = <<>> THEN w.idx = 1 ELSE w.idx <= Len(w.req)
    /\ w.asking \/ w.needPassword \/ w.jobId # 0 => w.req # <<>>
    /\ w.restarting => w.init
    /\ \A c \in calls :
        /\ c.op \in {"check", "extract", "delete"} => c.arc \in Chosen /\ w.req # <<>>
        /\ c.op = "load" => w.restarting /\ c.req # <<>>
        /\ c.op = "take" => (w.init <=> w.restarting)
    /\ \A c, d \in calls : Takes(c) /\ Takes(d) => c = d

\* One thing at a time, if [OK] is not pressed while a request is taken.
Exclusive ==
    /\ w.checking => ~w.starting /\ ~w.asking /\ ~w.needPassword /\ ~w.finishing /\ ~w.restarting
    /\ w.starting => ~w.asking /\ ~w.needPassword /\ ~w.finishing /\ ~w.restarting
    /\ w.asking => ~w.needPassword /\ ~w.finishing /\ ~w.restarting
    /\ w.needPassword => ~w.finishing /\ ~w.restarting
    /\ w.finishing => ~w.restarting
    /\ w.checking \/ w.starting \/ w.asking => w.jobId = 0 /\ w.phase # "done"
    /\ w.needPassword => w.jobId = 0 /\ w.phase = "running"
    /\ w.finishing => w.jobId # 0 /\ w.phase # "form"
    /\ w.restarting => w.phase # "running"
    /\ w.phase = "form" => w.jobId = 0

\* The job id is that of a job on archive a.
OfJob(id, a) ==
    /\ job # Idle /\ job.id = id => job.arc = a
    /\ \A e \in events \cup w.buffer : e.id = id /\ e.end = "ok" => a \in good

\* Each call has its reason.
Reasons ==
    /\ \A c, d \in calls : c = d
    /\ \A c \in calls :
        /\ c.op = "take" /\ ~w.init =>
              /\ w.req = <<>> /\ w.phase = "form"
              /\ ~w.checking /\ ~w.starting /\ ~w.asking
        /\ c.op = "load" => w.phase = "form"
        /\ c.op = "check" => w.checking /\ c.gen = w.gen /\ c.arc = Target(w)
        /\ c.op = "extract" =>
              /\ w.starting /\ c.arc = Target(w) /\ (c.opens => c.checked = c.arc)
              /\ c.answer = "ok" => c.id # 0 /\ OfJob(c.id, c.arc)
        /\ c.op = "delete" =>
              w.finishing /\ w.phase = "running" /\ c.arc = Target(w) /\ c.arc \in good

\* What was checked is what is extracted.
Checked ==
    /\ w.asking => w.checked = Target(w)
    /\ w.needPassword \/ w.starting \/ (w.phase = "running" /\ w.jobId # 0) =>
           w.checked \in {NoArchive, Target(w)}
    /\ job # Idle /\ job.opens => job.checked = job.arc

\* The job the window follows, until it has heard of its end.
Followed ==
    w.jobId # 0 =>
        IF w.phase = "running" /\ ~w.finishing THEN OfJob(w.jobId, Target(w))
        ELSE /\ job # Idle => job.id # w.jobId
             /\ \A e \in events \cup w.buffer : e.id # w.jobId

\* What has been extracted of the request so far.
SoFar ==
    /\ w.mode = "batch" => w.phase # "form"
    /\ w.mode # "batch" /\ (\A c \in calls : c.op # "load") => Len(w.req) <= 1
    /\ w.mode = "batch" /\ w.phase = "running" /\ ~w.issue =>
           \A i \in 1..w.idx - 1 : w.req[i] \in good
    /\ w.phase = "done" /\ w.result = "ok" => Range(w.req) \subseteq good
    /\ deleted \subseteq good

Core == WinTyped /\ Issued /\ EndsOnce /\ Places
Safe == Exclusive /\ Reasons /\ Checked /\ Followed /\ SoFar
ExtractInv == Gathering /\ Kept /\ Noted /\ Core /\ (~crossed => Safe)

-----------------------------------------------------------------------------
(* Requests.                                                               *)

LEMMA ShortEnough ==
  ASSUME NEW r \in Seq(Chosen), IsInjective(r)
  PROVE  r \in Requests /\ Len(r) <= Cardinality(Chosen)
<1>1. r \in Injection(1..Len(r), Chosen) /\ Len(r) \in Nat
  BY DEF Injection, IsInjective
<1>2. Cardinality(1..Len(r)) <= Cardinality(Chosen)
  <2> DEFINE S == 1..Len(r)
  <2>1. r \in Injection(S, Chosen) /\ IsFiniteSet(Chosen)
    BY <1>1, ShellAssumption
  <2> HIDE DEF S
  <2>2. Cardinality(S) <= Cardinality(Chosen)
    BY <2>1, FS_Injection, Zenon
  <2> QED
    BY <2>2 DEF S
<1>3. Cardinality(1..Len(r)) = Len(r)
  <2>1. 1 \in Int /\ Len(r) \in Int
    BY <1>1
  <2>2. Cardinality(1..Len(r)) = IF 1 > Len(r) THEN 0 ELSE Len(r) - 1 + 1
    BY <2>1, FS_Interval, Zenon
  <2> QED
    BY <1>1, <2>2
<1>4. Cardinality(Chosen) \in Nat
  BY FS_CardinalityType, ShellAssumption
<1>5. Len(r) \in 0..Cardinality(Chosen) /\ r \in [1..Len(r) -> Chosen]
  BY <1>1, <1>2, <1>3, <1>4
<1> QED
  BY <1>5 DEF Requests

LEMMA AskedFacts ==
  ASSUME NEW r \in Asked
  PROVE  /\ r \in Seq(Chosen) /\ Len(r) \in Nat /\ r \in Requests
         /\ Len(r) <= Cardinality(Chosen) /\ IsInjective(r)
         /\ r # <<>> => Len(r) >= 1
         /\ \A i \in 1..Len(r) : r[i] \in Chosen
<1>1. r \in Requests /\ IsInjective(r)
  BY DEF Asked
<1>2. PICK n \in 0..Cardinality(Chosen) : r \in [1..n -> Chosen]
  BY <1>1 DEF Requests
<1>3. Cardinality(Chosen) \in Nat
  BY FS_CardinalityType, ShellAssumption
<1>4. r \in Seq(Chosen)
  BY <1>2, <1>3
<1> QED
  BY <1>1, <1>4, ShortEnough

LEMMA NoneAsked == <<>> \in Asked
<1>1. <<>> \in Seq(Chosen) /\ IsInjective(<<>>)
  BY DEF IsInjective
<1>2. <<>> \in Requests
  BY <1>1, ShortEnough, Zenon
<1> QED
  BY <1>1, <1>2 DEF Asked

LEMMA GatheredAsked ==
  ASSUME NEW paths \in Seq(Chosen), paths # <<>>, IsInjective(paths),
         \A n \in DOMAIN paths : Verb[paths[n]] = VerbOf(paths)
  PROVE  Opener(paths) \in [req : Asked \ {<<>>}, kept : BOOLEAN] /\ ~Opener(paths).kept
<1>1. CASE VerbOf(paths) = "form"
  <2>1. /\ <<paths[1]>> \in Seq(Chosen) /\ Len(<<paths[1]>>) = 1 /\ IsInjective(<<paths[1]>>)
        /\ <<paths[1]>> # <<>>
        /\ \A n \in DOMAIN <<paths[1]>> : Verb[<<paths[1]>>[n]] = VerbOf(<<paths[1]>>)
    BY DEF IsInjective, VerbOf
  <2>2. <<paths[1]>> \in Asked
    BY <2>1, ShortEnough DEF Asked
  <2> QED
    BY <1>1, <2>1, <2>2 DEF Opener, Request
<1>2. CASE VerbOf(paths) # "form"
  <2>1. paths \in Asked
    BY <1>2, ShortEnough DEF Asked
  <2> QED
    BY <1>2, <2>1 DEF Opener, Request
<1> QED
  BY <1>1, <1>2

LEMMA ModeRight ==
  ASSUME NEW r \in Asked, r # <<>>
  PROVE  ModeOf(r) \in {"form", "auto", "batch"} /\ (ModeOf(r) # "batch" => Len(r) = 1)
BY AskedFacts DEF ModeOf, Asked

LEMMA GatheringNext ==
  ASSUME Gathering, ExtractNext
  PROVE  Gathering'
<1>0. Cardinality(Chosen) \in Nat
  BY FS_CardinalityType, ShellAssumption
<1>1. ASSUME NEW a \in unasked, HandleInner(a)
      PROVE  Gathering'
  <2>1. IsFiniteSet(unasked) /\ Cardinality(unasked) \in Nat /\ Cardinality(unasked) >= 1
    <3>1. IsFiniteSet(unasked)
      BY FS_Subset, ShellAssumption DEF Gathering
    <3> QED
      BY <3>1, FS_CardinalityType, FS_EmptySet
  <2>2. Cardinality(unasked') = Cardinality(unasked) - 1
    BY <1>1, <2>1, FS_RemoveElement DEF HandleInner
  <2>3. agg.gen \in Nat /\ agg'.gen = agg.gen + 1 /\ unasked' \subseteq unasked
        /\ timers' = timers \cup {agg.gen + 1} /\ a \in Chosen /\ agg.paths \in Seq(Chosen \ unasked)
    BY <1>1 DEF HandleInner, Gathering
  <2> DEFINE mixed == agg.paths # <<>> /\ VerbOf(agg.paths) # Verb[a]
  <2>4. CASE mixed
    <3>1. agg' = [paths |-> <<a>>, gen |-> agg.gen + 1] /\ openers' = openers \cup {Opener(agg.paths)}
      BY <1>1, <2>4 DEF HandleInner
    <3>2. Opener(agg.paths) \in [req : Asked \ {<<>>}, kept : BOOLEAN]
      <4>1. agg.paths \in Seq(Chosen)
        BY <2>3
      <4> QED
        BY <2>4, <4>1, GatheredAsked DEF Gathering
    <3>3. <<a>> \in Seq(Chosen \ unasked') /\ IsInjective(<<a>>)
          /\ \A n \in DOMAIN <<a>> : Verb[<<a>>[n]] = VerbOf(<<a>>)
      BY <1>1, <2>3 DEF HandleInner, IsInjective, VerbOf
    <3>4. agg'.paths = <<a>> /\ agg' \in [paths : Seq(Chosen \ unasked'), gen : Nat]
      BY <3>1, <3>3, <2>3
    <3>5. agg'.gen + Cardinality(unasked') = Cardinality(Chosen) /\ timers' \subseteq 1..agg'.gen
      <4>1. agg.gen + Cardinality(unasked) = Cardinality(Chosen) /\ timers \subseteq 1..agg.gen
        BY DEF Gathering
      <4>2. agg'.gen + Cardinality(unasked') = Cardinality(Chosen)
        BY <1>0, <2>1, <2>2, <2>3, <4>1
      <4>3. 1..agg.gen \subseteq 1..agg'.gen /\ agg.gen + 1 \in 1..agg'.gen
        BY <2>3
      <4> QED
        BY <2>3, <4>1, <4>2, <4>3, Zenon
    <3>6. unasked' \subseteq Chosen /\ agg'.gen \in timers'
      BY <2>3 DEF Gathering
    <3>7. IsInjective(agg'.paths) /\ \A n \in DOMAIN agg'.paths : Verb[agg'.paths[n]] = VerbOf(agg'.paths)
      BY <3>3, <3>4, Zenon
    <3>8. openers' \subseteq [req : Asked \ {<<>>}, kept : BOOLEAN]
      BY <3>1, <3>2 DEF Gathering
    <3> QED
      BY <3>4, <3>5, <3>6, <3>7, <3>8, Zenon DEF Gathering
  <2>5. CASE ~mixed
    <3>1. agg' = [paths |-> Append(agg.paths, a), gen |-> agg.gen + 1] /\ openers' = openers
      BY <1>1, <2>5 DEF HandleInner
    <3> DEFINE r == Append(agg.paths, a)
    <3>2. /\ r \in Seq(Chosen \ unasked') /\ Len(r) = Len(agg.paths) + 1 /\ Len(agg.paths) \in Nat
          /\ \A n \in 1..Len(agg.paths) : r[n] = agg.paths[n] /\ r[n] # a
          /\ r[Len(agg.paths) + 1] = a
      BY <1>1, <2>3 DEF HandleInner
    <3>3. IsInjective(r)
      <4>1. \A m, n \in 1..Len(agg.paths) : agg.paths[m] = agg.paths[n] => m = n
        BY <2>3 DEF Gathering, IsInjective
      <4> SUFFICES ASSUME NEW m \in 1..Len(r), NEW n \in 1..Len(r), r[m] = r[n] PROVE m = n
        BY <3>2 DEF IsInjective
      <4>2. CASE m \in 1..Len(agg.paths) /\ n \in 1..Len(agg.paths)
        BY <4>1, <4>2, <3>2
      <4>3. CASE m = Len(agg.paths) + 1 \/ n = Len(agg.paths) + 1
        BY <4>3, <3>2
      <4> QED
        BY <4>2, <4>3, <3>2
    <3>4. \A n \in 1..Len(r) : Verb[r[n]] = VerbOf(r)
      <4>1. CASE agg.paths = <<>>
        BY <4>1, <3>2 DEF VerbOf
      <4>2. CASE agg.paths # <<>>
        <5>1. Verb[a] = VerbOf(agg.paths) /\ Len(agg.paths) >= 1
          BY <2>5, <4>2, <2>3
        <5>2. VerbOf(r) = VerbOf(agg.paths)
          BY <5>1, <3>2 DEF VerbOf
        <5>3. \A n \in 1..Len(agg.paths) : Verb[agg.paths[n]] = VerbOf(agg.paths)
          BY <2>3 DEF Gathering
        <5> QED
          BY <5>1, <5>2, <5>3, <3>2
      <4> QED
        BY <4>1, <4>2
    <3>5. agg'.paths = r /\ agg' \in [paths : Seq(Chosen \ unasked'), gen : Nat] /\ DOMAIN r = 1..Len(r)
      BY <3>1, <3>2, <2>3
    <3> HIDE DEF r
    <3>6. agg'.gen + Cardinality(unasked') = Cardinality(Chosen) /\ timers' \subseteq 1..agg'.gen
      <4>1. agg.gen + Cardinality(unasked) = Cardinality(Chosen) /\ timers \subseteq 1..agg.gen
        BY DEF Gathering
      <4>2. agg'.gen + Cardinality(unasked') = Cardinality(Chosen)
        BY <1>0, <2>1, <2>2, <2>3, <4>1
      <4>3. 1..agg.gen \subseteq 1..agg'.gen /\ agg.gen + 1 \in 1..agg'.gen
        BY <2>3
      <4> QED
        BY <2>3, <4>1, <4>2, <4>3, Zenon
    <3>7. unasked' \subseteq Chosen /\ agg'.gen \in timers'
      BY <2>3 DEF Gathering
    <3>8. IsInjective(agg'.paths) /\ \A n \in DOMAIN agg'.paths : Verb[agg'.paths[n]] = VerbOf(agg'.paths)
      BY <3>3, <3>4, <3>5, Zenon
    <3>9. openers' \subseteq [req : Asked \ {<<>>}, kept : BOOLEAN]
      BY <3>1 DEF Gathering
    <3> QED
      BY <3>5, <3>6, <3>7, <3>8, <3>9, Zenon DEF Gathering
  <2> QED
    BY <2>4, <2>5
<1>2. ASSUME NEW g \in timers, Flush(g)
      PROVE  Gathering'
  <2>1. CASE agg.gen = g /\ agg.paths # <<>>
    <3>1. /\ openers' = openers \cup {Opener(agg.paths)} /\ agg' = [agg EXCEPT !.paths = <<>>]
          /\ timers' = timers \ {g} /\ unasked' = unasked
      BY <1>2, <2>1 DEF Flush
    <3>2. Opener(agg.paths) \in [req : Asked \ {<<>>}, kept : BOOLEAN]
      <4>1. agg.paths \in Seq(Chosen)
        BY DEF Gathering
      <4> QED
        BY <2>1, <4>1, GatheredAsked DEF Gathering
    <3>3. agg' \in [paths : Seq(Chosen \ unasked'), gen : Nat] /\ agg'.paths = <<>> /\ agg'.gen = agg.gen
      <4>1. <<>> \in Seq(Chosen \ unasked')
        OBVIOUS
      <4>2. agg \in [paths : Seq(Chosen \ unasked'), gen : Nat]
        BY <3>1 DEF Gathering
      <4>3. agg.gen \in Nat /\ agg' = [paths |-> <<>>, gen |-> agg.gen]
        BY <3>1, <4>2
      <4> QED
        BY <4>1, <4>3
    <3>4. openers' \subseteq [req : Asked \ {<<>>}, kept : BOOLEAN]
      BY <3>1, <3>2 DEF Gathering
    <3> QED
      BY <3>1, <3>3, <3>4 DEF Gathering, IsInjective
  <2>2. CASE ~(agg.gen = g /\ agg.paths # <<>>)
    <3>1. UNCHANGED <<openers, agg, unasked>> /\ timers' = timers \ {g}
      BY <1>2, <2>2 DEF Flush
    <3> QED
      BY <3>1, <2>2 DEF Gathering
  <2> QED
    BY <2>1, <2>2
<1>3. ASSUME NEW o \in openers, Keep(o) \/ Tell(o) \/ Build(o)
      PROVE  Gathering'
  <2>1. UNCHANGED shellVars
    BY <1>3 DEF Keep, Tell, Build
  <2>2. openers' \subseteq [req : Asked \ {<<>>}, kept : BOOLEAN]
    <3>1. o \in [req : Asked \ {<<>>}, kept : BOOLEAN]
      BY DEF Gathering
    <3>2. [o EXCEPT !.kept = TRUE] \in [req : Asked \ {<<>>}, kept : BOOLEAN]
      BY <3>1
    <3> QED
      BY <1>3, <3>2 DEF Keep, Tell, Build, Gathering
  <2> QED
    BY <2>1, <2>2 DEF Gathering, shellVars
<1>4. ASSUME UNCHANGED <<shellVars, openers>>
      PROVE  Gathering'
  BY <1>4 DEF Gathering, shellVars
<1>5. ASSUME Script \/ User PROVE UNCHANGED <<shellVars, openers>>
  BY <1>5 DEF Script, User, Mount, Initialized, React, FinishUp, Destroyed, JobEnds, JobPanics,
     Unmatched, OnJobErrored, OnJobFinished, Confirm, ConfirmConflictChoice, CancelConflict, SubmitPassword,
     CancelPassword, CancelJob, Close, Handled
<1>6. ASSUME NEW c \in calls, AnswersTo(c) PROVE UNCHANGED <<shellVars, openers>>
  BY <1>6 DEF AnswersTo, Take, TakenAtMount, Taken, Loaded, StaleAnswer, NoConflict, SomeConflict,
     CheckNeedsPassword, CheckFails, Extract, Started, Refused, DeleteFile, Handled
<1> QED
  BY <1>1, <1>2, <1>3, <1>4, <1>5, <1>6 DEF ExtractNext, Answer, Deliver

-----------------------------------------------------------------------------
(* Steps of the window.                                                    *)

\* A step that neither starts nor ends a job.
Quietly ==
    /\ win = "open" /\ win' = "open" /\ UNCHANGED <<job, jobs>> /\ good \subseteq good'
    /\ events' \subseteq events /\ w'.buffer = w.buffer
Free(x) ==
    ~x.checking /\ ~x.starting /\ ~x.asking /\ ~x.needPassword /\ ~x.finishing /\ ~x.restarting

LEMMA QuietCore ==
  ASSUME Core, Quietly, w' \in WinSet, w'.jobId <= jobs, calls' \subseteq CallSet,
         \A c \in calls' : c.id <= jobs, Places'
  PROVE  Core'
<1>1. WinTyped'
  BY DEF WinTyped, Core, Quietly
<1>2. Issued'
  BY DEF Issued, Core, Quietly
<1>3. EndsOnce'
  BY DEF EndsOnce, Core, Quietly
<1> QED
  BY <1>1, <1>2, <1>3 DEF Core

LEMMA TargetRight ==
  ASSUME NEW x \in WinSet, x.req # <<>>, x.idx <= Len(x.req)
  PROVE  Target(x) \in Chosen
<1>1. x.req \in Asked /\ x.idx \in Nat \ {0}
  BY DEF WinSet
<1> QED
  BY <1>1, AskedFacts DEF Target

\* The window goes on with the same request and no new call.
LEMMA SameCore ==
  ASSUME Core, Quietly, w' \in WinSet, calls' \subseteq calls,
         w'.req = w.req, w'.idx = w.idx, w'.init = w.init, w'.restarting = w.restarting,
         w'.jobId \in {0, w.jobId}, w'.asking \/ w'.needPassword => w.req # <<>>
  PROVE  Core'
<1>1. w'.jobId <= jobs /\ calls' \subseteq CallSet /\ \A c \in calls' : c.id <= jobs
  BY DEF Core, WinTyped, Issued
<1>2. Places'
  BY DEF Core, Places, Quietly, Takes
<1> QED
  BY <1>1, <1>2, QuietCore

LEMMA CheckingCore ==
  ASSUME Core, Quietly, NEW x \in WinSet, NEW C \in SUBSET calls, Checking(x, C),
         x.req # <<>>, x.idx <= Len(x.req), x.jobId \in {0, w.jobId}, x.init = w.init,
         x.restarting = w.restarting \/ (~x.restarting /\ \A c \in C : ~Takes(c))
  PROVE  Core'
<1> DEFINE k == [Call("check", Target(x)) EXCEPT !.gen = x.gen]
<1>1. w' = [x EXCEPT !.checking = TRUE] /\ calls' = C \cup {k}
  BY DEF Checking
<1>2. Target(x) \in Chosen
  BY TargetRight
<1>3. k \in CallSet /\ k.id = 0 /\ k.op = "check" /\ k.arc = Target(x)
  BY <1>2, NoneAsked DEF Call, CallSet, WinSet, WinTyped, Core, Named
<1> HIDE DEF k
<1>4. /\ w' \in WinSet /\ w'.req = x.req /\ w'.idx = x.idx /\ w'.init = x.init
      /\ w'.restarting = x.restarting /\ w'.jobId = x.jobId
  BY <1>1 DEF WinSet
<1>5. w'.jobId <= jobs /\ calls' \subseteq CallSet /\ \A c \in calls' : c.id <= jobs
  BY <1>1, <1>3, <1>4 DEF Core, WinTyped, Issued
<1>6. Places'
  BY <1>1, <1>2, <1>3, <1>4 DEF Core, Places, Quietly, Takes
<1> QED
  BY <1>4, <1>5, <1>6, QuietCore

LEMMA StartCore ==
  ASSUME Core, Quietly, NEW x \in WinSet, NEW C \in SUBSET calls, StartExtract(x, C),
         x.req # <<>>, x.idx <= Len(x.req), x.jobId \in {0, w.jobId}, x.init = w.init,
         x.restarting = w.restarting
  PROVE  Core'
<1> DEFINE k == [Call("extract", Target(x)) EXCEPT
                    !.gen = x.gen, !.checked = x.checked, !.opens = x.opens]
<1>1. w' = [x EXCEPT !.starting = TRUE] /\ calls' = C \cup {k}
  BY DEF StartExtract
<1>2. Target(x) \in Chosen
  BY TargetRight
<1>3. k \in CallSet /\ k.id = 0 /\ k.op = "extract" /\ k.arc = Target(x)
  BY <1>2, NoneAsked DEF Call, CallSet, WinSet, WinTyped, Core, Named
<1> HIDE DEF k
<1>4. /\ w' \in WinSet /\ w'.req = x.req /\ w'.idx = x.idx /\ w'.init = x.init
      /\ w'.restarting = x.restarting /\ w'.jobId = x.jobId
  BY <1>1 DEF WinSet
<1>5. w'.jobId <= jobs /\ calls' \subseteq CallSet /\ \A c \in calls' : c.id <= jobs
  BY <1>1, <1>3, <1>4 DEF Core, WinTyped, Issued
<1>6. Places'
  BY <1>1, <1>2, <1>3, <1>4 DEF Core, Places, Quietly, Takes
<1> QED
  BY <1>4, <1>5, <1>6, QuietCore

LEMMA BatchCore ==
  ASSUME Core, Quietly, NEW x \in WinSet, NEW C \in SUBSET calls, RunBatchItem(x, C),
         x.req # <<>>, x.idx <= Len(x.req), x.init = w.init,
         x.restarting = w.restarting \/ (~x.restarting /\ \A c \in C : ~Takes(c))
  PROVE  Core'
<1> DEFINE y == [x EXCEPT !.jobId = 0, !.starting = FALSE, !.checked = NoArchive, !.opens = TRUE]
<1>1. /\ y \in WinSet /\ y.req = x.req /\ y.idx = x.idx /\ y.jobId = 0 /\ y.init = x.init
      /\ y.restarting = x.restarting
  BY DEF WinSet, Named
<1>2. Checking(y, C)
  BY DEF RunBatchItem
<1> HIDE DEF y
<1> QED
  BY <1>1, <1>2, CheckingCore

LEMMA OnwardCore ==
  ASSUME Core, Quietly, NEW x \in WinSet, NEW C \in SUBSET calls, Onward(x, C),
         x.req = w.req, x.idx = w.idx, x.init = w.init, x.restarting = w.restarting,
         x.jobId \in {0, w.jobId}, x.asking \/ x.needPassword => w.req # <<>>
  PROVE  Core'
<1>1. CASE x.idx < Len(x.req)
  <2> DEFINE y == [x EXCEPT !.idx = @ + 1]
  <2>1. /\ y \in WinSet /\ y.req = x.req /\ y.idx = x.idx + 1 /\ y.init = x.init
        /\ y.restarting = x.restarting
    BY DEF WinSet
  <2>2. RunBatchItem(y, C)
    BY <1>1 DEF Onward
  <2>3. x.idx \in Nat \ {0} /\ Len(x.req) \in Nat /\ x.req # <<>>
    <3>1. x.idx \in Nat \ {0} /\ x.req \in Asked
      BY DEF WinSet
    <3> QED
      BY <1>1, <3>1, AskedFacts
  <2>4. y.req # <<>> /\ y.idx <= Len(y.req)
    BY <1>1, <2>1, <2>3
  <2> HIDE DEF y
  <2> QED
    BY <2>1, <2>2, <2>4, BatchCore
<1>2. CASE ~(x.idx < Len(x.req))
  <2>1. w' = Done(x, IF x.issue THEN "warning" ELSE "ok") /\ calls' = C
    BY <1>2 DEF Onward
  <2>2. /\ w' \in WinSet /\ w'.req = x.req /\ w'.idx = x.idx /\ w'.init = x.init
        /\ w'.restarting = x.restarting /\ w'.jobId = x.jobId /\ w'.asking = x.asking
        /\ w'.needPassword = x.needPassword
    BY <2>1 DEF Done, WinSet, Ends
  <2> QED
    BY <2>1, <2>2, SameCore
<1> QED
  BY <1>1, <1>2

LEMMA DoneSame ==
  ASSUME NEW x \in WinSet, NEW r \in Ends
  PROVE  /\ Done(x, r) \in WinSet /\ Done(x, r).req = x.req /\ Done(x, r).idx = x.idx
         /\ Done(x, r).init = x.init /\ Done(x, r).jobId = x.jobId /\ Done(x, r).mode = x.mode
         /\ Done(x, r).restarting = x.restarting /\ Done(x, r).buffer = x.buffer
         /\ Done(x, r).asking = x.asking /\ Done(x, r).needPassword = x.needPassword
         /\ Done(x, r).checking = x.checking /\ Done(x, r).starting = x.starting
         /\ Done(x, r).finishing = x.finishing
         /\ Done(x, r).phase = "done" /\ Done(x, r).result = r
BY DEF Done, WinSet

LEMMA EndsAre == {"ok", "warning", "canceled", "error", "password"} = Ends
BY DEF Ends

LEMMA OnwardBuffer ==
  ASSUME NEW x \in WinSet, NEW C, Onward(x, C)
  PROVE  w'.buffer = x.buffer
BY DEF Onward, RunBatchItem, Checking, Done, WinSet

LEMMA BlankTyped ==
  /\ Blank \in WinSet /\ Blank.buffer = {} /\ Blank.req = <<>> /\ Blank.idx = 1 /\ Blank.jobId = 0
  /\ Blank.phase = "form" /\ Blank.mode = "form" /\ ~Blank.init /\ Free(Blank)
BY NoneAsked DEF Blank, WinSet, Named, Free

LEMMA LoadBuffer ==
  ASSUME NEW x \in WinSet, NEW req \in Asked, NEW C, Load(x, req, C)
  PROVE  w'.buffer = x.buffer
<1> DEFINE y == [x EXCEPT !.req = req, !.idx = 1, !.mode = ModeOf(req), !.restarting = FALSE]
           z == [y EXCEPT !.phase = "running"]
<1>1. \/ \E tick \in BOOLEAN : w' = [y EXCEPT !.deleteAfter = tick]
      \/ Checking(z, C) \/ RunBatchItem(z, C) \/ y.mode \notin {"form", "auto", "batch"}
  BY DEF Load
<1>2. y.buffer = x.buffer /\ z.buffer = x.buffer
  BY DEF WinSet
<1>3. y.mode \in {"form", "auto", "batch"}
  BY DEF ModeOf, WinSet
<1>4. ASSUME NEW tick, w' = [y EXCEPT !.deleteAfter = tick] PROVE w'.buffer = y.buffer
  BY <1>4 DEF WinSet
<1>5. ASSUME Checking(z, C) \/ RunBatchItem(z, C) PROVE w'.buffer = z.buffer
  BY <1>5 DEF Checking, RunBatchItem, WinSet
<1> QED
  BY <1>1, <1>2, <1>3, <1>4, <1>5

LEMMA LoadCore ==
  ASSUME Core, Quietly, NEW req \in Asked, req # <<>>, NEW C \in SUBSET calls,
         \A c \in C : ~Takes(c), Load(w, req, C)
  PROVE  Core'
<1>0. w \in WinSet /\ ModeOf(req) \in {"form", "auto", "batch"} /\ 1 <= Len(req)
  BY ModeRight, AskedFacts DEF Core, WinTyped
<1> DEFINE m == ModeOf(req)
           y == [w EXCEPT !.req = req, !.idx = 1, !.mode = m, !.restarting = FALSE]
<1>1. /\ y \in WinSet /\ y.req = req /\ y.idx = 1 /\ y.mode = m /\ ~y.restarting
      /\ y.init = w.init /\ y.jobId = w.jobId /\ m \in {"form", "auto", "batch"}
  <2>1. m \in {"form", "auto", "batch"}
    BY <1>0
  <2> HIDE DEF m
  <2>2. 1 \in Nat \ {0} /\ FALSE \in BOOLEAN
    OBVIOUS
  <2>3. y \in WinSet
    BY <1>0, <2>1, <2>2 DEF WinSet
  <2>4. y.req = req /\ y.idx = 1 /\ y.mode = m
    BY <1>0 DEF WinSet
  <2>5. ~y.restarting /\ y.init = w.init /\ y.jobId = w.jobId
    BY <1>0 DEF WinSet
  <2> QED
    BY <2>1, <2>3, <2>4, <2>5
<1>2. CASE y.mode = "form"
  <2>1. PICK tick \in BOOLEAN : w' = [y EXCEPT !.deleteAfter = tick] /\ calls' = C
    BY <1>2 DEF Load
  <2> HIDE DEF y
  <2>2. /\ w' \in WinSet /\ w'.req = req /\ w'.idx = 1 /\ ~w'.restarting /\ w'.init = w.init
        /\ w'.jobId = w.jobId
    BY <1>1, <2>1 DEF WinSet
  <2>3. w'.jobId <= jobs /\ calls' \subseteq CallSet /\ \A c \in calls' : c.id <= jobs
    BY <2>1, <2>2 DEF Core, WinTyped, Issued
  <2>4. Places'
    BY <1>0, <2>1, <2>2 DEF Core, Places, Quietly, Takes
  <2> QED
    BY <2>2, <2>3, <2>4, QuietCore
<1>3. CASE y.mode \in {"auto", "batch"}
  <2> DEFINE z == [y EXCEPT !.phase = "running"]
  <2>1. Checking(z, C) \/ RunBatchItem(z, C)
    BY <1>3 DEF Load
  <2> HIDE DEF y
  <2>2. /\ z \in WinSet /\ z.req = req /\ z.idx = 1 /\ ~z.restarting /\ z.init = w.init
        /\ z.jobId = w.jobId
    BY <1>1 DEF WinSet
  <2> HIDE DEF z
  <2>3. CASE Checking(z, C)
    BY <1>0, <2>2, <2>3, CheckingCore
  <2>4. CASE RunBatchItem(z, C)
    BY <1>0, <2>2, <2>4, BatchCore
  <2> QED
    BY <2>1, <2>3, <2>4
<1> QED
  BY <1>0, <1>1, <1>2, <1>3

LEMMA GoneCore ==
  ASSUME Core, Gone, jobs' = jobs PROVE Core'
<1>1. w' \in WinSet /\ w'.buffer = {} /\ w'.req = <<>> /\ w'.idx = 1 /\ w'.jobId = 0
      /\ Free(w') /\ ~w'.init /\ w' = Blank /\ calls' = {} /\ events' = {}
      /\ win' = "dying"
  BY BlankTyped DEF Gone
<1>2. job' = Idle \/ (job' \in JobSet /\ job \in JobSet /\ job'.id = job.id /\ job # Idle)
  BY DEF Gone, Core, WinTyped, JobSet
<1>3. WinTyped'
  BY <1>1, <1>2 DEF Core, WinTyped
<1>4. Issued'
  BY <1>1, <1>2 DEF Core, WinTyped, Issued, JobSet
<1>5. EndsOnce'
  BY <1>1 DEF EndsOnce
<1>6. Places'
  BY <1>1 DEF Places, Free
<1> QED
  BY <1>3, <1>4, <1>5, <1>6 DEF Core

LEMMA ShellCore ==
  ASSUME Core, ExtractNext, Deliver \/ Mount \/ Destroyed \/ \E a \in unasked : HandleInner(a)
  PROVE  Core'
<1>1. ASSUME UNCHANGED <<win, w, calls, job, jobs, events>> PROVE Core'
  BY <1>1 DEF Core, WinTyped, Issued, EndsOnce, Places
<1>2. CASE (\E a \in unasked : HandleInner(a)) \/ (\E g \in timers : Flush(g)) \/ (\E o \in openers : Keep(o))
  BY <1>1, <1>2 DEF HandleInner, Flush, Keep, jobVars
<1>3. ASSUME NEW o \in openers, Tell(o) PROVE Core'
  <2>1. UNCHANGED <<win, calls, job, jobs, events, good>>
    BY <1>3 DEF Tell, jobVars
  <2>2. CASE win = "open"
    <3>1. w' = [w EXCEPT !.pending = TRUE] /\ w \in WinSet
      BY <1>3, <2>2 DEF Tell, Core, WinTyped
    <3>2. /\ w' \in WinSet /\ w'.req = w.req /\ w'.idx = w.idx /\ w'.init = w.init
          /\ w'.restarting = w.restarting /\ w'.jobId = w.jobId /\ w'.asking = w.asking
          /\ w'.needPassword = w.needPassword /\ w'.buffer = w.buffer
      BY <3>1 DEF WinSet
    <3>3. Quietly
      BY <2>1, <2>2, <3>2 DEF Quietly
    <3>4. w.asking \/ w.needPassword => w.req # <<>>
      BY DEF Core, Places
    <3> QED
      BY <2>1, <3>2, <3>3, <3>4, SameCore
  <2>3. CASE win # "open"
    BY <1>1, <1>3, <2>1, <2>3 DEF Tell
  <2> QED
    BY <2>2, <2>3
<1>4. ASSUME NEW o \in openers, Build(o) PROVE Core'
  <2>1. win' = "mounting" /\ w' = Blank /\ UNCHANGED <<calls, job, jobs, events>> /\ calls = {} /\ w = Blank
    BY <1>4 DEF Build, jobVars, Core, Places
  <2> QED
    BY <2>1 DEF Core, WinTyped, Issued, EndsOnce, Places
<1>5. CASE Mount
  <2> DEFINE k == Call("take", NoArchive)
  <2>1. /\ win' = "open" /\ calls' = {k} /\ UNCHANGED <<w, job, jobs, events>> /\ w = Blank
    BY <1>5 DEF Mount, jobVars, Core, Places
  <2>2. k \in CallSet /\ k.id = 0 /\ k.op = "take"
    BY NoneAsked DEF Call, CallSet, WinSet, WinTyped, Core, Named
  <2> HIDE DEF k
  <2>3. ~w.init /\ ~w.restarting /\ ~w.asking /\ ~w.needPassword /\ w.jobId = 0 /\ w.req = <<>> /\ w.idx = 1
    BY <2>1, BlankTyped DEF Free
  <2>4. Places'
    BY <2>1, <2>2, <2>3 DEF Places, Takes
  <2> QED
    BY <2>1, <2>2, <2>4 DEF Core, WinTyped, Issued, EndsOnce
<1>6. CASE Destroyed
  <2>1. win' = "none" /\ UNCHANGED <<w, calls, job, jobs, events>> /\ win # "open"
    BY <1>6 DEF Destroyed, jobVars
  <2> QED
    BY <2>1 DEF Core, WinTyped, Issued, EndsOnce, Places
<1> QED
  BY <1>2, <1>3, <1>4, <1>5, <1>6 DEF Deliver

LEMMA UserCore ==
  ASSUME Core, User PROVE Core'
<1>0. w \in WinSet /\ (w.asking \/ w.needPassword => w.req # <<>>) /\ (w.req # <<>> => w.idx <= Len(w.req))
  BY DEF Core, WinTyped, Places
<1> DEFINE q == UNCHANGED <<win, job, jobs, good, events>>
<1>1. CASE Confirm
  <2>1. /\ Checking(w, calls) /\ win = "open" /\ w.req # <<>> /\ q
    BY <1>1 DEF Confirm, jobVars, Checking
  <2>2. Quietly
    BY <2>1, <1>0 DEF Quietly, Checking, WinSet
  <2> QED
    BY <1>0, <2>1, <2>2, CheckingCore
<1>2. CASE ConfirmConflictChoice
  <2> DEFINE x == [w EXCEPT !.asking = FALSE]
  <2>1. StartExtract(x, calls) /\ win = "open" /\ w.asking /\ q
    BY <1>2 DEF ConfirmConflictChoice, jobVars
  <2>2. /\ x \in WinSet /\ x.req = w.req /\ x.idx = w.idx /\ x.init = w.init /\ x.jobId = w.jobId
        /\ x.restarting = w.restarting /\ x.buffer = w.buffer
    BY <1>0 DEF WinSet
  <2> HIDE DEF x
  <2>3. Quietly
    BY <2>1, <2>2 DEF Quietly, StartExtract, WinSet
  <2> QED
    BY <1>0, <2>1, <2>2, <2>3, StartCore
<1>3. CASE CancelConflict
  <2> DEFINE x == [w EXCEPT !.asking = FALSE]
             y == [x EXCEPT !.issue = TRUE]
  <2>1. /\ win = "open" /\ w.asking /\ q
        /\ ((w' = x \/ w' = Done(x, "canceled")) /\ calls' = calls) \/ Onward(y, calls)
    BY <1>0, <1>3 DEF CancelConflict, jobVars, WinSet
  <2>2. /\ x \in WinSet /\ x.req = w.req /\ x.idx = w.idx /\ x.init = w.init /\ x.jobId = w.jobId
        /\ x.restarting = w.restarting /\ x.buffer = w.buffer
    BY <1>0 DEF WinSet
  <2>3. /\ y \in WinSet /\ y.req = w.req /\ y.idx = w.idx /\ y.init = w.init /\ y.jobId = w.jobId
        /\ y.restarting = w.restarting /\ y.buffer = w.buffer
    BY <1>0 DEF WinSet
  <2> HIDE DEF x, y
  <2>4. CASE (w' = x \/ w' = Done(x, "canceled")) /\ calls' = calls
    <3>1. /\ w' \in WinSet /\ w'.req = w.req /\ w'.idx = w.idx /\ w'.init = w.init /\ w'.jobId = w.jobId
          /\ w'.restarting = w.restarting /\ w'.buffer = w.buffer
      BY <2>2, <2>4, DoneSame, EndsAre
    <3> QED
      BY <1>0, <2>1, <2>4, <3>1, SameCore DEF Quietly
  <2>5. CASE Onward(y, calls)
    <3>1. Quietly
      BY <2>1, <2>3, <2>5, OnwardBuffer DEF Quietly
    <3> QED
      BY <1>0, <2>1, <2>3, <2>5, <3>1, OnwardCore
  <2> QED
    BY <2>1, <2>4, <2>5
<1>4. CASE SubmitPassword
  <2> DEFINE x == [w EXCEPT !.needPassword = FALSE, !.opens = TRUE]
  <2>1. (Checking(x, calls) \/ StartExtract(x, calls)) /\ win = "open" /\ w.needPassword /\ q
    BY <1>4 DEF SubmitPassword, jobVars
  <2>2. /\ x \in WinSet /\ x.req = w.req /\ x.idx = w.idx /\ x.init = w.init /\ x.jobId = w.jobId
        /\ x.restarting = w.restarting /\ x.buffer = w.buffer
    BY <1>0 DEF WinSet
  <2> HIDE DEF x
  <2>3. Quietly
    BY <2>1, <2>2 DEF Quietly, StartExtract, Checking, WinSet
  <2> QED
    BY <1>0, <2>1, <2>2, <2>3, StartCore, CheckingCore
<1>5. CASE CancelPassword
  <2> DEFINE x == [w EXCEPT !.needPassword = FALSE]
             y == [x EXCEPT !.issue = TRUE]
  <2>1. /\ win = "open" /\ w.needPassword /\ q
        /\ (w' = Done(x, "canceled") /\ calls' = calls) \/ Onward(y, calls)
    BY <1>5 DEF CancelPassword, jobVars
  <2>2. /\ x \in WinSet /\ x.req = w.req /\ x.idx = w.idx /\ x.init = w.init /\ x.jobId = w.jobId
        /\ x.restarting = w.restarting /\ x.buffer = w.buffer
    BY <1>0 DEF WinSet
  <2>3. /\ y \in WinSet /\ y.req = w.req /\ y.idx = w.idx /\ y.init = w.init /\ y.jobId = w.jobId
        /\ y.restarting = w.restarting /\ y.buffer = w.buffer
    BY <1>0 DEF WinSet
  <2> HIDE DEF x, y
  <2>4. CASE w' = Done(x, "canceled") /\ calls' = calls
    <3>1. /\ w' \in WinSet /\ w'.req = w.req /\ w'.idx = w.idx /\ w'.init = w.init /\ w'.jobId = w.jobId
          /\ w'.restarting = w.restarting /\ w'.buffer = w.buffer
      BY <2>2, <2>4, DoneSame, EndsAre
    <3> QED
      BY <1>0, <2>1, <2>4, <3>1, SameCore DEF Quietly
  <2>5. CASE Onward(y, calls)
    <3>1. Quietly
      BY <2>1, <2>3, <2>5, OnwardBuffer DEF Quietly
    <3> QED
      BY <1>0, <2>1, <2>3, <2>5, <3>1, OnwardCore
  <2> QED
    BY <2>1, <2>4, <2>5
<1>6. CASE CancelJob
  <2>1. /\ job # Idle /\ job' = [job EXCEPT !.canceled = TRUE] /\ UNCHANGED <<win, w, calls, jobs, events>>
    BY <1>6 DEF CancelJob
  <2>2. job' \in JobSet /\ job'.id = job.id
    BY <2>1 DEF Core, WinTyped, JobSet
  <2> QED
    BY <2>1, <2>2 DEF Core, WinTyped, Issued, EndsOnce, Places
<1>7. CASE Close
  BY <1>7, GoneCore DEF Close
<1> QED
  BY <1>1, <1>2, <1>3, <1>4, <1>5, <1>6, <1>7 DEF User

LEMMA FinishedCore ==
  ASSUME Core, win = "open", win' = "open", UNCHANGED <<job, jobs>>, good \subseteq good', events' \subseteq events,
         NEW end \in Ends, NEW C \in SUBSET calls, Finished(w, end, C)
  PROVE  Core'
<1>0. w \in WinSet /\ (w.asking \/ w.needPassword => w.req # <<>>)
  BY DEF Core, WinTyped, Places
<1>1. CASE w.mode = "batch"
  <2> DEFINE x == [w EXCEPT !.issue = @ \/ end # "ok", !.finishing = FALSE]
  <2>1. Onward(x, C)
    BY <1>1 DEF Finished
  <2>2. /\ x \in WinSet /\ x.req = w.req /\ x.idx = w.idx /\ x.init = w.init /\ x.jobId = w.jobId
        /\ x.restarting = w.restarting /\ x.buffer = w.buffer
        /\ (x.asking <=> w.asking) /\ (x.needPassword <=> w.needPassword)
    <3>1. (w.issue \/ end # "ok") \in BOOLEAN
      OBVIOUS
    <3> QED
      BY <1>0, <3>1 DEF WinSet
  <2> HIDE DEF x
  <2>3. Quietly
    BY <2>1, <2>2, OnwardBuffer DEF Quietly
  <2> QED
    BY <1>0, <2>1, <2>2, <2>3, OnwardCore
<1>2. CASE w.mode # "batch"
  <2> DEFINE x == Done(w, end)
  <2>1. w' = [x EXCEPT !.finishing = TRUE] /\ calls' = C
    BY <1>2 DEF Finished
  <2>2. /\ x \in WinSet /\ x.req = w.req /\ x.idx = w.idx /\ x.init = w.init /\ x.jobId = w.jobId
        /\ x.restarting = w.restarting /\ x.buffer = w.buffer
        /\ x.asking = w.asking /\ x.needPassword = w.needPassword
    BY <1>0, DoneSame
  <2> HIDE DEF x
  <2>3. /\ w' \in WinSet /\ w'.req = w.req /\ w'.idx = w.idx /\ w'.init = w.init /\ w'.jobId = w.jobId
        /\ w'.restarting = w.restarting /\ w'.buffer = w.buffer
        /\ w'.asking = w.asking /\ w'.needPassword = w.needPassword
    BY <2>1, <2>2 DEF WinSet
  <2> QED
    BY <1>0, <2>1, <2>3, SameCore DEF Quietly
<1> QED
  BY <1>1, <1>2

LEMMA ScriptCore ==
  ASSUME Core, Initialized \/ React \/ FinishUp \/ JobEnds \/ JobPanics
               \/ \E e \in events : Unmatched(e) \/ OnJobErrored(e) \/ OnJobFinished(e)
  PROVE  Core'
<1>0. w \in WinSet /\ (w.asking \/ w.needPassword => w.req # <<>>) /\ (w.req # <<>> => w.idx <= Len(w.req))
  BY DEF Core, WinTyped, Places
<1>1. CASE Initialized
  <2>1. /\ w' = [w EXCEPT !.init = TRUE] /\ calls' = calls /\ win = "open" /\ win' = win
        /\ UNCHANGED <<job, jobs, events, good>> /\ \A c \in calls : c.op # "take"
    BY <1>1 DEF Initialized, Handled, jobVars
  <2>2. /\ w' \in WinSet /\ w'.req = w.req /\ w'.idx = w.idx /\ w'.init /\ w'.jobId = w.jobId
        /\ w'.restarting = w.restarting /\ w'.buffer = w.buffer /\ w'.asking = w.asking
        /\ w'.needPassword = w.needPassword
    BY <1>0, <2>1 DEF WinSet
  <2>3. Places'
    BY <2>1, <2>2 DEF Places, Core, Takes
  <2>4. w'.jobId <= jobs /\ calls' \subseteq CallSet /\ \A c \in calls' : c.id <= jobs
    BY <2>1, <2>2 DEF Core, WinTyped, Issued
  <2> QED
    BY <2>1, <2>2, <2>3, <2>4, QuietCore DEF Quietly
<1>2. CASE React
  <2> DEFINE k == Call("take", NoArchive)
  <2>1. /\ w' = [w EXCEPT !.pending = FALSE, !.restarting = TRUE] /\ calls' = calls \cup {k}
        /\ win = "open" /\ win' = win /\ UNCHANGED <<job, jobs, events, good>>
        /\ w.init /\ ~w.restarting
    BY <1>2 DEF React, ReactDue, Busy, Handled, jobVars
  <2>2. k \in CallSet /\ k.id = 0 /\ k.op = "take"
    BY NoneAsked DEF Call, CallSet, WinSet, WinTyped, Core, Named
  <2> HIDE DEF k
  <2>3. /\ w' \in WinSet /\ w'.req = w.req /\ w'.idx = w.idx /\ w'.init /\ w'.jobId = w.jobId
        /\ w'.restarting /\ w'.buffer = w.buffer /\ w'.asking = w.asking
        /\ w'.needPassword = w.needPassword
    BY <1>0, <2>1 DEF WinSet
  <2>4. \A c \in calls : ~Takes(c)
    BY <2>1 DEF Core, Places, Takes
  <2>5. Places'
    BY <2>1, <2>2, <2>3, <2>4 DEF Places, Core, Takes
  <2>6. w'.jobId <= jobs /\ calls' \subseteq CallSet /\ \A c \in calls' : c.id <= jobs
    BY <2>1, <2>2, <2>3 DEF Core, WinTyped, Issued
  <2> QED
    BY <2>1, <2>3, <2>5, <2>6, QuietCore DEF Quietly
<1>3. CASE FinishUp
  <2>1. CASE Gone
    BY <1>3, <2>1, GoneCore DEF FinishUp
  <2>2. CASE ~Gone
    <3>1. /\ w' = [w EXCEPT !.finishing = FALSE] /\ UNCHANGED <<win, calls, job, events, jobs, good>>
          /\ win = "open"
      BY <1>3, <2>2 DEF FinishUp
    <3>2. /\ w' \in WinSet /\ w'.req = w.req /\ w'.idx = w.idx /\ w'.init = w.init /\ w'.jobId = w.jobId
          /\ w'.restarting = w.restarting /\ w'.buffer = w.buffer /\ w'.asking = w.asking
          /\ w'.needPassword = w.needPassword
      BY <1>0, <3>1 DEF WinSet
    <3> QED
      BY <1>0, <3>1, <3>2, SameCore DEF Quietly
  <2> QED
    BY <2>1, <2>2
<1>4. CASE JobEnds
  <2>1. PICK end \in Ends : events' = IF win = "open" THEN events \cup {[id |-> job.id, end |-> end]} ELSE {}
    BY <1>4 DEF JobEnds, Outcomes, Ends
  <2>2. job \in JobSet /\ job # Idle /\ job' = Idle /\ UNCHANGED <<win, w, calls, jobs>>
    BY <1>4 DEF JobEnds, Core, WinTyped
  <2> DEFINE n == [id |-> job.id, end |-> end]
  <2>3. n \in EventSet /\ n.id = job.id /\ job.id <= jobs
    BY <2>2 DEF EventSet, JobSet, Core, Issued
  <2>4. events' \subseteq events \cup {n}
    BY <2>1
  <2> HIDE DEF n
  <2>5. WinTyped' /\ Issued'
    BY <2>2, <2>3, <2>4 DEF Core, WinTyped, Issued
  <2>6. EndsOnce'
    BY <2>2, <2>3, <2>4 DEF Core, EndsOnce
  <2>7. Places'
    BY <2>2 DEF Core, Places
  <2> QED
    BY <2>5, <2>6, <2>7 DEF Core
<1>p. CASE JobPanics
  <2>1. job' = Idle /\ UNCHANGED <<win, w, calls, jobs, events>>
    BY <1>p DEF JobPanics
  <2> QED
    BY <2>1 DEF Core, WinTyped, Issued, EndsOnce, Places
<1>5. ASSUME NEW e \in events, Unmatched(e) PROVE Core'
  <2>1. /\ win = "open" /\ UNCHANGED <<win, calls, job, jobs, good>> /\ events' = events \ {e}
        /\ w' = w \/ w' = [w EXCEPT !.buffer = @ \cup {e}]
    BY <1>5 DEF Unmatched, Heard, Handled
  <2>2. e \in EventSet
    BY DEF Core, WinTyped
  <2>3. /\ w' \in WinSet /\ w'.req = w.req /\ w'.idx = w.idx /\ w'.init = w.init /\ w'.jobId = w.jobId
        /\ w'.restarting = w.restarting /\ w'.buffer \in {w.buffer, w.buffer \cup {e}} /\ w'.asking = w.asking
        /\ w'.needPassword = w.needPassword
    BY <1>0, <2>1, <2>2 DEF WinSet
  <2>4. WinTyped' /\ Issued'
    BY <2>1, <2>2, <2>3 DEF Core, WinTyped, Issued
  <2>5. EndsOnce'
    BY <2>1, <2>3 DEF Core, EndsOnce
  <2>6. Places'
    BY <2>1, <2>3 DEF Core, Places, Takes
  <2> QED
    BY <2>4, <2>5, <2>6 DEF Core
<1>6. ASSUME NEW e \in events, OnJobErrored(e) PROVE Core'
  <2>1. /\ win = "open" /\ UNCHANGED <<win, job, jobs, good>> /\ events' \subseteq events
        /\ w.jobId = e.id
    BY <1>6 DEF OnJobErrored, Heard
  <2>2. w.jobId # 0 /\ w.req # <<>>
    <3>1. e \in EventSet
      BY DEF Core, WinTyped
    <3> QED
      BY <2>1, <3>1 DEF Core, Places, EventSet
  <2> DEFINE x == [w EXCEPT !.jobId = 0, !.starting = FALSE, !.phase = "running", !.needPassword = TRUE]
             y == [w EXCEPT !.issue = TRUE]
  <2>3. \/ w' = x /\ calls' = calls
        \/ Onward(y, calls)
        \/ w' = Done(w, "error") /\ calls' = calls
    BY <1>6 DEF OnJobErrored
  <2>4. CASE w' = x /\ calls' = calls
    <3>1. /\ w' \in WinSet /\ w'.req = w.req /\ w'.idx = w.idx /\ w'.init = w.init /\ w'.jobId = 0
          /\ w'.restarting = w.restarting /\ w'.buffer = w.buffer
      BY <1>0, <2>4 DEF WinSet
    <3> QED
      BY <2>1, <2>2, <2>4, <3>1, SameCore DEF Quietly
  <2>5. CASE Onward(y, calls)
    <3>1. /\ y \in WinSet /\ y.req = w.req /\ y.idx = w.idx /\ y.init = w.init /\ y.jobId = w.jobId
          /\ y.restarting = w.restarting /\ y.buffer = w.buffer
      BY <1>0 DEF WinSet
    <3> HIDE DEF y
    <3>2. Quietly
      BY <2>1, <2>5, <3>1, OnwardBuffer DEF Quietly
    <3> QED
      BY <2>2, <2>5, <3>1, <3>2, OnwardCore
  <2>6. CASE w' = Done(w, "error") /\ calls' = calls
    <3>1. /\ w' \in WinSet /\ w'.req = w.req /\ w'.idx = w.idx /\ w'.init = w.init /\ w'.jobId = w.jobId
          /\ w'.restarting = w.restarting /\ w'.buffer = w.buffer
      BY <1>0, <2>6, DoneSame, EndsAre
    <3> QED
      BY <2>1, <2>2, <2>6, <3>1, SameCore DEF Quietly
  <2> QED
    BY <2>3, <2>4, <2>5, <2>6
<1>7. ASSUME NEW e \in events, OnJobFinished(e) PROVE Core'
  <2>1. /\ win = "open" /\ UNCHANGED <<win, job, jobs, good>> /\ events' \subseteq events
        /\ w.jobId = e.id /\ e.end \in Ends
    BY <1>7, EndsAre DEF OnJobFinished, Heard
  <2>2. w.jobId # 0 /\ w.req # <<>>
    <3>1. e \in EventSet
      BY DEF Core, WinTyped
    <3> QED
      BY <2>1, <3>1 DEF Core, Places, EventSet
  <2> DEFINE k == Call("delete", Target(w))
  <2>3. \/ w' = Done(w, "canceled") /\ calls' = calls
        \/ w' = [w EXCEPT !.finishing = TRUE] /\ calls' = calls \cup {k}
        \/ Finished(w, e.end, calls)
    BY <1>7 DEF OnJobFinished
  <2>4. CASE w' = Done(w, "canceled") /\ calls' = calls
    <3>1. /\ w' \in WinSet /\ w'.req = w.req /\ w'.idx = w.idx /\ w'.init = w.init /\ w'.jobId = w.jobId
          /\ w'.restarting = w.restarting /\ w'.buffer = w.buffer
      BY <1>0, <2>4, DoneSame, EndsAre
    <3> QED
      BY <2>1, <2>2, <2>4, <3>1, SameCore DEF Quietly
  <2>5. CASE w' = [w EXCEPT !.finishing = TRUE] /\ calls' = calls \cup {k}
    <3>1. Target(w) \in Chosen
      BY <1>0, <2>2, TargetRight
    <3>2. k \in CallSet /\ k.id = 0 /\ k.op = "delete" /\ k.arc = Target(w)
      BY <3>1, NoneAsked DEF Call, CallSet, WinSet, WinTyped, Core, Named
    <3> HIDE DEF k
    <3>3. /\ w' \in WinSet /\ w'.req = w.req /\ w'.idx = w.idx /\ w'.init = w.init /\ w'.jobId = w.jobId
          /\ w'.restarting = w.restarting /\ w'.buffer = w.buffer /\ w'.asking = w.asking
          /\ w'.needPassword = w.needPassword
      BY <1>0, <2>5 DEF WinSet
    <3>4. Places'
      BY <2>1, <2>2, <2>5, <3>1, <3>2, <3>3 DEF Places, Core, Takes
    <3>5. w'.jobId <= jobs /\ calls' \subseteq CallSet /\ \A c \in calls' : c.id <= jobs
      BY <2>5, <3>2, <3>3 DEF Core, WinTyped, Issued
    <3> QED
      BY <2>1, <3>3, <3>4, <3>5, QuietCore DEF Quietly
  <2>6. CASE Finished(w, e.end, calls)
    BY <2>1, <2>6, FinishedCore
  <2> QED
    BY <2>3, <2>4, <2>5, <2>6
<1> QED
  BY <1>1, <1>2, <1>3, <1>4, <1>p, <1>5, <1>6, <1>7

\* What a new request leaves of the old one.
LEMMA ClearedFacts ==
  ASSUME NEW x \in WinSet
  PROVE  /\ Cleared(x) \in WinSet /\ Cleared(x).req = x.req /\ Cleared(x).idx = x.idx
         /\ Cleared(x).init = x.init /\ Cleared(x).restarting = x.restarting
         /\ Cleared(x).jobId = 0 /\ Cleared(x).buffer = {} /\ Cleared(x).mode = "form"
         /\ Cleared(x).phase = "form" /\ Cleared(x).result = "none"
         /\ ~Cleared(x).needPassword /\ ~Cleared(x).asking /\ ~Cleared(x).starting
         /\ Cleared(x).checking = x.checking /\ Cleared(x).finishing = x.finishing
<1>1. Cleared(x) \in WinSet
  <2> DEFINE n == x.gen + 1
             y == [x EXCEPT !.gen = n, !.jobId = 0, !.result = "none", !.mode = "form", !.phase = "form"]
             z == [y EXCEPT !.needPassword = FALSE, !.asking = FALSE, !.issue = FALSE, !.starting = FALSE, !.opens = TRUE]
  <2>1. n \in Nat
    BY DEF WinSet
  <2>2. Cleared(x) = [z EXCEPT !.buffer = {}]
    BY DEF Cleared, WinSet
  <2> HIDE DEF n
  <2>3. y \in WinSet
    BY <2>1 DEF WinSet
  <2> HIDE DEF y
  <2>4. z \in WinSet
    BY <2>3 DEF WinSet
  <2> HIDE DEF z
  <2> QED
    BY <2>2, <2>4 DEF WinSet
<1>2. /\ Cleared(x).req = x.req /\ Cleared(x).idx = x.idx
      /\ Cleared(x).jobId = 0 /\ Cleared(x).buffer = {} /\ Cleared(x).mode = "form"
      /\ Cleared(x).phase = "form" /\ Cleared(x).result = "none"
  BY DEF Cleared, WinSet
<1>3. /\ ~Cleared(x).needPassword /\ ~Cleared(x).asking /\ ~Cleared(x).starting
  BY DEF Cleared, WinSet
<1>4. /\ Cleared(x).init = x.init /\ Cleared(x).restarting = x.restarting
      /\ Cleared(x).checking = x.checking /\ Cleared(x).finishing = x.finishing
  BY DEF Cleared, WinSet
<1> QED
  BY <1>1, <1>2, <1>3, <1>4

LEMMA AnswersCore ==
  ASSUME Core, Kept, NEW c \in calls, AnswersTo(c) PROVE Core'
<1>0. /\ w \in WinSet /\ c \in CallSet /\ c.id <= jobs
      /\ win = "open" /\ calls \subseteq CallSet /\ calls \ {c} \in SUBSET calls
      /\ (w.asking \/ w.needPassword \/ w.jobId # 0 => w.req # <<>>)
      /\ (w.req # <<>> => w.idx <= Len(w.req))
      /\ (c.op \in {"check", "extract", "delete"} => c.arc \in Chosen /\ w.req # <<>>)
      /\ (c.op = "load" => w.restarting /\ c.req # <<>>)
      /\ (c.op = "take" => (w.init <=> w.restarting))
      /\ \A d \in calls : Takes(c) /\ Takes(d) => c = d
  BY DEF Core, WinTyped, Issued, Places
<1>1. CASE Take(c)
  <2> DEFINE d == [c EXCEPT !.req = slot, !.answer = "ok"]
  <2>1. calls' = (calls \ {c}) \cup {d} /\ UNCHANGED <<win, w, job, jobs, events, good>> /\ c.op = "take"
    BY <1>1 DEF Take, jobVars
  <2>2. d \in CallSet /\ d.id = c.id /\ d.op = "take"
    BY <1>0, <2>1 DEF CallSet, Kept
  <2> HIDE DEF d
  <2>3. Places'
    BY <1>0, <2>1, <2>2 DEF Core, Places, Takes
  <2>4. w'.jobId <= jobs /\ calls' \subseteq CallSet /\ \A x \in calls' : x.id <= jobs
    BY <1>0, <2>1, <2>2 DEF Core, WinTyped, Issued
  <2> QED
    BY <1>0, <2>1, <2>3, <2>4, QuietCore DEF Quietly
<1>2. CASE TakenAtMount(c) \/ Loaded(c)
  <2>1. /\ UNCHANGED <<win, job, jobs, events, good>> /\ Takes(c)
        /\ \/ w' = w /\ calls' = calls \ {c}
           \/ Load(w, c.req, calls \ {c}) /\ c.req # <<>>
    BY <1>0, <1>2 DEF TakenAtMount, Loaded, Takes, jobVars
  <2>2. CASE w' = w /\ calls' = calls \ {c}
    BY <1>0, <2>1, <2>2, SameCore DEF Quietly
  <2>3. CASE Load(w, c.req, calls \ {c}) /\ c.req # <<>>
    <3>1. c.req \in Asked
      BY <1>0 DEF CallSet
    <3>2. w'.buffer = w.buffer
      BY <1>0, <2>3, <3>1, LoadBuffer
    <3>3. \A d \in calls \ {c} : ~Takes(d)
      BY <1>0, <2>1
    <3> QED
      BY <1>0, <2>1, <2>3, <3>1, <3>2, <3>3, LoadCore DEF Quietly
  <2> QED
    BY <2>1, <2>2, <2>3
<1>3. CASE Taken(c)
  <2>1. UNCHANGED <<win, job, jobs, events, good>> /\ c.op = "take" /\ w.restarting /\ Takes(c)
    BY <1>3 DEF Taken, Handled, jobVars, Takes
  <2>2. CASE c.req = <<>>
    <3>1. w' = [w EXCEPT !.restarting = FALSE] /\ calls' = calls \ {c}
      BY <1>3, <2>2 DEF Taken, Handled
    <3>2. /\ w' \in WinSet /\ w'.req = w.req /\ w'.idx = w.idx /\ w'.init = w.init /\ w'.jobId = w.jobId
          /\ ~w'.restarting /\ w'.buffer = w.buffer /\ w'.asking = w.asking
          /\ w'.needPassword = w.needPassword
      BY <1>0, <3>1 DEF WinSet
    <3>3. \A d \in calls' : d \in calls /\ ~Takes(d)
      BY <1>0, <2>1, <3>1
    <3>4. Places'
      BY <1>0, <2>1, <3>2, <3>3 DEF Core, Places, Takes
    <3>5. w'.jobId <= jobs /\ calls' \subseteq CallSet /\ \A x \in calls' : x.id <= jobs
      BY <1>0, <3>1, <3>2 DEF Core, WinTyped, Issued
    <3> QED
      BY <1>0, <2>1, <3>2, <3>4, <3>5, QuietCore DEF Quietly
  <2>3. CASE c.req # <<>>
    <3> DEFINE d == [c EXCEPT !.op = "load"]
    <3>1. w' = Cleared(w) /\ calls' = (calls \ {c}) \cup {d}
      BY <1>3, <2>3 DEF Taken, Handled
    <3>2. d \in CallSet /\ d.id = c.id /\ d.op = "load" /\ d.req = c.req
      BY <1>0 DEF CallSet
    <3> HIDE DEF d
    <3>3. /\ w' \in WinSet /\ w'.req = w.req /\ w'.idx = w.idx /\ w'.init = w.init /\ w'.jobId = 0
          /\ w'.restarting /\ w'.buffer = {} /\ ~w'.asking /\ ~w'.needPassword
      BY <1>0, <2>1, <3>1, ClearedFacts
    <3>4. \A x \in calls \ {c} : ~Takes(x)
      BY <1>0, <2>1
    <3>5. Places'
      <4>1. /\ (IF w'.req = <<>> THEN w'.idx = 1 ELSE w'.idx <= Len(w'.req)) /\ win' = "open"
            /\ w'.restarting => w'.init
        BY <1>0, <2>1, <3>3 DEF Core, Places
      <4>2. \A x \in calls' :
               /\ x.op \in {"check", "extract", "delete"} => x.arc \in Chosen /\ w'.req # <<>>
               /\ x.op = "load" => w'.restarting /\ x.req # <<>>
               /\ x.op = "take" => (w'.init <=> w'.restarting)
        BY <1>0, <2>1, <2>3, <3>1, <3>2, <3>3, <3>4 DEF Core, Places, Takes
      <4>3. \A x, y \in calls' : Takes(x) /\ Takes(y) => x = y
        BY <3>1, <3>4
      <4> QED
        BY <3>3, <4>1, <4>2, <4>3 DEF Places
    <3>6. WinTyped' /\ Issued'
      BY <1>0, <2>1, <3>1, <3>2, <3>3 DEF Core, WinTyped, Issued
    <3>7. EndsOnce'
      BY <2>1, <3>3 DEF Core, EndsOnce
    <3> QED
      BY <3>5, <3>6, <3>7 DEF Core
  <2> QED
    BY <2>2, <2>3
<1>4. CASE StaleAnswer(c)
  BY <1>0, <1>4, SameCore DEF StaleAnswer, Handled, Quietly, jobVars
<1>5. CASE NoConflict(c) \/ CheckNeedsPassword(c)
  <2> DEFINE x == [w EXCEPT !.checking = FALSE, !.checked = c.arc]
             y == [w EXCEPT !.checking = FALSE, !.checked = NoArchive, !.opens = FALSE]
  <2>1. /\ StartExtract(x, calls \ {c}) \/ StartExtract(y, calls \ {c})
        /\ UNCHANGED <<win, job, jobs, events, good>> /\ c.op = "check"
    BY <1>5 DEF NoConflict, CheckNeedsPassword, jobVars
  <2>2. c.arc \in Named
    BY <1>0 DEF CallSet
  <2>3. /\ x \in WinSet /\ x.req = w.req /\ x.idx = w.idx /\ x.init = w.init /\ x.jobId = w.jobId
        /\ x.restarting = w.restarting /\ x.buffer = w.buffer
    BY <1>0, <2>2 DEF WinSet
  <2>4. /\ y \in WinSet /\ y.req = w.req /\ y.idx = w.idx /\ y.init = w.init /\ y.jobId = w.jobId
        /\ y.restarting = w.restarting /\ y.buffer = w.buffer
    BY <1>0 DEF WinSet, Named
  <2> HIDE DEF x, y
  <2>5. CASE StartExtract(x, calls \ {c})
    <3>1. Quietly
      BY <1>0, <2>1, <2>3, <2>5 DEF Quietly, StartExtract, WinSet
    <3> QED
      BY <1>0, <2>1, <2>3, <2>5, <3>1, StartCore
  <2>6. CASE StartExtract(y, calls \ {c})
    <3>1. Quietly
      BY <1>0, <2>1, <2>4, <2>6 DEF Quietly, StartExtract, WinSet
    <3> QED
      BY <1>0, <2>1, <2>4, <2>6, <3>1, StartCore
  <2> QED
    BY <2>1, <2>5, <2>6
<1>6. CASE SomeConflict(c)
  <2>1. /\ w' = [w EXCEPT !.checking = FALSE, !.checked = c.arc, !.asking = TRUE]
        /\ calls' = calls \ {c} /\ UNCHANGED <<win, job, jobs, events, good>> /\ c.op = "check"
    BY <1>6 DEF SomeConflict, Handled, jobVars
  <2>2. c.arc \in Named
    BY <1>0 DEF CallSet
  <2>3. /\ w' \in WinSet /\ w'.req = w.req /\ w'.idx = w.idx /\ w'.init = w.init /\ w'.jobId = w.jobId
        /\ w'.restarting = w.restarting /\ w'.buffer = w.buffer
    BY <1>0, <2>1, <2>2 DEF WinSet
  <2> QED
    BY <1>0, <2>1, <2>3, SameCore DEF Quietly
<1>7. CASE CheckFails(c)
  <2> DEFINE x == [w EXCEPT !.checking = FALSE, !.checked = NoArchive]
             y == [x EXCEPT !.issue = TRUE]
  <2>1. /\ (w' = Done(x, "error") /\ calls' = calls \ {c}) \/ Onward(y, calls \ {c})
        /\ UNCHANGED <<win, job, jobs, events, good>> /\ c.op = "check"
    BY <1>7 DEF CheckFails, jobVars
  <2>2. /\ x \in WinSet /\ x.req = w.req /\ x.idx = w.idx /\ x.init = w.init /\ x.jobId = w.jobId
        /\ x.restarting = w.restarting /\ x.buffer = w.buffer
    BY <1>0 DEF WinSet, Named
  <2>3. /\ y \in WinSet /\ y.req = w.req /\ y.idx = w.idx /\ y.init = w.init /\ y.jobId = w.jobId
        /\ y.restarting = w.restarting /\ y.buffer = w.buffer
    BY <2>2 DEF WinSet
  <2> HIDE DEF x, y
  <2>4. CASE w' = Done(x, "error") /\ calls' = calls \ {c}
    <3>1. /\ w' \in WinSet /\ w'.req = w.req /\ w'.idx = w.idx /\ w'.init = w.init /\ w'.jobId = w.jobId
          /\ w'.restarting = w.restarting /\ w'.buffer = w.buffer
      BY <2>2, <2>4, DoneSame, EndsAre
    <3> QED
      BY <1>0, <2>1, <2>4, <3>1, SameCore DEF Quietly
  <2>5. CASE Onward(y, calls \ {c})
    <3>1. Quietly
      BY <1>0, <2>1, <2>3, <2>5, OnwardBuffer DEF Quietly
    <3> QED
      BY <1>0, <2>1, <2>3, <2>5, <3>1, OnwardCore
  <2> QED
    BY <2>1, <2>4, <2>5
<1>8. CASE Extract(c)
  <2>1. /\ c.op = "extract" /\ UNCHANGED <<win, w, events, good>>
        /\ \/ job' = job /\ jobs' = jobs /\ calls' = (calls \ {c}) \cup {[c EXCEPT !.answer = "refused"]}
           \/ /\ job = Idle /\ jobs' = jobs + 1
              /\ job' = [id |-> jobs + 1, arc |-> c.arc, checked |-> c.checked, opens |-> c.opens,
                         canceled |-> FALSE]
              /\ calls' = (calls \ {c}) \cup {[c EXCEPT !.answer = "ok", !.id = jobs + 1]}
    BY <1>8 DEF Extract
  <2>2. CASE job' = job /\ jobs' = jobs /\ calls' = (calls \ {c}) \cup {[c EXCEPT !.answer = "refused"]}
    <3> DEFINE d == [c EXCEPT !.answer = "refused"]
    <3>1. d \in CallSet /\ d.id = c.id /\ d.op = "extract" /\ d.arc = c.arc
      BY <1>0, <2>1 DEF CallSet
    <3> HIDE DEF d
    <3>2. calls' = (calls \ {c}) \cup {d}
      BY <2>2 DEF d
    <3>3. Places'
      BY <1>0, <2>1, <3>1, <3>2 DEF Core, Places, Takes
    <3>4. w'.jobId <= jobs /\ calls' \subseteq CallSet /\ \A x \in calls' : x.id <= jobs
      BY <1>0, <2>1, <3>1, <3>2 DEF Core, WinTyped, Issued
    <3> QED
      BY <1>0, <2>1, <2>2, <3>3, <3>4, QuietCore DEF Quietly
  <2>3. CASE job = Idle /\ jobs' = jobs + 1
    <3> DEFINE d == [c EXCEPT !.answer = "ok", !.id = jobs + 1]
    <3>0. jobs \in Nat
      BY DEF Core, WinTyped
    <3>1. d \in CallSet /\ d.id = jobs + 1 /\ d.op = "extract" /\ d.arc = c.arc
      <4>1. jobs + 1 \in Nat /\ "ok" \in {"none", "ok", "refused"}
        BY <3>0
      <4>2. d \in CallSet
        BY <1>0, <4>1 DEF CallSet
      <4>3. d.id = jobs + 1 /\ d.op = c.op /\ d.arc = c.arc
        BY <1>0 DEF CallSet
      <4> QED
        BY <2>1, <4>2, <4>3
    <3>2. calls' = (calls \ {c}) \cup {d}
      BY <2>1, <2>3, <3>0
    <3> HIDE DEF d
    <3>3. job' \in JobSet /\ job'.id = jobs + 1
      <4>1. job' = [id |-> jobs + 1, arc |-> c.arc, checked |-> c.checked, opens |-> c.opens, canceled |-> FALSE]
        BY <2>1, <2>3, <3>0
      <4>2. c.arc \in Chosen /\ c.checked \in Named /\ c.opens \in BOOLEAN /\ jobs + 1 \in Nat \ {0}
        BY <1>0, <2>1, <3>0 DEF CallSet
      <4> QED
        BY <4>1, <4>2 DEF JobSet
    <3>4. Places'
      BY <1>0, <2>1, <3>1, <3>2 DEF Core, Places, Takes
    <3>5. WinTyped'
      BY <1>0, <2>1, <2>3, <3>0, <3>1, <3>2, <3>3 DEF Core, WinTyped
    <3>6. Issued'
      <4>1. /\ w.jobId <= jobs /\ w.jobId \in Nat /\ \A x \in calls : x.id <= jobs /\ x.id \in Nat
            /\ \A e \in events \cup w.buffer : e.id <= jobs /\ e.id \in Nat
        BY DEF Core, Issued, WinTyped, WinSet, CallSet, EventSet
      <4> QED
        BY <2>1, <2>3, <3>0, <3>1, <3>2, <3>3, <4>1 DEF Issued
    <3>7. EndsOnce'
      <4>1. \A e \in events \cup w.buffer : e.id <= jobs /\ e.id \in Nat
        BY DEF Core, Issued, WinTyped, WinSet, EventSet
      <4> QED
        BY <2>1, <3>0, <3>3, <4>1 DEF Core, EndsOnce
    <3> QED
      BY <3>4, <3>5, <3>6, <3>7 DEF Core
  <2> QED
    BY <2>1, <2>2, <2>3
<1>9. CASE Started(c)
  <2>1. /\ w' = [w EXCEPT !.jobId = c.id, !.starting = FALSE, !.result = "none",
                           !.needPassword = FALSE, !.phase = "running", !.buffer = {}]
        /\ calls' = calls \ {c} /\ events' = events \cup w.buffer
        /\ UNCHANGED <<win, job, jobs, good>> /\ c.op = "extract"
    BY <1>9 DEF Started, Handled
  <2>2. c.id \in Nat /\ w.buffer \subseteq EventSet
    BY <1>0 DEF CallSet, WinSet
  <2>3. /\ w' \in WinSet /\ w'.req = w.req /\ w'.idx = w.idx /\ w'.init = w.init /\ w'.jobId = c.id
        /\ w'.restarting = w.restarting /\ w'.buffer = {} /\ w'.asking = w.asking /\ ~w'.needPassword
    BY <1>0, <2>1, <2>2 DEF WinSet
  <2>4. WinTyped' /\ Issued'
    BY <1>0, <2>1, <2>2, <2>3 DEF Core, WinTyped, Issued
  <2>5. EndsOnce'
    BY <2>1, <2>3 DEF Core, EndsOnce
  <2>6. Places'
    BY <1>0, <2>1, <2>3 DEF Core, Places, Takes
  <2> QED
    BY <2>4, <2>5, <2>6 DEF Core
<1>10. CASE Refused(c)
  <2> DEFINE x == [w EXCEPT !.starting = FALSE]
  <2>1. /\ w' = x \/ w' = Done(x, "error")
        /\ calls' = calls \ {c} /\ UNCHANGED <<win, job, jobs, events, good>> /\ c.op = "extract"
    BY <1>10 DEF Refused, Handled, jobVars
  <2>2. /\ x \in WinSet /\ x.req = w.req /\ x.idx = w.idx /\ x.init = w.init /\ x.jobId = w.jobId
        /\ x.restarting = w.restarting /\ x.buffer = w.buffer
    BY <1>0 DEF WinSet
  <2> HIDE DEF x
  <2>3. /\ w' \in WinSet /\ w'.req = w.req /\ w'.idx = w.idx /\ w'.init = w.init /\ w'.jobId = w.jobId
        /\ w'.restarting = w.restarting /\ w'.buffer = w.buffer
    BY <2>1, <2>2, DoneSame, EndsAre
  <2> QED
    BY <1>0, <2>1, <2>3, SameCore DEF Quietly
<1>11. CASE DeleteFile(c)
  <2>1. /\ Finished(w, "ok", calls \ {c}) /\ UNCHANGED <<win, job, jobs, events, good>>
    BY <1>11 DEF DeleteFile, jobVars
  <2> QED
    BY <1>0, <2>1, FinishedCore, EndsAre
<1> QED
  BY <1>1, <1>2, <1>3, <1>4, <1>5, <1>6, <1>7, <1>8, <1>9, <1>10, <1>11 DEF AnswersTo

LEMMA CoreNext ==
  ASSUME Core, Kept, ExtractNext PROVE Core'
BY ShellCore, UserCore, ScriptCore, AnswersCore DEF ExtractNext, Answer, Script


LEMMA KeptNext ==
  ASSUME Gathering, Kept, Core, ExtractNext PROVE Kept'
<1>1. ASSUME UNCHANGED <<slot, good, deleted, ticked, crossed>>,
             win' \in {"none", "mounting", "open", "dying"}
      PROVE  Kept'
  BY <1>1 DEF Kept
<1>2. CASE Deliver \/ (\E a \in unasked : HandleInner(a)) \/ Mount \/ Destroyed
  <2>1. UNCHANGED <<good, deleted, ticked, crossed>> /\ win' \in {win, "mounting", "open", "none"}
    BY <1>2 DEF Deliver, Flush, Keep, Tell, Build, HandleInner, Mount, Destroyed, jobVars, history
  <2>2. slot' = slot \/ \E o \in openers : slot' = o.req
    BY <1>2 DEF Deliver, Flush, Keep, Tell, Build, HandleInner, Mount, Destroyed
  <2>3. slot' \in Asked
    BY <2>2 DEF Gathering, Kept
  <2> QED
    BY <2>1, <2>3 DEF Kept
<1>3. CASE Initialized \/ React \/ FinishUp \/ \E e \in events : Unmatched(e) \/ OnJobErrored(e) \/ OnJobFinished(e)
  <2>1. UNCHANGED <<slot, good, deleted, ticked, crossed>> /\ win' \in {win, "dying"}
    BY <1>3 DEF Initialized, React, FinishUp, Gone, Unmatched, OnJobErrored, OnJobFinished, Handled, jobVars, history
  <2> QED
    BY <1>1, <2>1 DEF Kept
<1>p. CASE JobPanics
  BY <1>p DEF JobPanics, Kept
<1>4. CASE JobEnds
  <2>1. UNCHANGED <<slot, win, deleted, ticked, crossed>> /\ good' \in {good, good \cup {job.arc}} /\ job # Idle
    BY <1>4 DEF JobEnds, history
  <2>2. job.arc \in Chosen
    BY <2>1 DEF Core, WinTyped, JobSet
  <2> QED
    BY <2>1, <2>2 DEF Kept
<1>5. CASE User
  <2>1. CASE Confirm
    <3>1. UNCHANGED <<slot, win, good, deleted>> /\ crossed' = (crossed \/ w.restarting)
          /\ ticked' \in {ticked, ticked \cup {Target(w)}} /\ w.req # <<>>
      BY <2>1 DEF Confirm, jobVars
    <3>2. Target(w) \in Chosen /\ crossed' \in BOOLEAN
      BY <3>1, TargetRight DEF Core, WinTyped, Places
    <3> QED
      BY <3>1, <3>2 DEF Kept
  <2>2. CASE ~Confirm
    <3>1. UNCHANGED <<slot, good, deleted, ticked, crossed>> /\ win' \in {win, "dying"}
      BY <1>5, <2>2 DEF User, ConfirmConflictChoice, CancelConflict, SubmitPassword, CancelPassword, CancelJob, Close, Gone, jobVars, history
    <3> QED
      BY <1>1, <3>1 DEF Kept
  <2> QED
    BY <2>1, <2>2
<1>6. ASSUME NEW c \in calls, AnswersTo(c) PROVE Kept'
  <2>1. CASE DeleteFile(c)
    <3>1. UNCHANGED <<slot, win, good, ticked, crossed>> /\ deleted' \in {deleted, deleted \cup {c.arc}} /\ c.op = "delete"
      BY <2>1 DEF DeleteFile, jobVars
    <3>2. c.arc \in Chosen
      BY <3>1 DEF Core, Places
    <3> QED
      BY <3>1, <3>2 DEF Kept
  <2>2. CASE Take(c)
    <3>1. slot' = <<>> /\ UNCHANGED <<win, good, deleted, ticked, crossed>>
      BY <2>2 DEF Take, jobVars, history
    <3> QED
      BY <3>1, NoneAsked DEF Kept
  <2>3. CASE ~DeleteFile(c) /\ ~Take(c)
    <3>1. UNCHANGED <<slot, win, good, deleted, ticked, crossed>>
      BY <1>6, <2>3 DEF AnswersTo, TakenAtMount, Taken, Loaded, StaleAnswer, NoConflict, SomeConflict,
         CheckNeedsPassword, CheckFails, Extract, Started, Refused, Handled, jobVars, history
    <3> QED
      BY <1>1, <3>1 DEF Kept
  <2> QED
    BY <2>1, <2>2, <2>3
<1> QED
  BY <1>2, <1>3, <1>4, <1>p, <1>5, <1>6 DEF ExtractNext, Answer, Script

LEMMA NotedNext ==
  ASSUME Kept, Noted, Core, ExtractNext PROVE Noted'
<1>0. jobs \in Nat /\ (job # Idle => job.id \in 1..jobs) /\ \A e \in events : e.id \in 1..jobs
  BY DEF Core, WinTyped, Issued, JobSet, EventSet
<1>1. ASSUME UNCHANGED <<overwritten, silent, dropped>>, jobs' \in {jobs, jobs + 1}
      PROVE  Noted'
  BY <1>0, <1>1 DEF Noted
<1>2. ASSUME NEW o \in openers, Keep(o) PROVE Noted'
  <2>1. overwritten' = overwritten \cup Range(slot) /\ UNCHANGED <<jobs, silent, dropped>>
    BY <1>2 DEF Keep, jobVars
  <2>2. Range(slot) \subseteq Chosen
    <3>1. slot \in Seq(Chosen)
      BY AskedFacts DEF Kept
    <3> QED
      BY <3>1 DEF Range
  <2> QED
    BY <2>1, <2>2 DEF Noted
<1>3. CASE JobPanics
  <2>1. job # Idle /\ silent' = silent \cup {job.id} /\ UNCHANGED <<jobs, overwritten, dropped>>
    BY <1>3 DEF JobPanics
  <2> QED
    BY <1>0, <2>1 DEF Noted
<1>4. ASSUME NEW e \in events, Unmatched(e) PROVE Noted'
  <2>1. dropped' \in {dropped, dropped \cup {e.id}} /\ UNCHANGED <<jobs, overwritten, silent>>
    BY <1>4 DEF Unmatched
  <2> QED
    BY <1>0, <2>1 DEF Noted
<1>5. CASE Mount \/ Initialized \/ React \/ FinishUp \/ Destroyed \/ JobEnds
           \/ (\E e \in events : OnJobErrored(e) \/ OnJobFinished(e))
           \/ (\E a \in unasked : HandleInner(a)) \/ (\E g \in timers : Flush(g))
           \/ \E o \in openers : Tell(o) \/ Build(o)
  BY <1>1, <1>5 DEF Mount, Initialized, React, FinishUp, Destroyed, JobEnds, OnJobErrored,
     OnJobFinished, HandleInner, Flush, Tell, Build, Handled, jobVars, history
<1>6. CASE User
  BY <1>1, <1>6 DEF User, Confirm, ConfirmConflictChoice, CancelConflict, SubmitPassword,
     CancelPassword, CancelJob, Close, jobVars, history
<1>7. ASSUME NEW c \in calls, AnswersTo(c) PROVE Noted'
  BY <1>1, <1>7 DEF AnswersTo, Take, TakenAtMount, Taken, Loaded, StaleAnswer, NoConflict,
     SomeConflict, CheckNeedsPassword, CheckFails, Extract, Started, Refused, DeleteFile,
     Handled, jobVars, history
<1> QED
  BY <1>2, <1>3, <1>4, <1>5, <1>6, <1>7 DEF ExtractNext, Answer, Deliver, Script

-----------------------------------------------------------------------------
(* One thing at a time.                                                    *)

\* The end of job id has been heard, or is nowhere on its way any more.
Over(id) ==
    /\ job # Idle => job.id # id
    /\ \A e \in events \cup w.buffer : e.id # id

LEMMA OfJobKept ==
  ASSUME NEW id, NEW a, OfJob(id, a), job' = job, good \subseteq good',
         events' \cup w'.buffer \subseteq events \cup w.buffer
  PROVE  OfJob(id, a)'
BY DEF OfJob

LEMMA CheckingSafe ==
  ASSUME Core, Safe, Quietly, deleted' \subseteq good', NEW x \in WinSet, Checking(x, {}), Free(x),
         x.jobId = 0, x.phase # "done",
         x.mode = "batch" => x.phase = "running",
         x.mode # "batch" => Len(x.req) <= 1,
         x.mode = "batch" /\ ~x.issue => \A i \in 1..x.idx - 1 : x.req[i] \in good
  PROVE  Safe'
<1> DEFINE k == [Call("check", Target(x)) EXCEPT !.gen = x.gen]
<1>1. w' = [x EXCEPT !.checking = TRUE] /\ calls' = {k}
  BY DEF Checking
<1>2. k.op = "check" /\ k.arc = Target(x) /\ k.gen = x.gen
  BY DEF Call
<1> HIDE DEF k
<1>3. /\ w'.checking /\ ~w'.starting /\ ~w'.asking /\ ~w'.needPassword /\ ~w'.finishing /\ ~w'.restarting
      /\ w'.jobId = 0 /\ w'.phase = x.phase /\ w'.gen = x.gen /\ w'.req = x.req /\ w'.idx = x.idx
      /\ w'.mode = x.mode /\ w'.issue = x.issue
  BY <1>1 DEF WinSet, Free
<1>4. Exclusive'
  BY <1>3 DEF Exclusive
<1>5. Reasons'
  BY <1>1, <1>2, <1>3 DEF Reasons, Target
<1>6. Checked' /\ Followed'
  BY <1>3 DEF Checked, Followed, Safe, Quietly
<1>7. SoFar'
  BY <1>3 DEF SoFar, Quietly
<1> QED
  BY <1>4, <1>5, <1>6, <1>7 DEF Safe

LEMMA StartSafe ==
  ASSUME Core, Safe, Quietly, deleted' \subseteq good', NEW x \in WinSet, StartExtract(x, {}), Free(x),
         x.jobId = 0, x.phase # "done",
         x.mode = "batch" => x.phase = "running",
         x.mode # "batch" => Len(x.req) <= 1,
         x.mode = "batch" /\ ~x.issue => \A i \in 1..x.idx - 1 : x.req[i] \in good,
         x.checked \in {NoArchive, Target(x)}, x.opens => x.checked = Target(x)
  PROVE  Safe'
<1> DEFINE k == [Call("extract", Target(x)) EXCEPT
                    !.gen = x.gen, !.checked = x.checked, !.opens = x.opens]
<1>1. w' = [x EXCEPT !.starting = TRUE] /\ calls' = {k}
  BY DEF StartExtract
<1>2. /\ k.op = "extract" /\ k.arc = Target(x) /\ k.checked = x.checked /\ (k.opens <=> x.opens)
      /\ k.answer = "none"
  BY DEF Call
<1> HIDE DEF k
<1>3. /\ ~w'.checking /\ w'.starting /\ ~w'.asking /\ ~w'.needPassword /\ ~w'.finishing /\ ~w'.restarting
      /\ w'.jobId = 0 /\ w'.phase = x.phase /\ w'.req = x.req /\ w'.idx = x.idx
      /\ w'.mode = x.mode /\ w'.issue = x.issue /\ w'.checked = x.checked
  BY <1>1 DEF WinSet, Free
<1>4. Exclusive'
  BY <1>3 DEF Exclusive
<1>5. Reasons'
  BY <1>1, <1>2, <1>3 DEF Reasons, Target
<1>6. Checked' /\ Followed'
  BY <1>3 DEF Checked, Followed, Safe, Quietly, Target
<1>7. SoFar'
  BY <1>3 DEF SoFar, Quietly
<1> QED
  BY <1>4, <1>5, <1>6, <1>7 DEF Safe

LEMMA DoneSafe ==
  ASSUME Core, Safe, Quietly, deleted' \subseteq good', NEW x \in WinSet, NEW r \in Ends,
         w' = Done(x, r) \/ (w' = [Done(x, r) EXCEPT !.finishing = TRUE] /\ x.jobId # 0), calls' = {},
         ~x.checking, ~x.starting, ~x.asking, ~x.needPassword, ~x.restarting,
         x.finishing => x.jobId # 0,
         x.jobId # 0 => Over(x.jobId)',
         x.mode # "batch" => Len(x.req) <= 1,
         r = "ok" => Range(x.req) \subseteq good
  PROVE  Safe'
<1> DEFINE y == Done(x, r)
<1>0. /\ y \in WinSet /\ y.req = x.req /\ y.jobId = x.jobId /\ y.mode = x.mode
      /\ ~y.restarting /\ ~y.asking /\ ~y.needPassword /\ ~y.checking /\ ~y.starting
      /\ (y.finishing => x.finishing) /\ y.phase = "done" /\ y.result = r
  BY DoneSame
<1> HIDE DEF y
<1>1. w' = y \/ (w' = [y EXCEPT !.finishing = TRUE] /\ x.jobId # 0)
  BY DEF y
<1>3. /\ ~w'.checking /\ ~w'.starting /\ ~w'.asking /\ ~w'.needPassword /\ ~w'.restarting
      /\ (w'.finishing => x.jobId # 0)
      /\ w'.jobId = x.jobId /\ w'.phase = "done" /\ w'.req = x.req /\ w'.mode = x.mode /\ w'.result = r
  BY <1>0, <1>1 DEF WinSet
<1>4. Exclusive'
  BY <1>3 DEF Exclusive
<1>5. Reasons'
  BY DEF Reasons
<1>6. Checked'
  BY <1>3 DEF Checked, Safe, Quietly
<1>7. Followed'
  BY <1>3 DEF Followed, Over
<1>8. SoFar'
  BY <1>3 DEF SoFar, Quietly
<1> QED
  BY <1>4, <1>5, <1>6, <1>7, <1>8 DEF Safe

LEMMA OnwardSafe ==
  ASSUME Core, Safe, Quietly, deleted' \subseteq good', NEW x \in WinSet, Onward(x, {}),
         Free(x), x.phase = "running", x.mode = "batch", x.idx <= Len(x.req),
         x.jobId # 0 => Over(x.jobId)',
         ~x.issue => \A i \in 1..x.idx : x.req[i] \in good
  PROVE  Safe'
<1>0. x.req \in Asked /\ x.idx \in Nat \ {0} /\ Len(x.req) \in Nat
  BY AskedFacts DEF WinSet
<1>1. CASE x.idx < Len(x.req)
  <2> DEFINE z == [x EXCEPT !.idx = @ + 1]
             y == [z EXCEPT !.jobId = 0, !.starting = FALSE, !.checked = NoArchive, !.opens = TRUE]
  <2>1. Checking(y, {})
    BY <1>1 DEF Onward, RunBatchItem
  <2>2. /\ z \in WinSet /\ z.req = x.req /\ z.idx = x.idx + 1 /\ z.phase = "running" /\ z.mode = "batch"
        /\ z.issue = x.issue /\ Free(z)
    BY DEF WinSet, Free
  <2> HIDE DEF z
  <2>3. /\ y \in WinSet /\ y.req = x.req /\ y.idx = x.idx + 1 /\ y.phase = "running" /\ y.mode = "batch"
        /\ y.issue = x.issue /\ y.jobId = 0 /\ Free(y)
    BY <2>2 DEF WinSet, Free, Named
  <2> HIDE DEF y
  <2>4. y.idx - 1 = x.idx
    BY <1>0, <2>3
  <2> QED
    BY <2>1, <2>3, <2>4, CheckingSafe
<1>2. CASE ~(x.idx < Len(x.req))
  <2> DEFINE r == IF x.issue THEN "warning" ELSE "ok"
  <2>1. w' = Done(x, r) /\ calls' = {} /\ r \in Ends
    BY <1>2, EndsAre DEF Onward
  <2>2. r = "ok" => Range(x.req) \subseteq good
    <3>1. x.idx = Len(x.req) /\ x.req \in Seq(Chosen)
      BY <1>0, <1>2, AskedFacts
    <3> QED
      BY <3>1 DEF Range
  <2> HIDE DEF r
  <2>3. /\ ~x.checking /\ ~x.starting /\ ~x.asking /\ ~x.needPassword /\ ~x.restarting /\ ~x.finishing
        /\ w' = Done(x, r) \/ (w' = [Done(x, r) EXCEPT !.finishing = TRUE] /\ x.jobId # 0)
        /\ x.mode # "batch" => Len(x.req) <= 1
    BY <2>1 DEF Free
  <2> QED
    BY <2>1, <2>2, <2>3, DoneSafe
<1> QED
  BY <1>1, <1>2

\* What rules out any call on its way.
LEMMA NoCalls ==
  ASSUME Core, Safe,
         \/ w.asking \/ w.needPassword
         \/ w.phase = "running" /\ w.jobId # 0 /\ ~w.finishing
         \/ w.init /\ ~Busy
         \/ w.init /\ Free(w) /\ w.phase = "form"
  PROVE  calls = {}
<1> SUFFICES ASSUME NEW c \in calls PROVE FALSE
  OBVIOUS
<1>1. c.op \in {"take", "load", "check", "extract", "delete"}
  BY DEF Core, WinTyped, CallSet
<1>2. /\ c.op = "load" => w.restarting
      /\ c.op = "take" => (w.init <=> w.restarting)
      /\ w.restarting => w.init
  BY DEF Core, Places
<1>3. /\ c.op = "take" /\ ~w.init => w.phase = "form" /\ ~w.asking
      /\ c.op = "check" => w.checking
      /\ c.op = "extract" => w.starting
      /\ c.op = "delete" => w.finishing
  BY DEF Safe, Reasons
<1> QED
  BY <1>1, <1>2, <1>3 DEF Safe, Exclusive, Busy, Free

\* Nothing the window is judged by has changed.
LEMMA SameSafe ==
  ASSUME Core, Safe, job' = job, good \subseteq good', deleted' = deleted, calls' = calls,
         events' \cup w'.buffer \subseteq events \cup w.buffer,
         w.init => w'.init, w'.gen = w.gen, w'.req = w.req, w'.idx = w.idx,
         w'.mode = w.mode, w'.phase = w.phase, w'.jobId = w.jobId,
         w'.starting = w.starting, w'.checking = w.checking, w'.restarting = w.restarting,
         w'.finishing = w.finishing, w'.asking = w.asking, w'.needPassword = w.needPassword,
         w'.checked = w.checked, w'.issue = w.issue, w'.result = w.result
  PROVE  Safe'
<1>1. Exclusive'
  BY DEF Safe, Exclusive
<1>2. \A id, a : OfJob(id, a) => OfJob(id, a)'
  BY DEF OfJob
<1>3. Target(w)' = Target(w)
  BY DEF Target
<1>4. Reasons'
  BY <1>2, <1>3 DEF Safe, Reasons
<1>5. Checked'
  BY <1>3 DEF Safe, Checked
<1>6. Followed'
  BY <1>2, <1>3 DEF Safe, Followed
<1>7. SoFar'
  BY DEF Safe, SoFar
<1> QED
  BY <1>1, <1>4, <1>5, <1>6, <1>7 DEF Safe

LEMMA GoneSafe ==
  ASSUME Core, Safe, Gone, UNCHANGED <<good, deleted>>
  PROVE  Safe'
<1>1. /\ w' = Blank /\ calls' = {} /\ events' = {}
      /\ job' = IF job = Idle THEN job ELSE [job EXCEPT !.canceled = TRUE]
  BY DEF Gone
<1>2. /\ w'.req = <<>> /\ w'.jobId = 0 /\ w'.phase = "form" /\ w'.mode = "form" /\ Free(w')
      /\ w'.buffer = {}
  BY <1>1, BlankTyped
<1>3. job' # Idle => job # Idle /\ job'.opens = job.opens /\ job'.checked = job.checked /\ job'.arc = job.arc
  BY <1>1 DEF Core, WinTyped, JobSet
<1>4. Exclusive'
  BY <1>2 DEF Exclusive, Free
<1>5. Reasons'
  BY <1>1 DEF Reasons
<1>6. Checked'
  BY <1>2, <1>3 DEF Safe, Checked, Free
<1>7. Followed' /\ SoFar'
  BY <1>2 DEF Safe, Followed, SoFar
<1> QED
  BY <1>4, <1>5, <1>6, <1>7 DEF Safe

LEMMA LoadSafe ==
  ASSUME Core, Safe, Quietly, deleted' \subseteq good', NEW req \in Asked, req # <<>>,
         Load(w, req, {}), ~w.checking, ~w.starting, ~w.asking, ~w.needPassword, ~w.finishing,
         w.jobId = 0, w.phase = "form"
  PROVE  Safe'
<1>0. w \in WinSet /\ ModeOf(req) \in {"form", "auto", "batch"} /\ (ModeOf(req) # "batch" => Len(req) = 1)
  BY ModeRight DEF Core, WinTyped
<1> DEFINE m == ModeOf(req)
           y == [w EXCEPT !.req = req, !.idx = 1, !.mode = m, !.restarting = FALSE]
<1>1. /\ y \in WinSet /\ y.req = req /\ y.idx = 1 /\ y.mode = m /\ Free(y) /\ y.jobId = 0
      /\ y.phase = "form" /\ m \in {"form", "auto", "batch"} /\ (m # "batch" => Len(req) <= 1)
  <2>1. m \in {"form", "auto", "batch"} /\ (m # "batch" => Len(req) = 1)
    BY <1>0
  <2> HIDE DEF m
  <2>2. 1 \in Nat \ {0} /\ FALSE \in BOOLEAN
    OBVIOUS
  <2>3. y \in WinSet
    BY <1>0, <2>1, <2>2 DEF WinSet
  <2>4. y.req = req /\ y.idx = 1 /\ y.mode = m /\ y.jobId = 0 /\ y.phase = "form"
    BY <1>0 DEF WinSet
  <2>5. Free(y)
    BY <1>0 DEF WinSet, Free
  <2>6. ASSUME m # "batch" PROVE Len(req) <= 1
    <3>1. Len(req) = 1
      BY <2>1, <2>6
    <3> QED
      BY <3>1
  <2> QED
    BY <2>1, <2>3, <2>4, <2>5, <2>6
<1>2. /\ y.mode = "form" => \E tick \in BOOLEAN : w' = [y EXCEPT !.deleteAfter = tick] /\ calls' = {}
      /\ y.mode = "auto" => Checking([y EXCEPT !.phase = "running"], {})
      /\ y.mode = "batch" => RunBatchItem([y EXCEPT !.phase = "running"], {})
  BY DEF Load
<1> HIDE DEF y, m
<1> DEFINE z == [y EXCEPT !.phase = "running"]
<1>3. /\ z \in WinSet /\ z.req = req /\ z.idx = 1 /\ z.mode = m /\ Free(z) /\ z.jobId = 0
      /\ z.phase = "running"
  BY <1>1 DEF WinSet, Free
<1>4. CASE m = "form"
  <2>1. PICK tick \in BOOLEAN : w' = [y EXCEPT !.deleteAfter = tick] /\ calls' = {}
    BY <1>1, <1>2, <1>4
  <2>2. /\ w'.req = req /\ w'.mode = "form" /\ Free(w') /\ w'.jobId = 0 /\ w'.phase = "form"
    BY <1>1, <1>4, <2>1 DEF WinSet, Free
  <2>3. Exclusive' /\ Reasons' /\ Followed'
    BY <2>1, <2>2 DEF Exclusive, Reasons, Followed, Free
  <2>4. Checked'
    BY <2>2 DEF Checked, Safe, Quietly, Free
  <2>5. Len(w'.req) <= 1
    BY <1>1, <1>4, <2>2
  <2>6. SoFar'
    BY <2>2, <2>5 DEF SoFar, Quietly
  <2> QED
    BY <2>3, <2>4, <2>6 DEF Safe
<1>5. CASE m = "auto"
  <2>1. Checking(z, {}) /\ z.mode # "batch" /\ Len(z.req) <= 1
    BY <1>1, <1>2, <1>3, <1>5
  <2> HIDE DEF z
  <2> QED
    BY <1>3, <2>1, CheckingSafe
<1>6. CASE m = "batch"
  <2> DEFINE v == [z EXCEPT !.jobId = 0, !.starting = FALSE, !.checked = NoArchive, !.opens = TRUE]
  <2>1. Checking(v, {})
    BY <1>1, <1>2, <1>6 DEF RunBatchItem
  <2> HIDE DEF z
  <2>2. v \in WinSet /\ v.idx = 1 /\ v.mode = "batch" /\ Free(v) /\ v.jobId = 0 /\ v.phase = "running"
    BY <1>3, <1>6 DEF WinSet, Free, Named
  <2> HIDE DEF v
  <2>3. \A i \in 1..v.idx - 1 : v.req[i] \in good
    BY <2>2
  <2> QED
    BY <2>1, <2>2, <2>3, CheckingSafe
<1> QED
  BY <1>1, <1>4, <1>5, <1>6

\* The end of an archive that was being extracted, with the rest of the batch.
LEMMA FinishedSafe ==
  ASSUME Core, Safe, win = "open", win' = "open", UNCHANGED <<job, jobs, good>>, events' \subseteq events,
         deleted' \subseteq good', NEW end \in Ends, Finished(w, end, {}),
         ~w.checking, ~w.starting, ~w.asking, ~w.needPassword, ~w.restarting,
         w.phase = "running", w.jobId # 0,
         job # Idle => job.id # w.jobId,
         \A e \in events' \cup w.buffer : e.id # w.jobId,
         w.mode # "batch" => Len(w.req) <= 1,
         end = "ok" => Target(w) \in good
  PROVE  Safe'
<1>0. w \in WinSet /\ w.req # <<>> /\ w.idx <= Len(w.req) /\ w.req \in Asked /\ w.idx \in Nat \ {0}
      /\ w.req \in Seq(Chosen) /\ Len(w.req) \in Nat
  BY AskedFacts DEF Core, WinTyped, Places, WinSet
<1>1. CASE w.mode = "batch"
  <2> DEFINE x == [w EXCEPT !.issue = @ \/ end # "ok", !.finishing = FALSE]
  <2>1. Onward(x, {})
    BY <1>1 DEF Finished
  <2>2. /\ x \in WinSet /\ Free(x) /\ x.req = w.req /\ x.idx = w.idx /\ x.phase = "running"
        /\ x.mode = "batch" /\ x.jobId = w.jobId /\ x.buffer = w.buffer
        /\ (x.issue <=> w.issue \/ end # "ok")
    BY <1>0, <1>1 DEF WinSet, Free
  <2> HIDE DEF x
  <2>3. w'.buffer = w.buffer
    BY <2>1, <2>2, OnwardBuffer
  <2>4. Quietly /\ (job' # Idle => job'.id # w.jobId) /\ \A e \in events' \cup w'.buffer : e.id # w.jobId
    BY <2>3 DEF Quietly
  <2>5. ~x.issue => \A i \in 1..x.idx : x.req[i] \in good
    <3> SUFFICES ASSUME ~x.issue, NEW i \in 1..w.idx PROVE w.req[i] \in good
      BY <2>2
    <3>1. i = w.idx \/ i \in 1..w.idx - 1
      BY <1>0
    <3>2. Target(w) \in good /\ ~w.issue
      BY <2>2
    <3> QED
      BY <1>1, <3>1, <3>2 DEF Safe, SoFar, Target
  <2> QED
    BY <1>0, <2>1, <2>2, <2>4, <2>5, OnwardSafe DEF Over
<1>2. CASE w.mode # "batch"
  <2>1. w' = [Done(w, end) EXCEPT !.finishing = TRUE] /\ calls' = {}
    BY <1>2 DEF Finished
  <2>2. Done(w, end) \in WinSet /\ Done(w, end).buffer = w.buffer
    BY <1>0, DoneSame
  <2>3. w'.buffer = w.buffer
    BY <2>1, <2>2 DEF WinSet
  <2>4. Quietly /\ (job' # Idle => job'.id # w.jobId) /\ \A e \in events' \cup w'.buffer : e.id # w.jobId
    BY <2>3 DEF Quietly
  <2>5. end = "ok" => Range(w.req) \subseteq good
    <3>1. Len(w.req) = 1 /\ w.idx = 1
      <4>1. Len(w.req) <= 1
        BY <1>2
      <4> DEFINE n == Len(w.req)
                 k == w.idx
      <4>2. n \in Nat /\ k \in Nat \ {0} /\ k <= n /\ n <= 1
        BY <1>0, <4>1
      <4> HIDE DEF n, k
      <4>3. n = 1 /\ k = 1
        BY <4>2
      <4> QED
        BY <4>3 DEF n, k
    <3> QED
      BY <1>0, <3>1 DEF Range, Target
  <2>6. w' = Done(w, end) \/ (w' = [Done(w, end) EXCEPT !.finishing = TRUE] /\ w.jobId # 0)
    BY <2>1
  <2> QED
    BY <1>0, <2>1, <2>4, <2>5, <2>6, DoneSafe DEF Over
<1> QED
  BY <1>1, <1>2

\* The end that the window hears of is that of what it follows.
LEMMA HeardFacts ==
  ASSUME Core, Safe, NEW e \in events, w.jobId = e.id, events' = events \ {e}, job' = job, win = "open"
  PROVE  /\ w.phase = "running" /\ Free(w) /\ w.jobId # 0 /\ calls = {}
         /\ e.end = "ok" => Target(w) \in good
         /\ job' # Idle => job'.id # w.jobId
         /\ \A f \in events' \cup w.buffer : f.id # w.jobId
         /\ w.mode # "batch" => Len(w.req) <= 1
<1>1. w.jobId # 0
  BY DEF Core, WinTyped, EventSet
<1>2. w.phase = "running" /\ ~w.finishing /\ OfJob(w.jobId, Target(w))
  BY <1>1 DEF Safe, Followed
<1>3. calls = {}
  BY <1>1, <1>2, NoCalls
<1>4. Free(w)
  BY <1>1, <1>2 DEF Safe, Exclusive, Free
<1>5. /\ job' # Idle => job'.id # w.jobId
      /\ \A f \in events' \cup w.buffer : f.id # w.jobId
  BY DEF Core, EndsOnce
<1>6. e.end = "ok" => Target(w) \in good
  BY <1>2 DEF OfJob
<1>7. w.mode # "batch" => Len(w.req) <= 1
  BY <1>3 DEF Safe, SoFar
<1> QED
  BY <1>1, <1>2, <1>3, <1>4, <1>5, <1>6, <1>7

LEMMA ErroredSafe ==
  ASSUME Core, Safe, NEW e \in events, OnJobErrored(e), UNCHANGED deleted
  PROVE  Safe'
<1>0. w \in WinSet /\ (w.req # <<>> => w.idx <= Len(w.req)) /\ (w.jobId # 0 => w.req # <<>>)
  BY DEF Core, WinTyped, Places
<1>1. /\ win = "open" /\ win' = "open" /\ UNCHANGED <<job, jobs, good, deleted>> /\ events' = events \ {e}
      /\ w.jobId = e.id
  BY DEF OnJobErrored, Heard
<1>2. /\ w.phase = "running" /\ Free(w) /\ w.jobId # 0 /\ calls = {}
      /\ job' # Idle => job'.id # w.jobId
      /\ \A f \in events' \cup w.buffer : f.id # w.jobId
      /\ w.mode # "batch" => Len(w.req) <= 1
  BY <1>1, HeardFacts
<1>3. deleted' \subseteq good'
  BY <1>1 DEF Safe, SoFar
<1>4. CASE /\ w' = [w EXCEPT !.jobId = 0, !.starting = FALSE, !.phase = "running", !.needPassword = TRUE]
           /\ calls' = calls
  <2>1. /\ w'.jobId = 0 /\ w'.phase = "running" /\ w'.needPassword /\ ~w'.checking /\ ~w'.starting
        /\ ~w'.asking /\ ~w'.finishing /\ ~w'.restarting
        /\ w'.checked = w.checked /\ w'.req = w.req /\ w'.idx = w.idx /\ w'.mode = w.mode
        /\ w'.issue = w.issue
    BY <1>0, <1>2, <1>4 DEF WinSet, Free
  <2>2. calls' = {} /\ Target(w)' = Target(w)
    BY <1>2, <1>4, <2>1 DEF Target
  <2>3. Exclusive' /\ Reasons' /\ Followed'
    BY <2>1, <2>2 DEF Exclusive, Reasons, Followed
  <2>4. Checked'
    BY <1>1, <1>2, <2>1, <2>2 DEF Checked, Safe
  <2>5. SoFar'
    BY <1>1, <1>2, <2>1, <2>2 DEF SoFar, Safe
  <2> QED
    BY <2>3, <2>4, <2>5 DEF Safe
<1>5. CASE w.mode = "batch" /\ Onward([w EXCEPT !.issue = TRUE], calls)
  <2> DEFINE x == [w EXCEPT !.issue = TRUE]
  <2>1. Onward(x, {})
    BY <1>2, <1>5
  <2>2. /\ x \in WinSet /\ Free(x) /\ x.req = w.req /\ x.idx = w.idx /\ x.phase = "running"
        /\ x.mode = "batch" /\ x.jobId = w.jobId /\ x.buffer = w.buffer /\ x.issue
    BY <1>0, <1>2, <1>5 DEF WinSet, Free
  <2> HIDE DEF x
  <2>3. w'.buffer = w.buffer
    BY <2>1, <2>2, OnwardBuffer
  <2>4. Quietly
    BY <1>1, <2>3 DEF Quietly
  <2> QED
    BY <1>0, <1>2, <1>3, <2>1, <2>2, <2>3, <2>4, OnwardSafe DEF Over
<1>6. CASE w.mode # "batch" /\ w' = Done(w, "error") /\ calls' = calls
  <2>1. w'.buffer = w.buffer /\ "error" \in Ends
    BY <1>0, <1>6, DoneSame, EndsAre
  <2>2. Quietly
    BY <1>1, <2>1 DEF Quietly
  <2>3. /\ ~w.checking /\ ~w.starting /\ ~w.asking /\ ~w.needPassword /\ ~w.restarting /\ ~w.finishing
        /\ w' = Done(w, "error") \/ (w' = [Done(w, "error") EXCEPT !.finishing = TRUE] /\ w.jobId # 0)
    BY <1>2, <1>6 DEF Free
  <2> QED
    BY <1>0, <1>2, <1>3, <1>6, <2>1, <2>2, <2>3, DoneSafe DEF Over
<1> QED
  BY <1>4, <1>5, <1>6 DEF OnJobErrored

LEMMA FinishedEventSafe ==
  ASSUME Core, Safe, NEW e \in events, OnJobFinished(e), UNCHANGED deleted
  PROVE  Safe'
<1>0. w \in WinSet /\ (w.req # <<>> => w.idx <= Len(w.req)) /\ (w.jobId # 0 => w.req # <<>>)
  BY DEF Core, WinTyped, Places
<1>1. /\ win = "open" /\ win' = "open" /\ UNCHANGED <<job, jobs, good, deleted>> /\ events' = events \ {e}
      /\ w.jobId = e.id /\ e.end \in Ends
  BY EndsAre DEF OnJobFinished, Heard
<1>2. /\ w.phase = "running" /\ Free(w) /\ w.jobId # 0 /\ calls = {}
      /\ e.end = "ok" => Target(w) \in good
      /\ job' # Idle => job'.id # w.jobId
      /\ \A f \in events' \cup w.buffer : f.id # w.jobId
      /\ w.mode # "batch" => Len(w.req) <= 1
  BY <1>1, HeardFacts
<1>3. deleted' \subseteq good'
  BY <1>1 DEF Safe, SoFar
<1>4. CASE w.mode = "batch" /\ w' = Done(w, "canceled") /\ calls' = calls
  <2>1. w'.buffer = w.buffer /\ "canceled" \in Ends
    BY <1>0, <1>4, DoneSame, EndsAre
  <2>2. Quietly
    BY <1>1, <2>1 DEF Quietly
  <2>3. /\ ~w.checking /\ ~w.starting /\ ~w.asking /\ ~w.needPassword /\ ~w.restarting /\ ~w.finishing
        /\ w' = Done(w, "canceled") \/ (w' = [Done(w, "canceled") EXCEPT !.finishing = TRUE] /\ w.jobId # 0)
    BY <1>2, <1>4 DEF Free
  <2> QED
    BY <1>0, <1>2, <1>3, <1>4, <2>1, <2>2, <2>3, DoneSafe DEF Over
<1>5. CASE /\ e.end = "ok"
           /\ w' = [w EXCEPT !.finishing = TRUE] /\ calls' = calls \cup {Call("delete", Target(w))}
  <2> DEFINE k == Call("delete", Target(w))
  <2>1. k.op = "delete" /\ k.arc = Target(w) /\ calls' = {k}
    BY <1>2, <1>5 DEF Call
  <2> HIDE DEF k
  <2>2. /\ w'.jobId = w.jobId /\ w'.phase = "running" /\ ~w'.needPassword /\ ~w'.checking /\ ~w'.starting
        /\ ~w'.asking /\ w'.finishing /\ ~w'.restarting /\ w'.buffer = w.buffer
        /\ w'.checked = w.checked /\ w'.req = w.req /\ w'.idx = w.idx /\ w'.mode = w.mode
        /\ w'.issue = w.issue
    BY <1>0, <1>2, <1>5 DEF WinSet, Free
  <2>3. Target(w)' = Target(w)
    BY <2>2 DEF Target
  <2>4. Exclusive'
    BY <1>2, <2>2 DEF Exclusive
  <2>5. Reasons'
    BY <1>1, <1>2, <1>5, <2>1, <2>2, <2>3 DEF Reasons
  <2>6. Followed'
    BY <1>2, <2>2 DEF Followed
  <2>7. Checked'
    BY <1>1, <1>2, <2>2, <2>3 DEF Checked, Safe
  <2>8. SoFar'
    BY <1>1, <1>2, <2>2 DEF SoFar, Safe
  <2> QED
    BY <2>4, <2>5, <2>6, <2>7, <2>8 DEF Safe
<1>6. CASE Finished(w, e.end, calls)
  <2>1. Finished(w, e.end, {})
    BY <1>2, <1>6
  <2>2. ~w.checking /\ ~w.starting /\ ~w.asking /\ ~w.needPassword /\ ~w.restarting
    BY <1>2 DEF Free
  <2> QED
    BY <1>1, <1>2, <1>3, <2>1, <2>2, FinishedSafe
<1> QED
  BY <1>4, <1>5, <1>6 DEF OnJobFinished

LEMMA ScriptSafe ==
  ASSUME Core, Safe, Mount \/ Script
  PROVE  Safe'
<1>0. w \in WinSet /\ (w.req # <<>> => w.idx <= Len(w.req)) /\ calls \subseteq CallSet
  BY DEF Core, WinTyped, Places
<1>1. CASE Mount
  <2> DEFINE k == Call("take", NoArchive)
  <2>1. /\ win = "mounting" /\ calls' = {k} /\ UNCHANGED <<w, job, events, good, deleted>> /\ k.op = "take"
    BY <1>1 DEF Mount, jobVars, history, Call
  <2> HIDE DEF k
  <2>2. w = Blank /\ calls = {}
    BY <2>1 DEF Core, Places
  <2>3. /\ w.req = <<>> /\ w.jobId = 0 /\ w.phase = "form" /\ w.mode = "form" /\ Free(w)
    BY <2>2, BlankTyped
  <2>4. Exclusive'
    BY <2>1 DEF Safe, Exclusive
  <2>5. Reasons'
    BY <2>1, <2>3 DEF Reasons, Free
  <2>6. Checked' /\ Followed'
    BY <2>1, <2>3 DEF Safe, Checked, Followed, Free
  <2>7. SoFar'
    BY <2>1, <2>3 DEF Safe, SoFar
  <2> QED
    BY <2>4, <2>5, <2>6, <2>7 DEF Safe
<1>2. CASE Initialized
  <2>1. w' = [w EXCEPT !.init = TRUE] /\ UNCHANGED <<calls, job, events, good, deleted>>
    BY <1>2 DEF Initialized, Handled, jobVars, history
  <2>2. /\ w'.buffer = w.buffer /\ w'.init /\ w'.gen = w.gen /\ w'.req = w.req /\ w'.idx = w.idx
        /\ w'.mode = w.mode /\ w'.phase = w.phase /\ w'.jobId = w.jobId
        /\ w'.checked = w.checked /\ w'.result = w.result
    BY <1>0, <2>1 DEF WinSet
  <2>3. /\ w'.starting = w.starting /\ w'.checking = w.checking /\ w'.restarting = w.restarting
        /\ w'.finishing = w.finishing /\ w'.asking = w.asking /\ w'.needPassword = w.needPassword
        /\ w'.issue = w.issue
    BY <1>0, <2>1 DEF WinSet
  <2> QED
    BY <2>1, <2>2, <2>3, SameSafe
<1>3. CASE React
  <2> DEFINE k == Call("take", NoArchive)
  <2>1. /\ w' = [w EXCEPT !.pending = FALSE, !.restarting = TRUE] /\ calls' = calls \cup {k}
        /\ UNCHANGED <<job, events, good, deleted>> /\ w.init /\ ~Busy /\ k.op = "take"
    BY <1>3 DEF React, ReactDue, Handled, jobVars, history, Call
  <2> HIDE DEF k
  <2>2. calls = {} /\ calls' = {k}
    BY <2>1, NoCalls
  <2>3. /\ ~w.checking /\ ~w.starting /\ ~w.restarting /\ ~w.finishing /\ w.phase # "running"
        /\ ~w.asking /\ ~w.needPassword
    BY <2>1 DEF Busy
  <2>4. /\ w'.buffer = w.buffer /\ w'.init /\ w'.req = w.req /\ w'.idx = w.idx
        /\ w'.mode = w.mode /\ w'.phase = w.phase /\ w'.jobId = w.jobId
        /\ w'.checked = w.checked /\ w'.result = w.result
    BY <1>0, <2>1 DEF WinSet
  <2>5. /\ ~w'.starting /\ ~w'.checking /\ w'.restarting /\ ~w'.finishing /\ ~w'.asking
        /\ ~w'.needPassword
    BY <1>0, <2>1, <2>3 DEF WinSet
  <2>6. Exclusive'
    BY <2>3, <2>4, <2>5 DEF Safe, Exclusive
  <2>7. Reasons'
    BY <2>1, <2>2, <2>4 DEF Reasons
  <2>8. Checked'
    BY <2>1, <2>3, <2>4, <2>5 DEF Safe, Checked
  <2>9. Followed'
    BY <2>1, <2>3, <2>4, <2>5 DEF Safe, Followed
  <2>10. SoFar'
    BY <2>1, <2>2, <2>3, <2>4 DEF Safe, SoFar
  <2> QED
    BY <2>6, <2>7, <2>8, <2>9, <2>10 DEF Safe
<1>4. CASE FinishUp
  <2>1. CASE Gone
    BY <1>4, <2>1, GoneSafe DEF FinishUp, history
  <2>2. CASE w' = [w EXCEPT !.finishing = FALSE] /\ UNCHANGED <<win, calls, job, events>>
    <3>1. w.phase = "done" /\ w.finishing /\ UNCHANGED <<good, deleted>>
      BY <1>4 DEF FinishUp, history
    <3>2. /\ w'.buffer = w.buffer /\ w'.init = w.init /\ w'.gen = w.gen /\ w'.req = w.req
          /\ w'.idx = w.idx /\ w'.mode = w.mode /\ w'.phase = w.phase /\ w'.jobId = w.jobId
          /\ w'.checked = w.checked /\ w'.result = w.result
      BY <1>0, <2>2 DEF WinSet
    <3>3. /\ w'.starting = w.starting /\ w'.checking = w.checking /\ w'.restarting = w.restarting
          /\ ~w'.finishing /\ w'.asking = w.asking /\ w'.needPassword = w.needPassword
          /\ w'.issue = w.issue
      BY <1>0, <2>2 DEF WinSet
    <3>4. Target(w)' = Target(w)
      BY <3>2 DEF Target
    <3>5. Exclusive'
      BY <3>1, <3>2, <3>3 DEF Safe, Exclusive
    <3>6. \A id, a : OfJob(id, a) => OfJob(id, a)'
      BY <2>2, <3>1, <3>2 DEF OfJob
    <3>7. Reasons'
      BY <2>2, <3>1, <3>2, <3>3, <3>4, <3>6 DEF Safe, Reasons
    <3>8. Checked' /\ Followed'
      BY <2>2, <3>1, <3>2, <3>3, <3>4 DEF Safe, Checked, Followed
    <3>9. SoFar'
      BY <2>2, <3>1, <3>2, <3>3 DEF Safe, SoFar
    <3> QED
      BY <3>5, <3>7, <3>8, <3>9 DEF Safe
  <2> QED
    BY <1>4, <2>1, <2>2 DEF FinishUp
<1>5. CASE Destroyed
  BY <1>5, SameSafe DEF Destroyed, jobVars, history
<1>6. CASE JobEnds
  <2>1. PICK end \in Outcomes :
            /\ events' = IF win = "open" THEN events \cup {[id |-> job.id, end |-> end]} ELSE {}
            /\ good' = IF end = "ok" THEN good \cup {job.arc} ELSE good
    BY <1>6 DEF JobEnds
  <2>2. job # Idle /\ job' = Idle /\ UNCHANGED <<w, calls, deleted>>
    BY <1>6 DEF JobEnds, history
  <2>3. \A id, a : OfJob(id, a) => OfJob(id, a)'
    <3> SUFFICES ASSUME NEW id, NEW a, OfJob(id, a) PROVE OfJob(id, a)'
      OBVIOUS
    <3>1. SUFFICES ASSUME NEW e \in events' \cup w.buffer, e.id = id, e.end = "ok" PROVE a \in good'
      BY <2>2 DEF OfJob
    <3>2. CASE e \in events \cup w.buffer
      BY <2>1, <3>1, <3>2 DEF OfJob
    <3>3. CASE e = [id |-> job.id, end |-> end]
      BY <2>1, <2>2, <3>1, <3>3 DEF OfJob
    <3> QED
      BY <2>1, <3>1, <3>2, <3>3
  <2>4. Exclusive'
    BY <2>2 DEF Safe, Exclusive
  <2>5. good \subseteq good'
    BY <2>1
  <2>6. Reasons'
    BY <2>2, <2>3, <2>5 DEF Safe, Reasons, Target
  <2>7. Checked'
    BY <2>2 DEF Safe, Checked, Target
  <2>8. Followed'
    <3>1. CASE w.jobId # 0 /\ ~(w.phase = "running" /\ ~w.finishing)
      <4>1. job.id # w.jobId /\ \A e \in events \cup w.buffer : e.id # w.jobId
        BY <2>2, <3>1 DEF Safe, Followed
      <4> QED
        BY <2>1, <2>2, <3>1, <4>1 DEF Followed
    <3>2. CASE w.jobId # 0 /\ w.phase = "running" /\ ~w.finishing
      BY <2>2, <2>3, <3>2 DEF Safe, Followed, Target
    <3>3. CASE w.jobId = 0
      BY <2>2, <3>3 DEF Followed
    <3> QED
      BY <3>1, <3>2, <3>3
  <2>9. SoFar'
    BY <2>2, <2>5 DEF Safe, SoFar
  <2> QED
    BY <2>4, <2>6, <2>7, <2>8, <2>9 DEF Safe
<1>p. CASE JobPanics
  <2>1. job' = Idle /\ UNCHANGED <<w, calls, events, good, deleted>>
    BY <1>p DEF JobPanics
  <2>2. \A id, a : OfJob(id, a) => OfJob(id, a)'
    BY <2>1 DEF OfJob
  <2>3. Exclusive' /\ Checked' /\ SoFar'
    BY <2>1 DEF Safe, Exclusive, Checked, SoFar, Target
  <2>4. Reasons'
    BY <2>1, <2>2 DEF Safe, Reasons, Target
  <2>5. Followed'
    BY <2>1, <2>2 DEF Safe, Followed, Target
  <2> QED
    BY <2>3, <2>4, <2>5 DEF Safe
<1>7. ASSUME NEW e \in events, Unmatched(e) PROVE Safe'
  <2>1. /\ w' = w \/ w' = [w EXCEPT !.buffer = @ \cup {e}]
        /\ events' = events \ {e} /\ UNCHANGED <<calls, job, good, deleted>>
    BY <1>7 DEF Unmatched, Heard, Handled
  <2>2. CASE w' = w
    BY <2>1, <2>2, SameSafe
  <2>3. CASE w' = [w EXCEPT !.buffer = @ \cup {e}]
    <3>1. w' = [w EXCEPT !.buffer = @ \cup {e}]
      BY <2>3
    <3>2. /\ w'.buffer = w.buffer \cup {e} /\ w'.init = w.init /\ w'.gen = w.gen /\ w'.req = w.req
          /\ w'.idx = w.idx /\ w'.mode = w.mode /\ w'.phase = w.phase /\ w'.jobId = w.jobId
          /\ w'.checked = w.checked /\ w'.result = w.result
      BY <1>0, <3>1 DEF WinSet
    <3>3. /\ w'.starting = w.starting /\ w'.checking = w.checking /\ w'.restarting = w.restarting
          /\ w'.finishing = w.finishing /\ w'.asking = w.asking /\ w'.needPassword = w.needPassword
          /\ w'.issue = w.issue
      BY <1>0, <3>1 DEF WinSet
    <3>4. events' \cup w'.buffer \subseteq events \cup w.buffer
      BY <2>1, <3>2
    <3> QED
      BY <2>1, <3>2, <3>3, <3>4, SameSafe
  <2> QED
    BY <2>1, <2>2, <2>3
<1>8. ASSUME NEW e \in events, OnJobErrored(e) PROVE Safe'
  BY <1>8, ErroredSafe DEF OnJobErrored, history
<1>9. ASSUME NEW e \in events, OnJobFinished(e) PROVE Safe'
  BY <1>9, FinishedEventSafe DEF OnJobFinished, history
<1> QED
  BY <1>1, <1>2, <1>3, <1>4, <1>5, <1>6, <1>p, <1>7, <1>8, <1>9 DEF Script

LEMMA ShellSafe ==
  ASSUME Core, Safe, Deliver \/ (\E a \in unasked : HandleInner(a))
  PROVE  Safe'
<1>0. w \in WinSet
  BY DEF Core, WinTyped
<1>1. CASE (\E a \in unasked : HandleInner(a)) \/ (\E g \in timers : Flush(g)) \/ (\E o \in openers : Keep(o))
  BY <1>1, SameSafe DEF HandleInner, Flush, Keep, jobVars, history
<1>2. ASSUME NEW o \in openers, Tell(o) PROVE Safe'
  <2>1. UNCHANGED <<calls, job, events, good, deleted>> /\ w' = IF win = "open" THEN [w EXCEPT !.pending = TRUE] ELSE w
    BY <1>2 DEF Tell, jobVars, history
  <2>2. CASE win # "open"
    BY <2>1, <2>2, SameSafe
  <2>3. CASE win = "open"
    <3>1. w' = [w EXCEPT !.pending = TRUE]
      BY <2>1, <2>3
    <3>2. /\ w'.buffer = w.buffer /\ w'.init = w.init /\ w'.gen = w.gen /\ w'.req = w.req
          /\ w'.idx = w.idx /\ w'.mode = w.mode /\ w'.phase = w.phase /\ w'.jobId = w.jobId
          /\ w'.checked = w.checked /\ w'.result = w.result
      BY <1>0, <3>1 DEF WinSet
    <3>3. /\ w'.starting = w.starting /\ w'.checking = w.checking /\ w'.restarting = w.restarting
          /\ w'.finishing = w.finishing /\ w'.asking = w.asking /\ w'.needPassword = w.needPassword
          /\ w'.issue = w.issue
      BY <1>0, <3>1 DEF WinSet
    <3> QED
      BY <2>1, <3>2, <3>3, SameSafe
  <2> QED
    BY <2>2, <2>3
<1>3. ASSUME NEW o \in openers, Build(o) PROVE Safe'
  <2>1. UNCHANGED <<calls, job, events, good, deleted>> /\ w' = Blank /\ win = "none"
    BY <1>3 DEF Build, jobVars, history
  <2>2. w' = w
    BY <2>1 DEF Core, Places
  <2> QED
    BY <2>1, <2>2, SameSafe
<1> QED
  BY <1>1, <1>2, <1>3 DEF Deliver

LEMMA UserSafe ==
  ASSUME Core, Safe, User, ~crossed'
  PROVE  Safe'
<1>0. w \in WinSet /\ (w.req # <<>> => w.idx <= Len(w.req)) /\ (w.asking \/ w.needPassword => w.req # <<>>)
  BY DEF Core, WinTyped, Places
<1> DEFINE quiet == UNCHANGED <<win, job, jobs, events, good, deleted>> /\ win = "open"
<1>q. ASSUME quiet, w'.buffer = w.buffer PROVE Quietly /\ deleted' \subseteq good'
  BY <1>q DEF Quietly, Safe, SoFar
<1>1. CASE Confirm
  <2>1. /\ Checking(w, calls) /\ quiet /\ w.init /\ w.phase = "form" /\ ~w.restarting
        /\ ~w.checking /\ ~w.starting /\ ~w.asking
    BY <1>1 DEF Confirm, jobVars
  <2>2. Free(w) /\ w.jobId = 0
    BY <2>1 DEF Safe, Exclusive, Free
  <2>3. calls = {}
    BY <2>1, <2>2, NoCalls
  <2>4. w'.buffer = w.buffer
    BY <1>0, <2>1 DEF Checking, WinSet
  <2>5. w.mode # "batch" /\ Len(w.req) <= 1
    BY <2>1, <2>3 DEF Safe, SoFar
  <2>6. Checking(w, {})
    BY <2>1, <2>3
  <2>7. Quietly /\ deleted' \subseteq good'
    BY <2>1, <2>4, <1>q
  <2> QED
    BY <1>0, <2>1, <2>2, <2>5, <2>6, <2>7, CheckingSafe
<1>2. CASE ConfirmConflictChoice
  <2> DEFINE x == [w EXCEPT !.asking = FALSE]
  <2>1. StartExtract(x, calls) /\ quiet /\ w.asking
    BY <1>2 DEF ConfirmConflictChoice, jobVars, history
  <2>2. calls = {}
    BY <2>1, NoCalls
  <2>3. /\ ~w.checking /\ ~w.starting /\ ~w.needPassword /\ ~w.finishing /\ ~w.restarting
        /\ w.jobId = 0 /\ w.phase # "done"
    BY <2>1 DEF Safe, Exclusive
  <2>4. /\ x \in WinSet /\ Free(x) /\ x.jobId = 0 /\ x.phase = w.phase /\ x.mode = w.mode
        /\ x.req = w.req /\ x.idx = w.idx /\ x.issue = w.issue /\ x.checked = w.checked
        /\ x.buffer = w.buffer
    BY <1>0, <2>3 DEF WinSet, Free
  <2>5. StartExtract(x, {})
    BY <2>1, <2>2
  <2> HIDE DEF x
  <2>6. w'.buffer = w.buffer
    BY <2>4, <2>5 DEF StartExtract, WinSet
  <2>7. Quietly /\ deleted' \subseteq good'
    BY <2>1, <2>6, <1>q
  <2>8. x.mode = "batch" => x.phase = "running"
    BY <1>0, <2>3, <2>4 DEF Safe, SoFar, WinSet
  <2>9. /\ x.mode # "batch" => Len(x.req) <= 1
        /\ x.mode = "batch" /\ ~x.issue => \A i \in 1..x.idx - 1 : x.req[i] \in good
    BY <2>2, <2>4, <2>8 DEF Safe, SoFar
  <2>10. x.checked = Target(x)
    BY <2>1, <2>4 DEF Safe, Checked, Target
  <2> QED
    BY <2>3, <2>4, <2>5, <2>7, <2>8, <2>9, <2>10, StartSafe
<1>3. CASE CancelConflict
  <2> DEFINE x == [w EXCEPT !.asking = FALSE]
  <2>1. quiet /\ w.asking
    BY <1>3 DEF CancelConflict, jobVars, history
  <2>2. calls = {}
    BY <2>1, NoCalls
  <2>3. /\ ~w.checking /\ ~w.starting /\ ~w.needPassword /\ ~w.finishing /\ ~w.restarting
        /\ w.jobId = 0 /\ w.phase # "done"
    BY <2>1 DEF Safe, Exclusive
  <2>4. /\ x \in WinSet /\ Free(x) /\ x.jobId = 0 /\ x.phase = w.phase /\ x.mode = w.mode
        /\ x.req = w.req /\ x.idx = w.idx /\ x.issue = w.issue /\ x.checked = w.checked
        /\ x.buffer = w.buffer
    BY <1>0, <2>3 DEF WinSet, Free
  <2>5. /\ w.mode = "form" => w' = x /\ calls' = calls
        /\ w.mode = "auto" => w' = Done(x, "canceled") /\ calls' = calls
        /\ w.mode = "batch" => Onward([x EXCEPT !.issue = TRUE], calls)
        /\ w.mode \in {"form", "auto", "batch"}
    BY <1>0, <1>3 DEF CancelConflict, WinSet
  <2> HIDE DEF x
  <2>6. CASE w.mode = "form"
    <3>1. w' = x /\ calls' = {}
      BY <2>2, <2>5, <2>6
    <3>2. Exclusive' /\ Reasons' /\ Followed'
      BY <2>3, <2>4, <3>1 DEF Exclusive, Reasons, Followed, Free
    <3>3. Checked'
      BY <2>1, <2>4, <3>1 DEF Checked, Safe, Free
    <3>4. SoFar'
      BY <2>1, <2>2, <2>3, <2>4, <3>1 DEF SoFar, Safe
    <3> QED
      BY <3>2, <3>3, <3>4 DEF Safe
  <2>7. CASE w.mode = "auto"
    <3>1. w' = Done(x, "canceled") /\ calls' = {} /\ "canceled" \in Ends
      BY <2>2, <2>5, <2>7, EndsAre
    <3>2. w'.buffer = w.buffer
      BY <2>4, <3>1, DoneSame
    <3>3. Quietly /\ deleted' \subseteq good'
      BY <2>1, <3>2, <1>q
    <3>4. x.mode # "batch" => Len(x.req) <= 1
      BY <2>2, <2>4, <2>7 DEF Safe, SoFar
    <3>5. /\ ~x.checking /\ ~x.starting /\ ~x.asking /\ ~x.needPassword /\ ~x.restarting /\ ~x.finishing
          /\ w' = Done(x, "canceled") \/ (w' = [Done(x, "canceled") EXCEPT !.finishing = TRUE] /\ x.jobId # 0)
      BY <2>4, <3>1 DEF Free
    <3> QED
      BY <2>4, <3>1, <3>3, <3>4, <3>5, DoneSafe
  <2>8. CASE w.mode = "batch"
    <3> DEFINE y == [x EXCEPT !.issue = TRUE]
    <3>1. Onward(y, {})
      BY <2>2, <2>5, <2>8
    <3>2. w.phase = "running"
      BY <1>0, <2>3, <2>8 DEF Safe, SoFar, WinSet
    <3>3. /\ y \in WinSet /\ Free(y) /\ y.jobId = 0 /\ y.phase = "running" /\ y.mode = "batch"
          /\ y.req = w.req /\ y.idx = w.idx /\ y.issue /\ y.buffer = w.buffer
      BY <2>4, <2>8, <3>2 DEF WinSet, Free
    <3> HIDE DEF y
    <3>4. w'.buffer = w.buffer
      BY <3>1, <3>3, OnwardBuffer
    <3>5. Quietly /\ deleted' \subseteq good'
      BY <2>1, <3>4, <1>q
    <3> QED
      BY <1>0, <2>1, <3>1, <3>3, <3>5, OnwardSafe
  <2> QED
    BY <2>5, <2>6, <2>7, <2>8
<1>4. CASE SubmitPassword
  <2> DEFINE x == [w EXCEPT !.needPassword = FALSE, !.opens = TRUE]
  <2>1. /\ quiet /\ w.needPassword
        /\ IF w.checked = NoArchive THEN Checking(x, calls) ELSE StartExtract(x, calls)
    BY <1>4 DEF SubmitPassword, jobVars, history
  <2>2. calls = {}
    BY <2>1, NoCalls
  <2>3. /\ ~w.checking /\ ~w.starting /\ ~w.asking /\ ~w.finishing /\ ~w.restarting
        /\ w.jobId = 0 /\ w.phase = "running"
    BY <2>1 DEF Safe, Exclusive
  <2>4. /\ x \in WinSet /\ Free(x) /\ x.jobId = 0 /\ x.phase = w.phase /\ x.mode = w.mode
        /\ x.req = w.req /\ x.idx = w.idx /\ x.issue = w.issue /\ x.checked = w.checked
        /\ x.buffer = w.buffer
    BY <1>0, <2>3 DEF WinSet, Free
  <2> HIDE DEF x
  <2>5. w'.buffer = w.buffer
    BY <2>1, <2>4 DEF StartExtract, Checking, WinSet
  <2>6. Quietly /\ deleted' \subseteq good'
    BY <2>1, <2>5, <1>q
  <2>7. /\ x.mode # "batch" => Len(x.req) <= 1
        /\ x.mode = "batch" /\ ~x.issue => \A i \in 1..x.idx - 1 : x.req[i] \in good
    BY <2>2, <2>3, <2>4 DEF Safe, SoFar
  <2>8. x.checked \in {NoArchive, Target(x)} /\ x.phase = "running"
    BY <2>1, <2>3, <2>4 DEF Safe, Checked, Target
  <2>9. CASE w.checked = NoArchive
    <3>1. Checking(x, {})
      BY <2>1, <2>2, <2>9
    <3> QED
      BY <2>4, <2>6, <2>7, <2>8, <3>1, CheckingSafe
  <2>10. CASE w.checked # NoArchive
    <3>1. StartExtract(x, {}) /\ x.checked = Target(x)
      BY <2>1, <2>2, <2>4, <2>8, <2>10
    <3> QED
      BY <2>4, <2>6, <2>7, <2>8, <3>1, StartSafe
  <2> QED
    BY <2>9, <2>10
<1>5. CASE CancelPassword
  <2> DEFINE x == [w EXCEPT !.needPassword = FALSE]
  <2>1. /\ quiet /\ w.needPassword
        /\ IF w.mode = "batch" THEN Onward([x EXCEPT !.issue = TRUE], calls)
           ELSE w' = Done(x, "canceled") /\ calls' = calls
    BY <1>5 DEF CancelPassword, jobVars, history
  <2>2. calls = {}
    BY <2>1, NoCalls
  <2>3. /\ ~w.checking /\ ~w.starting /\ ~w.asking /\ ~w.finishing /\ ~w.restarting
        /\ w.jobId = 0 /\ w.phase = "running"
    BY <2>1 DEF Safe, Exclusive
  <2>4. /\ x \in WinSet /\ Free(x) /\ x.jobId = 0 /\ x.phase = w.phase /\ x.mode = w.mode
        /\ x.req = w.req /\ x.idx = w.idx /\ x.buffer = w.buffer
    BY <1>0, <2>3 DEF WinSet, Free
  <2> HIDE DEF x
  <2>5. CASE w.mode # "batch"
    <3>1. w' = Done(x, "canceled") /\ calls' = {} /\ "canceled" \in Ends
      BY <2>1, <2>2, <2>5, EndsAre
    <3>2. w'.buffer = w.buffer
      BY <2>4, <3>1, DoneSame
    <3>3. Quietly /\ deleted' \subseteq good'
      BY <2>1, <3>2, <1>q
    <3>4. x.mode # "batch" => Len(x.req) <= 1
      BY <2>2, <2>4, <2>5 DEF Safe, SoFar
    <3>5. /\ ~x.checking /\ ~x.starting /\ ~x.asking /\ ~x.needPassword /\ ~x.restarting /\ ~x.finishing
          /\ w' = Done(x, "canceled") \/ (w' = [Done(x, "canceled") EXCEPT !.finishing = TRUE] /\ x.jobId # 0)
      BY <2>4, <3>1 DEF Free
    <3> QED
      BY <2>4, <3>1, <3>3, <3>4, <3>5, DoneSafe
  <2>6. CASE w.mode = "batch"
    <3> DEFINE y == [x EXCEPT !.issue = TRUE]
    <3>1. Onward(y, {})
      BY <2>1, <2>2, <2>6
    <3>2. /\ y \in WinSet /\ Free(y) /\ y.jobId = 0 /\ y.phase = "running" /\ y.mode = "batch"
          /\ y.req = w.req /\ y.idx = w.idx /\ y.issue /\ y.buffer = w.buffer
      BY <2>3, <2>4, <2>6 DEF WinSet, Free
    <3> HIDE DEF y
    <3>3. w'.buffer = w.buffer
      BY <3>1, <3>2, OnwardBuffer
    <3>4. Quietly /\ deleted' \subseteq good'
      BY <2>1, <3>3, <1>q
    <3> QED
      BY <1>0, <2>1, <3>1, <3>2, <3>4, OnwardSafe
  <2> QED
    BY <2>5, <2>6
<1>6. CASE CancelJob
  <2>1. job # Idle /\ job' = [job EXCEPT !.canceled = TRUE] /\ UNCHANGED <<w, calls, events, good, deleted>>
    BY <1>6 DEF CancelJob, history
  <2>2. /\ job'.id = job.id /\ job'.arc = job.arc /\ job'.opens = job.opens /\ job'.checked = job.checked
    BY <2>1 DEF Core, WinTyped, JobSet
  <2>3. \A id, a : OfJob(id, a) => OfJob(id, a)'
    BY <2>1, <2>2 DEF OfJob
  <2>4. Exclusive' /\ SoFar'
    BY <2>1 DEF Safe, Exclusive, SoFar
  <2>5. Reasons'
    BY <2>1, <2>3 DEF Safe, Reasons, Target
  <2>6. Checked'
    BY <2>1, <2>2 DEF Safe, Checked, Target
  <2>7. Followed'
    BY <2>1, <2>2, <2>3 DEF Safe, Followed, Target
  <2> QED
    BY <2>4, <2>5, <2>6, <2>7 DEF Safe
<1>7. CASE Close
  BY <1>7, GoneSafe DEF Close, history
<1> QED
  BY <1>1, <1>2, <1>3, <1>4, <1>5, <1>6, <1>7 DEF User

\* The answer that is there is the only call.
LEMMA AnswerFacts ==
  ASSUME Core, Safe, NEW c \in calls
  PROVE  /\ w \in WinSet /\ c \in CallSet /\ win = "open" /\ calls = {c} /\ calls \ {c} = {}
         /\ (w.req # <<>> => w.idx <= Len(w.req))
         /\ (c.op \in {"check", "extract", "delete"} => w.req # <<>>)
         /\ (c.op = "load" => w.restarting /\ c.req # <<>> /\ w.phase = "form")
         /\ (c.op = "take" => (w.init <=> w.restarting))
         /\ (c.op = "take" /\ ~w.init =>
                w.req = <<>> /\ w.phase = "form" /\ ~w.checking /\ ~w.starting /\ ~w.asking)
         /\ (c.op = "check" => w.checking /\ c.gen = w.gen /\ c.arc = Target(w))
         /\ (c.op # "load" /\ w.mode # "batch" => Len(w.req) <= 1)
         /\ deleted \subseteq good
<1>1. /\ w \in WinSet /\ c \in CallSet /\ win = "open"
      /\ (w.req # <<>> => w.idx <= Len(w.req))
      /\ (c.op \in {"check", "extract", "delete"} => w.req # <<>>)
      /\ (c.op = "load" => w.restarting /\ c.req # <<>>)
      /\ (c.op = "take" => (w.init <=> w.restarting))
  BY DEF Core, WinTyped, Places
<1>2. /\ calls = {c}
      /\ (c.op = "load" => w.phase = "form")
      /\ (c.op = "take" /\ ~w.init =>
             w.req = <<>> /\ w.phase = "form" /\ ~w.checking /\ ~w.starting /\ ~w.asking)
      /\ (c.op = "check" => w.checking /\ c.gen = w.gen /\ c.arc = Target(w))
  BY DEF Safe, Reasons
<1>3. (c.op # "load" /\ w.mode # "batch" => Len(w.req) <= 1) /\ deleted \subseteq good
  BY <1>2 DEF Safe, SoFar
<1> QED
  BY <1>1, <1>2, <1>3

LEMMA TakingSafe ==
  ASSUME Core, Kept, Safe, NEW c \in calls, Take(c) \/ TakenAtMount(c) \/ Taken(c) \/ Loaded(c)
  PROVE  Safe'
<1>0. /\ w \in WinSet /\ c \in CallSet /\ win = "open" /\ calls = {c} /\ calls \ {c} = {}
      /\ (c.op = "load" => w.restarting /\ c.req # <<>> /\ w.phase = "form")
      /\ (c.op = "take" => (w.init <=> w.restarting))
      /\ (c.op = "take" /\ ~w.init =>
             w.req = <<>> /\ w.phase = "form" /\ ~w.checking /\ ~w.starting /\ ~w.asking)
      /\ (c.op # "load" /\ w.mode # "batch" => Len(w.req) <= 1)
      /\ deleted \subseteq good
  BY AnswerFacts
<1>q. ASSUME UNCHANGED <<win, job, jobs, events, good, deleted>>, w'.buffer = w.buffer
      PROVE  Quietly /\ deleted' \subseteq good'
  BY <1>0, <1>q DEF Quietly
<1>1. CASE Take(c)
  <2> DEFINE k == [c EXCEPT !.req = slot, !.answer = "ok"]
  <2>1. /\ calls' = (calls \ {c}) \cup {k} /\ UNCHANGED <<w, job, events, good, deleted>>
        /\ c.op = "take"
    BY <1>1 DEF Take, jobVars, history
  <2>2. k.op = "take"
    BY <1>0, <2>1 DEF CallSet
  <2> HIDE DEF k
  <2>3. calls' = {k}
    BY <1>0, <2>1
  <2>4. Exclusive' /\ Checked' /\ Followed'
    BY <2>1 DEF Safe, Exclusive, Checked, Followed, OfJob, Target
  <2>5. Reasons'
    BY <1>0, <2>1, <2>2, <2>3 DEF Reasons
  <2>6. SoFar'
    BY <1>0, <2>1 DEF Safe, SoFar
  <2> QED
    BY <2>4, <2>5, <2>6 DEF Safe
<1>2. CASE TakenAtMount(c)
  <2>1. /\ c.op = "take" /\ ~w.restarting /\ UNCHANGED <<win, job, jobs, events, good, deleted>>
    BY <1>2 DEF TakenAtMount, jobVars, history
  <2>2. ~w.init /\ w.phase = "form" /\ ~w.checking /\ ~w.starting /\ ~w.asking
    BY <1>0, <2>1
  <2>3. CASE c.req = <<>>
    <3>1. w' = w /\ calls' = {}
      BY <1>0, <1>2, <2>3 DEF TakenAtMount
    <3>2. Exclusive' /\ Checked' /\ Followed'
      BY <2>1, <3>1 DEF Safe, Exclusive, Checked, Followed, OfJob, Target
    <3>3. Reasons'
      BY <3>1 DEF Reasons
    <3>4. SoFar'
      BY <1>0, <2>1, <3>1 DEF Safe, SoFar
    <3> QED
      BY <3>2, <3>3, <3>4 DEF Safe
  <2>4. CASE c.req # <<>>
    <3>1. Load(w, c.req, {}) /\ c.req \in Asked
      BY <1>0, <1>2, <2>4 DEF TakenAtMount, CallSet
    <3>2. w'.buffer = w.buffer
      BY <1>0, <3>1, LoadBuffer
    <3>3. Quietly /\ deleted' \subseteq good'
      BY <2>1, <3>2, <1>q
    <3>4. ~w.needPassword /\ ~w.finishing /\ w.jobId = 0
      BY <2>2 DEF Safe, Exclusive
    <3> QED
      BY <2>2, <2>4, <3>1, <3>3, <3>4, LoadSafe
  <2> QED
    BY <2>3, <2>4
<1>3. CASE Taken(c)
  <2>1. /\ c.op = "take" /\ w.restarting /\ UNCHANGED <<win, job, jobs, events, good, deleted>>
    BY <1>3 DEF Taken, Handled, jobVars, history
  <2>2. ~w.checking /\ ~w.starting /\ ~w.asking /\ ~w.needPassword /\ ~w.finishing /\ w.phase # "running"
    BY <2>1 DEF Safe, Exclusive
  <2>3. CASE c.req = <<>>
    <3>1. w' = [w EXCEPT !.restarting = FALSE] /\ calls' = {}
      BY <1>0, <1>3, <2>3 DEF Taken, Handled
    <3>2. /\ w'.buffer = w.buffer /\ w'.req = w.req /\ w'.idx = w.idx
          /\ w'.mode = w.mode /\ w'.phase = w.phase /\ w'.jobId = w.jobId
          /\ w'.checked = w.checked /\ w'.result = w.result
      BY <1>0, <3>1 DEF WinSet
    <3>3. Free(w')
      BY <1>0, <2>2, <3>1 DEF WinSet, Free
    <3>4. Exclusive' /\ Reasons'
      BY <3>1, <3>2, <3>3 DEF Safe, Exclusive, Reasons, Free
    <3>5. Checked' /\ Followed'
      BY <2>1, <2>2, <3>2, <3>3 DEF Safe, Checked, Followed, Free
    <3>6. SoFar'
      BY <1>0, <2>1, <2>2, <3>1, <3>2 DEF Safe, SoFar
    <3> QED
      BY <3>4, <3>5, <3>6 DEF Safe
  <2>4. CASE c.req # <<>>
    <3> DEFINE k == [c EXCEPT !.op = "load"]
    <3>1. w' = Cleared(w) /\ calls' = {k}
      BY <1>0, <1>3, <2>4 DEF Taken, Handled
    <3>2. k.op = "load"
      BY <1>0 DEF CallSet
    <3> HIDE DEF k
    <3>3. /\ w'.restarting /\ w'.jobId = 0 /\ w'.mode = "form" /\ w'.phase = "form"
          /\ w'.result = "none" /\ ~w'.needPassword /\ ~w'.asking /\ ~w'.starting /\ ~w'.checking
          /\ ~w'.finishing
      BY <1>0, <2>1, <2>2, <3>1, ClearedFacts
    <3>4. Exclusive' /\ Followed'
      BY <3>3 DEF Exclusive, Followed
    <3>5. Reasons'
      BY <3>1, <3>2, <3>3 DEF Reasons
    <3>6. Checked'
      BY <2>1, <3>3 DEF Safe, Checked
    <3>7. SoFar'
      BY <1>0, <2>1, <3>1, <3>2, <3>3 DEF SoFar
    <3> QED
      BY <3>4, <3>5, <3>6, <3>7 DEF Safe
  <2> QED
    BY <2>3, <2>4
<1>4. CASE Loaded(c)
  <2>1. /\ c.op = "load" /\ Load(w, c.req, {}) /\ UNCHANGED <<win, job, jobs, events, good, deleted>>
        /\ c.req \in Asked
    BY <1>0, <1>4 DEF Loaded, jobVars, history, CallSet
  <2>2. w.restarting /\ c.req # <<>> /\ w.phase = "form"
    BY <1>0, <2>1
  <2>3. ~w.checking /\ ~w.starting /\ ~w.asking /\ ~w.needPassword /\ ~w.finishing /\ w.jobId = 0
    BY <2>2 DEF Safe, Exclusive
  <2>4. w'.buffer = w.buffer
    BY <1>0, <2>1, LoadBuffer
  <2>5. Quietly /\ deleted' \subseteq good'
    BY <2>1, <2>4, <1>q
  <2> QED
    BY <2>1, <2>2, <2>3, <2>5, LoadSafe
<1> QED
  BY <1>1, <1>2, <1>3, <1>4

LEMMA CheckedSafe ==
  ASSUME Core, Safe, NEW c \in calls,
         StaleAnswer(c) \/ NoConflict(c) \/ SomeConflict(c) \/ CheckNeedsPassword(c) \/ CheckFails(c)
  PROVE  Safe'
<1>1. /\ c.op = "check" /\ UNCHANGED <<win, job, jobs, events, good, deleted>>
  BY DEF StaleAnswer, NoConflict, SomeConflict, CheckNeedsPassword, CheckFails, Handled, jobVars, history
<1>2. /\ w \in WinSet /\ c \in CallSet /\ win = "open" /\ calls = {c} /\ calls \ {c} = {}
      /\ w.req # <<>> /\ w.idx <= Len(w.req)
      /\ w.checking /\ c.gen = w.gen /\ c.arc = Target(w)
      /\ (w.mode # "batch" => Len(w.req) <= 1)
      /\ deleted \subseteq good
  BY <1>1, AnswerFacts
<1>3. /\ ~w.starting /\ ~w.asking /\ ~w.needPassword /\ ~w.finishing /\ ~w.restarting
      /\ w.jobId = 0 /\ w.phase # "done"
  BY <1>2 DEF Safe, Exclusive
<1>4. w.mode = "batch" => w.phase = "running"
  BY <1>2, <1>3 DEF Safe, SoFar, WinSet
<1>5. w.mode = "batch" /\ ~w.issue => \A i \in 1..w.idx - 1 : w.req[i] \in good
  BY <1>4 DEF Safe, SoFar
<1>q. ASSUME w'.buffer = w.buffer PROVE Quietly /\ deleted' \subseteq good'
  BY <1>1, <1>2, <1>q DEF Quietly
<1>6. ASSUME NEW x \in WinSet, StartExtract(x, {}), Free(x),
             x.jobId = 0, x.phase = w.phase, x.mode = w.mode, x.req = w.req, x.idx = w.idx,
             x.issue = w.issue, x.buffer = w.buffer,
             x.checked \in {NoArchive, Target(w)}, x.opens => x.checked = Target(w)
      PROVE  Safe'
  <2>1. w'.buffer = w.buffer
    BY <1>6 DEF StartExtract, WinSet
  <2>2. Quietly /\ deleted' \subseteq good'
    BY <2>1, <1>q
  <2>3. Target(x) = Target(w)
    BY <1>6 DEF Target
  <2>4. /\ x.phase # "done"
        /\ x.mode = "batch" => x.phase = "running"
        /\ x.mode # "batch" => Len(x.req) <= 1
        /\ x.mode = "batch" /\ ~x.issue => \A i \in 1..x.idx - 1 : x.req[i] \in good
    BY <1>2, <1>3, <1>4, <1>5, <1>6
  <2> QED
    BY <1>6, <2>2, <2>3, <2>4, StartSafe
<1>7. CASE NoConflict(c)
  <2> DEFINE x == [w EXCEPT !.checking = FALSE, !.checked = c.arc]
  <2>1. StartExtract(x, {})
    BY <1>2, <1>7 DEF NoConflict
  <2>2. c.arc \in Named
    BY <1>2 DEF CallSet
  <2>3. /\ x \in WinSet /\ Free(x) /\ x.jobId = 0 /\ x.phase = w.phase /\ x.mode = w.mode
        /\ x.req = w.req /\ x.idx = w.idx /\ x.issue = w.issue /\ x.buffer = w.buffer
        /\ x.checked = c.arc
    BY <1>2, <1>3, <2>2 DEF WinSet, Free
  <2> HIDE DEF x
  <2> QED
    BY <1>2, <2>1, <2>3, <1>6
<1>8. CASE CheckNeedsPassword(c)
  <2> DEFINE x == [w EXCEPT !.checking = FALSE, !.checked = NoArchive, !.opens = FALSE]
  <2>1. StartExtract(x, {})
    BY <1>2, <1>8 DEF CheckNeedsPassword
  <2>2. /\ x \in WinSet /\ Free(x) /\ x.jobId = 0 /\ x.phase = w.phase /\ x.mode = w.mode
        /\ x.req = w.req /\ x.idx = w.idx /\ x.issue = w.issue /\ x.buffer = w.buffer
        /\ x.checked = NoArchive /\ ~x.opens
    BY <1>2, <1>3 DEF WinSet, Free, Named
  <2> HIDE DEF x
  <2> QED
    BY <2>1, <2>2, <1>6
<1>9. CASE SomeConflict(c)
  <2>1. w' = [w EXCEPT !.checking = FALSE, !.checked = c.arc, !.asking = TRUE] /\ calls' = {}
    BY <1>2, <1>9 DEF SomeConflict, Handled
  <2>2. /\ w'.buffer = w.buffer /\ w'.req = w.req /\ w'.idx = w.idx
        /\ w'.mode = w.mode /\ w'.phase = w.phase /\ w'.jobId = w.jobId
        /\ w'.checked = c.arc /\ w'.result = w.result
    BY <1>2, <2>1 DEF WinSet
  <2>3. /\ ~w'.checking /\ ~w'.starting /\ w'.asking /\ ~w'.needPassword /\ ~w'.finishing
        /\ ~w'.restarting /\ w'.issue = w.issue
    BY <1>2, <1>3, <2>1 DEF WinSet
  <2>4. Target(w)' = Target(w)
    BY <2>2 DEF Target
  <2>5. Exclusive' /\ Reasons'
    BY <1>3, <2>1, <2>2, <2>3 DEF Exclusive, Reasons
  <2>6. Checked' /\ Followed'
    BY <1>1, <1>2, <1>3, <2>2, <2>3, <2>4 DEF Safe, Checked, Followed
  <2>7. SoFar'
    BY <1>1, <1>2, <1>3, <2>1, <2>2, <2>3 DEF Safe, SoFar
  <2> QED
    BY <2>5, <2>6, <2>7 DEF Safe
<1>10. CASE CheckFails(c)
  <2> DEFINE x == [w EXCEPT !.checking = FALSE, !.checked = NoArchive]
  <2>1. IF w.mode = "batch" THEN Onward([x EXCEPT !.issue = TRUE], {})
        ELSE w' = Done(x, "error") /\ calls' = {}
    BY <1>2, <1>10 DEF CheckFails
  <2>2. /\ x \in WinSet /\ Free(x) /\ x.jobId = 0 /\ x.phase = w.phase /\ x.mode = w.mode
        /\ x.req = w.req /\ x.idx = w.idx /\ x.buffer = w.buffer
    BY <1>2, <1>3 DEF WinSet, Free, Named
  <2> HIDE DEF x
  <2>3. CASE w.mode # "batch"
    <3>1. w' = Done(x, "error") /\ calls' = {} /\ "error" \in Ends
      BY <2>1, <2>3, EndsAre
    <3>2. w'.buffer = w.buffer
      BY <2>2, <3>1, DoneSame
    <3>3. Quietly /\ deleted' \subseteq good'
      BY <3>2, <1>q
    <3>4. x.mode # "batch" => Len(x.req) <= 1
      BY <1>2, <2>2
    <3>5. /\ ~x.checking /\ ~x.starting /\ ~x.asking /\ ~x.needPassword /\ ~x.restarting /\ ~x.finishing
          /\ w' = Done(x, "error") \/ (w' = [Done(x, "error") EXCEPT !.finishing = TRUE] /\ x.jobId # 0)
      BY <2>2, <3>1 DEF Free
    <3> QED
      BY <2>2, <3>1, <3>3, <3>4, <3>5, DoneSafe
  <2>4. CASE w.mode = "batch"
    <3> DEFINE y == [x EXCEPT !.issue = TRUE]
    <3>1. Onward(y, {})
      BY <2>1, <2>4
    <3>2. /\ y \in WinSet /\ Free(y) /\ y.jobId = 0 /\ y.phase = "running" /\ y.mode = "batch"
          /\ y.req = w.req /\ y.idx = w.idx /\ y.issue /\ y.buffer = w.buffer
      BY <1>4, <2>2, <2>4 DEF WinSet, Free
    <3> HIDE DEF y
    <3>3. w'.buffer = w.buffer
      BY <3>1, <3>2, OnwardBuffer
    <3>4. Quietly /\ deleted' \subseteq good'
      BY <3>3, <1>q
    <3> QED
      BY <1>2, <3>1, <3>2, <3>4, OnwardSafe
  <2> QED
    BY <2>3, <2>4
<1>11. CASE StaleAnswer(c)
  BY <1>2, <1>11 DEF StaleAnswer
<1> QED
  BY <1>7, <1>8, <1>9, <1>10, <1>11

LEMMA ExtractedSafe ==
  ASSUME Core, Safe, NEW c \in calls, Extract(c) \/ Started(c) \/ Refused(c)
  PROVE  Safe'
<1>1. c.op = "extract" /\ UNCHANGED <<win, good, deleted>>
  BY DEF Extract, Started, Refused, Handled, jobVars, history
<1>2. /\ w \in WinSet /\ c \in CallSet /\ win = "open" /\ calls = {c} /\ calls \ {c} = {}
      /\ w.req # <<>> /\ w.idx <= Len(w.req)
      /\ (w.mode # "batch" => Len(w.req) <= 1)
      /\ deleted \subseteq good
  BY <1>1, AnswerFacts
<1>3. /\ w.starting /\ c.arc = Target(w) /\ (c.opens => c.checked = c.arc)
      /\ (c.answer = "ok" => c.id # 0 /\ OfJob(c.id, c.arc))
  BY <1>1 DEF Safe, Reasons
<1>4. /\ ~w.checking /\ ~w.asking /\ ~w.needPassword /\ ~w.finishing /\ ~w.restarting
      /\ w.jobId = 0 /\ w.phase # "done"
  BY <1>3 DEF Safe, Exclusive
<1>5. w.mode = "batch" => w.phase = "running"
  BY <1>2, <1>4 DEF Safe, SoFar, WinSet
<1>6. w.checked \in {NoArchive, Target(w)}
  BY <1>3 DEF Safe, Checked
<1>7. CASE Extract(c)
  <2>0. UNCHANGED <<w, events>>
    BY <1>7 DEF Extract
  <2>1. CASE /\ job = Idle /\ jobs + closings < MaxJobs /\ jobs' = jobs + 1
             /\ job' = [id |-> jobs', arc |-> c.arc, checked |-> c.checked, opens |-> c.opens,
                        canceled |-> FALSE]
             /\ calls' = (calls \ {c}) \cup {[c EXCEPT !.answer = "ok", !.id = jobs']}
    <3> DEFINE n == jobs'
               k == [c EXCEPT !.answer = "ok", !.id = n]
    <3>1. n \in Nat /\ n # 0 /\ \A e \in events \cup w.buffer : e.id # n
      <4>1. jobs \in Nat /\ \A e \in events \cup w.buffer : e.id <= jobs
        BY DEF Core, WinTyped, Issued
      <4> QED
        BY <2>1, <4>1
    <3>2. /\ job' = [id |-> n, arc |-> c.arc, checked |-> c.checked, opens |-> c.opens, canceled |-> FALSE]
          /\ calls' = {k}
      BY <1>2, <2>1
    <3> HIDE DEF n
    <3>3. /\ k.op = "extract" /\ k.arc = c.arc /\ k.checked = c.checked /\ k.opens = c.opens /\ k.id = n
      BY <1>1, <1>2 DEF CallSet
    <3>4. job'.id = n /\ job'.arc = c.arc /\ job'.checked = c.checked /\ (job'.opens <=> c.opens)
      BY <3>2
    <3> HIDE DEF k
    <3>6. Exclusive' /\ SoFar'
      BY <1>1, <1>2, <2>0 DEF Safe, Exclusive, SoFar
    <3>7. Reasons'
      <4>1. \A d \in calls' : d = k
        BY <3>2
      <4>2. Target(w)' = Target(w) /\ w'.starting
        BY <1>3, <2>0
      <4>3. k.id # 0 /\ k.arc = Target(w)' /\ (k.opens => k.checked = k.arc)
        BY <1>3, <3>1, <3>3, <4>2
      <4>4. /\ (job' # Idle /\ job'.id = k.id => job'.arc = k.arc)
            /\ \A e \in events' \cup w'.buffer : e.id = k.id /\ e.end = "ok" => k.arc \in good'
        BY <2>0, <3>1, <3>3, <3>4
      <4> QED
        BY <3>3, <4>1, <4>2, <4>3, <4>4 DEF Reasons, OfJob
    <3>8. Checked'
      BY <1>3, <1>4, <1>6, <2>0, <3>4 DEF Checked, Target
    <3>9. Followed'
      BY <1>4, <2>0 DEF Followed
    <3> QED
      BY <3>6, <3>7, <3>8, <3>9 DEF Safe
  <2>2. CASE calls' = (calls \ {c}) \cup {[c EXCEPT !.answer = "refused"]} /\ UNCHANGED <<job, jobs>>
    <3> DEFINE k == [c EXCEPT !.answer = "refused"]
    <3>1. /\ calls' = {k} /\ k.op = "extract" /\ k.arc = c.arc /\ k.checked = c.checked /\ k.opens = c.opens
          /\ k.answer = "refused"
      BY <1>1, <1>2, <2>2 DEF CallSet
    <3> HIDE DEF k
    <3>2. Exclusive' /\ SoFar'
      BY <1>1, <1>2, <2>0 DEF Safe, Exclusive, SoFar
    <3>3. Reasons'
      BY <1>3, <2>0, <3>1 DEF Reasons, Target
    <3>4. Checked' /\ Followed'
      BY <1>4, <2>0, <2>2 DEF Safe, Checked, Followed, Target
    <3> QED
      BY <3>2, <3>3, <3>4 DEF Safe
  <2> QED
    BY <1>7, <2>1, <2>2 DEF Extract
<1>8. CASE Started(c)
  <2>1. /\ w' = [w EXCEPT !.jobId = c.id, !.starting = FALSE, !.result = "none",
                           !.needPassword = FALSE, !.phase = "running", !.buffer = {}]
        /\ calls' = {} /\ events' = events \cup w.buffer /\ job' = job /\ c.answer = "ok"
    BY <1>2, <1>8 DEF Started, Handled
  <2>2. c.id \in Nat
    BY <1>2 DEF CallSet
  <2>3. /\ w'.jobId = c.id /\ w'.phase = "running" /\ w'.buffer = {} /\ w'.req = w.req /\ w'.idx = w.idx
        /\ w'.mode = w.mode /\ w'.checked = w.checked
    BY <1>2, <2>1, <2>2 DEF WinSet
  <2>4. Free(w') /\ w'.issue = w.issue
    BY <1>2, <1>4, <2>1, <2>2 DEF WinSet, Free
  <2>5. Target(w)' = Target(w)
    BY <2>3 DEF Target
  <2>6. Exclusive' /\ Reasons'
    BY <2>1, <2>3, <2>4 DEF Exclusive, Reasons, Free
  <2>7. Checked'
    BY <1>6, <2>1, <2>3, <2>4, <2>5 DEF Safe, Checked, Free
  <2>8. OfJob(c.id, c.arc)
    BY <1>3, <2>1
  <2>9. Followed'
    <3>1. /\ (job' # Idle /\ job'.id = w'.jobId => job'.arc = Target(w)')
          /\ \A e \in events' \cup w'.buffer : e.id = w'.jobId /\ e.end = "ok" => Target(w)' \in good'
      BY <1>1, <1>3, <2>1, <2>3, <2>5, <2>8 DEF OfJob
    <3> QED
      BY <2>3, <2>4, <3>1 DEF Followed, OfJob, Free
  <2>10. SoFar'
    BY <1>1, <1>2, <1>5, <2>1, <2>3, <2>4 DEF Safe, SoFar
  <2> QED
    BY <2>6, <2>7, <2>9, <2>10 DEF Safe
<1>9. CASE Refused(c)
  <2> DEFINE x == [w EXCEPT !.starting = FALSE]
  <2>1. /\ w' = IF w.phase = "form" THEN x ELSE Done(x, "error")
        /\ calls' = {} /\ UNCHANGED <<job, jobs, events>>
    BY <1>2, <1>9 DEF Refused, Handled, jobVars
  <2>2. /\ x \in WinSet /\ Free(x) /\ x.req = w.req /\ x.idx = w.idx /\ x.jobId = 0 /\ x.phase = w.phase
        /\ x.mode = w.mode /\ x.buffer = w.buffer /\ x.checked = w.checked /\ x.issue = w.issue
    BY <1>2, <1>4 DEF WinSet, Free
  <2> HIDE DEF x
  <2>3. CASE w.phase = "form"
    <3>1. w' = x
      BY <2>1, <2>3
    <3>2. Exclusive' /\ Reasons' /\ Followed'
      BY <1>4, <2>1, <2>2, <3>1 DEF Exclusive, Reasons, Followed, Free
    <3>3. Checked'
      BY <2>1, <2>2, <2>3, <3>1 DEF Checked, Safe, Free
    <3>4. SoFar'
      BY <1>1, <1>2, <1>5, <2>1, <2>2, <2>3, <3>1 DEF SoFar
    <3> QED
      BY <3>2, <3>3, <3>4 DEF Safe
  <2>4. CASE w.phase # "form"
    <3>1. w' = Done(x, "error") /\ "error" \in Ends
      BY <2>1, <2>4, EndsAre
    <3>2. w'.buffer = w.buffer
      BY <2>2, <3>1, DoneSame
    <3>3. Quietly /\ deleted' \subseteq good'
      BY <1>1, <1>2, <2>1, <3>2 DEF Quietly
    <3>4. x.mode # "batch" => Len(x.req) <= 1
      BY <1>2, <2>2
    <3>5. /\ ~x.checking /\ ~x.starting /\ ~x.asking /\ ~x.needPassword /\ ~x.restarting /\ ~x.finishing
          /\ w' = Done(x, "error") \/ (w' = [Done(x, "error") EXCEPT !.finishing = TRUE] /\ x.jobId # 0)
      BY <2>2, <3>1 DEF Free
    <3> QED
      BY <2>1, <2>2, <3>1, <3>3, <3>4, <3>5, DoneSafe
  <2> QED
    BY <2>3, <2>4
<1> QED
  BY <1>7, <1>8, <1>9

LEMMA DeletedSafe ==
  ASSUME Core, Safe, NEW c \in calls, DeleteFile(c)
  PROVE  Safe'
<1>1. /\ c.op = "delete" /\ UNCHANGED <<win, job, jobs, events, good>>
      /\ deleted' \in {deleted, deleted \cup {c.arc}} /\ Finished(w, "ok", calls \ {c})
  BY DEF DeleteFile, jobVars
<1>2. /\ win = "open" /\ calls \ {c} = {}
      /\ (w.mode # "batch" => Len(w.req) <= 1)
      /\ deleted \subseteq good
  BY <1>1, AnswerFacts
<1>3. w.finishing /\ w.phase = "running" /\ c.arc = Target(w) /\ c.arc \in good
  BY <1>1 DEF Safe, Reasons
<1>4. /\ ~w.checking /\ ~w.starting /\ ~w.asking /\ ~w.needPassword /\ ~w.restarting /\ w.jobId # 0
  BY <1>3 DEF Safe, Exclusive
<1>5. /\ job # Idle => job.id # w.jobId
      /\ \A e \in events' \cup w.buffer : e.id # w.jobId
  BY <1>1, <1>3, <1>4 DEF Safe, Followed
<1>6. Finished(w, "ok", {}) /\ deleted' \subseteq good' /\ "ok" \in Ends /\ Target(w) \in good
      /\ win' = "open" /\ events' \subseteq events
  BY <1>1, <1>2, <1>3, EndsAre
<1> QED
  BY <1>1, <1>2, <1>3, <1>4, <1>5, <1>6, FinishedSafe

LEMMA SafeNext ==
  ASSUME Core, Kept, Safe, ExtractNext, ~crossed'
  PROVE  Safe'
<1>1. ASSUME NEW c \in calls, AnswersTo(c) PROVE Safe'
  BY <1>1, TakingSafe, CheckedSafe, ExtractedSafe, DeletedSafe DEF AnswersTo
<1> QED
  BY <1>1, ShellSafe, ScriptSafe, UserSafe DEF ExtractNext, Answer

-----------------------------------------------------------------------------
(* The invariant and what follows from it.                                  *)

LEMMA ExtractInvHolds == ExtractInit => ExtractInv
<1> SUFFICES ASSUME ExtractInit PROVE ExtractInv
  OBVIOUS
<1>0. /\ w = Blank /\ calls = {} /\ job = Idle /\ jobs = 0 /\ events = {}
      /\ w \in WinSet /\ w.buffer = {} /\ w.req = <<>> /\ w.idx = 1 /\ w.jobId = 0
      /\ w.phase = "form" /\ w.mode = "form" /\ ~w.init /\ Free(w)
  BY BlankTyped DEF ExtractInit
<1>1. Gathering
  <2>1. Cardinality(Chosen) \in Nat
    BY FS_CardinalityType, ShellAssumption
  <2>2. unasked = Chosen /\ agg = [paths |-> <<>>, gen |-> 0] /\ timers = {} /\ openers = {}
    BY DEF ExtractInit
  <2>3. <<>> \in Seq(Chosen \ unasked) /\ IsInjective(<<>>)
    BY DEF IsInjective
  <2> QED
    BY <2>1, <2>2, <2>3 DEF Gathering
<1>2. Kept /\ Noted
  BY NoneAsked DEF Kept, Noted, ExtractInit
<1>3. Core
  BY <1>0 DEF Core, WinTyped, Issued, EndsOnce, Places, Free
<1>4. Exclusive /\ Reasons /\ Checked /\ Followed
  BY <1>0 DEF Exclusive, Reasons, Checked, Followed, Free
<1>5. SoFar
  BY <1>0 DEF SoFar, ExtractInit
<1> QED
  BY <1>1, <1>2, <1>3, <1>4, <1>5 DEF ExtractInv, Safe

LEMMA ExtractInvNext ==
  ASSUME ExtractInv, ExtractNext PROVE ExtractInv'
<1>1. Gathering' /\ Kept' /\ Noted' /\ Core'
  BY GatheringNext, KeptNext, NotedNext, CoreNext DEF ExtractInv
<1>2. ~crossed' => ~crossed
  <2>1. \A c \in calls : AnswersTo(c) => crossed' = crossed
    BY DEF AnswersTo, Take, TakenAtMount, Taken, Loaded, StaleAnswer, NoConflict, SomeConflict,
       CheckNeedsPassword, CheckFails, Extract, Started, Refused, DeleteFile, Handled, history
  <2>2. Deliver \/ (\E a \in unasked : HandleInner(a)) => crossed' = crossed
    BY DEF Deliver, HandleInner, Flush, Keep, Tell, Build, history
  <2>3. Script => crossed' = crossed
    BY DEF Script, Mount, Initialized, React, FinishUp, Destroyed, JobEnds, JobPanics, Unmatched,
       OnJobErrored, OnJobFinished, history
  <2>4. User => crossed' = crossed \/ crossed' = (crossed \/ w.restarting)
    BY DEF User, Confirm, ConfirmConflictChoice, CancelConflict, SubmitPassword, CancelPassword,
       CancelJob, Close, history
  <2> QED
    BY <2>1, <2>2, <2>3, <2>4 DEF ExtractNext, Answer
<1>3. ~crossed' => Safe'
  BY <1>2, SafeNext DEF ExtractInv
<1> QED
  BY <1>1, <1>3 DEF ExtractInv

LEMMA ExtractInvSame ==
  ASSUME ExtractInv, UNCHANGED extractVars PROVE ExtractInv'
BY DEF ExtractInv, extractVars, shellVars, jobVars, history, Gathering, Kept, Noted, Core, WinTyped, Issued,
   EndsOnce, Places, Takes, Safe, Exclusive, Reasons, Checked, Followed, SoFar, OfJob, Target

LEMMA ExtractInvAlways == ExtractSpec => []ExtractInv
<1>1. ExtractInv /\ [ExtractNext]_extractVars => ExtractInv'
  BY ExtractInvNext, ExtractInvSame
<1> QED
  BY <1>1, ExtractInvHolds, PTL DEF ExtractSpec

LEMMA ExtractTyped == ExtractInv => ExtractTypeOK
<1> SUFFICES ASSUME ExtractInv PROVE ExtractTypeOK
  OBVIOUS
<1> DEFINE size == Cardinality(Chosen)
<1>1. size \in Nat /\ size >= 1
  <2>1. size \in Nat /\ size # 0
    BY FS_CardinalityType, FS_EmptySet, ShellAssumption
  <2> QED
    BY <2>1
<1>2. /\ unasked \subseteq Chosen /\ agg.paths \in Seq(Chosen \ unasked) /\ IsInjective(agg.paths)
      /\ agg.gen \in Nat /\ agg.gen + Cardinality(unasked) = size /\ timers \subseteq 1..agg.gen
      /\ openers \subseteq [req : Asked \ {<<>>}, kept : BOOLEAN]
  BY DEF ExtractInv, Gathering
<1>3. Cardinality(unasked) \in Nat
  BY <1>2, FS_Subset, FS_CardinalityType, ShellAssumption
<1>4. w \in WinSet /\ w.req \in Asked /\ w.idx \in Nat \ {0} /\ w.jobId \in Nat /\ jobs \in Nat
      /\ calls \subseteq CallSet /\ (job # Idle => job \in JobSet) /\ events \subseteq EventSet
  BY DEF ExtractInv, Core, WinTyped, WinSet
<1>5. w.req \in Requests /\ Len(w.req) \in Nat /\ Len(w.req) <= size /\ w.req \in Seq(Chosen)
  BY <1>4, AskedFacts
<1> HIDE DEF size
<1>6. agg.paths \in Requests /\ agg.gen \in 0..size
  <2>1. agg.paths \in Seq(Chosen)
    BY <1>2
  <2>2. agg.paths \in Requests
    BY <1>2, <2>1, ShortEnough
  <2>3. agg.gen \in 0..size
    BY <1>1, <1>2, <1>3
  <2> QED
    BY <2>2, <2>3
<1>7. timers \subseteq 1..size
  BY <1>1, <1>2, <1>6
<1>8. openers \subseteq [req : Requests, kept : BOOLEAN] /\ slot \in Requests
  BY <1>2 DEF Asked, ExtractInv, Kept
<1>9. w.idx \in 1..size /\ (w.req # <<>> => w.idx \in DOMAIN w.req)
  <2>1. IF w.req = <<>> THEN w.idx = 1 ELSE w.idx <= Len(w.req)
    BY DEF ExtractInv, Core, Places
  <2>2. CASE w.req = <<>>
    BY <1>1, <2>1, <2>2
  <2>3. CASE w.req # <<>>
    <3>1. w.idx \in 1..Len(w.req) /\ w.idx \in 1..size
      BY <1>1, <1>4, <1>5, <2>1, <2>3
    <3> QED
      BY <1>5, <3>1
  <2> QED
    BY <2>2, <2>3
<1>10. /\ w.mode \in {"form", "auto", "batch"} /\ w.phase \in {"form", "running", "done"}
       /\ w.result \in {"none"} \cup Ends
  BY <1>4 DEF WinSet
<1>11. w.jobId \in 0..jobs
  BY <1>4 DEF ExtractInv, Core, Issued
<1>12. Cardinality({c \in calls : c.op \in {"take", "load"}}) <= 1
  <2> DEFINE S == {c \in calls : c.op \in {"take", "load"}}
  <2>1. \A c, d \in S : c = d
    BY DEF ExtractInv, Core, Places, Takes
  <2>2. CASE S = {}
    BY <2>2, FS_EmptySet
  <2>3. CASE S # {}
    <3>1. PICK c \in S : S = {c}
      BY <2>1, <2>3
    <3>2. Cardinality({c}) = 1
      BY FS_Singleton
    <3> HIDE DEF S
    <3> QED
      BY <3>1, <3>2 DEF S
  <2> QED
    BY <2>2, <2>3
<1>13. job # Idle => job.id \in 1..jobs /\ job.arc \in Chosen
  BY <1>4 DEF ExtractInv, Core, Issued, JobSet
<1>14. events \subseteq [id : 1..jobs, end : Ends]
  BY <1>4 DEF ExtractInv, Core, Issued, EventSet
<1>15. /\ win \in {"none", "mounting", "open", "dying"}
       /\ good \subseteq Chosen /\ deleted \subseteq Chosen /\ ticked \subseteq Chosen
       /\ overwritten \subseteq Chosen /\ silent \cup dropped \subseteq 1..jobs
  BY DEF ExtractInv, Kept, Noted
<1> QED
  BY <1>2, <1>5, <1>6, <1>7, <1>8, <1>9, <1>10, <1>11, <1>12, <1>13, <1>14, <1>15, Zenon
  DEF ExtractTypeOK, size

\* However the calls of the shell, the timers, the user and the answers are
\* interleaved: no path that the explorer handed over is left in the buffer
\* without a timer (generations of Aggregator, cli.rs), no request mixes verbs
\* or repeats a path, and a job that can write was checked for conflicts with
\* the archive it extracts (confirmThenExtract and the generation in
\* ExtractWindow.svelte), unless [OK] was pressed while a new request was taken.
THEOREM ShellReachesJob == ExtractSpec => []FromShellToJob
<1>1. ExtractInv => FromShellToJob
  <2> SUFFICES ASSUME ExtractInv PROVE FromShellToJob
    OBVIOUS
  <2>1. ExtractTypeOK
    BY ExtractTyped
  <2>2. Gathered
    BY DEF ExtractInv, Gathering, Gathered, Asked
  <2>3. CheckedFirst
    BY DEF ExtractInv, Safe, Checked, CheckedFirst
  <2> QED
    BY <2>1, <2>2, <2>3 DEF FromShellToJob
<1> QED
  BY <1>1, ExtractInvAlways, PTL

\* [ok] is shown for a request, also for a batch, only if each of its archives
\* was extracted completely, and only such an archive is deleted (finishJob in
\* ExtractWindow.svelte), whatever came too early, too late or was refused.
THEOREM EndIsHonest == ExtractSpec => []HonestEnd
<1>1. ExtractInv => HonestEnd
  BY DEF ExtractInv, Safe, SoFar, HonestEnd
<1> QED
  BY <1>1, ExtractInvAlways, PTL

=============================================================================
