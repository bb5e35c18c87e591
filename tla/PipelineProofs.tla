--------------------------- MODULE PipelineProofs ---------------------------
(***************************************************************************)
(* Proofs about the pipeline, for any number of items and workers and any  *)
(* sizes: the budget is exact and holds, each entry is made once, and the  *)
(* archive is made as ArchiveCreation promises.                            *)
(***************************************************************************)
EXTENDS Pipeline, FiniteSetTheorems, SequenceTheorems, WellFoundedInduction, TLAPS

\* The workers that have an item in hand.
InHand == {w \in Workers : worker[w] \in {"claimed", "working"}}

\* Pipeline.alive is the number of workers that have not left.
AliveCounted == alive = Cardinality({w \in Workers : worker[w] # "left"})

\* How far the main thread is says what item it is at and what is settled.
MainWhere ==
    /\ main \in {"take", "mourn", "repay", "copy"} => item \in Eligible
    /\ main = "stream" => item \in Items
    /\ main \notin {"stopping", "joining", "end"} => outcome = "none"
    /\ stop => main \in {"joining", "end"}
    /\ main \in {"stopping", "joining"} /\ outcome = "none" => item = NItems + 1

\* An item is unclaimed, in the hand of one worker, finished or lost.
Apart ==
    /\ \A w \in InHand :
          /\ job[w] \in Eligible /\ job[w] \notin unclaimed /\ job[w] \notin lost
          /\ ready[job[w]] = "none"
    /\ \A v, w \in InHand : job[v] = job[w] => v = w
    /\ \A i \in Items : ready[i] # "none" =>
          i \in Eligible /\ i \notin unclaimed /\ i \notin lost
    /\ \A i \in lost : i \notin unclaimed

\* The items that the main thread has passed, or has the entry of.
Passed(i) == i < item \/ (i = item /\ main \in {"repay", "copy", "stream"})

\* Nobody has anything to do with them any more.
PassedIsGone ==
    \A i \in Eligible : Passed(i) =>
        /\ i \notin unclaimed /\ i \notin lost /\ ready[i] = "none"
        /\ \A w \in InHand : job[w] # i

\* The items passed are in the archive, in their order.
InOrder ==
    /\ Len(archive) = item - 1
    /\ \A k \in 1 .. Len(archive) : archive[k] = k

IInv ==
    /\ TypeOK
    /\ AliveCounted
    /\ MainWhere
    /\ Apart
    /\ PassedIsGone
    /\ InOrder
    /\ BudgetExact
    /\ BudgetHolds

-----------------------------------------------------------------------------
(***************************************************************************)
(* What a sum over a set is.  MapThenSumSet is a recursive function; that  *)
(* it adds up is shown by counting: the sum of the sizes is the number of  *)
(* bytes, told apart by their item and their place in it.                  *)
(***************************************************************************)
Bytes(S)  == {p \in Items \X Nat : p[1] \in S /\ p[2] \in 1 .. Size[p[1]]}
Weight(S) == Cardinality(Bytes(S))
Sum(S)    == MapThenSumSet(LAMBDA i : Size[i], S)

\* Induction over finite sets, for a set of sets instead of a predicate.
LEMMA FiniteInduction ==
  ASSUME NEW S, IsFiniteSet(S), NEW Q, {} \in Q,
         \A T \in SUBSET S : T # {} /\ (\A x \in T : T \ {x} \in Q) => T \in Q
  PROVE  \A T \in SUBSET S : T \in Q
<1> DEFINE Bad == {T \in SUBSET S : T \notin Q}
<1> SUFFICES ASSUME Bad # {} PROVE FALSE
  OBVIOUS
<1>1. IsWellFoundedOn(StrictSubsetOrdering(S), SUBSET S)
  BY FS_StrictSubsetOrderingWellFounded, FS_FiniteSubsetsOfFinite
<1>2. \E T \in Bad : \A U \in Bad : ~(<<U, T>> \in StrictSubsetOrdering(S))
  <2>1. Bad \subseteq SUBSET S
    OBVIOUS
  <2> HIDE DEF Bad
  <2> QED BY <1>1, <2>1, WFMin
<1>3. PICK T \in Bad : \A U \in Bad : ~(<<U, T>> \in StrictSubsetOrdering(S))
  BY <1>2
<1>4. ASSUME NEW x \in T PROVE T \ {x} \in Q
  <2>1. <<T \ {x}, T>> \in StrictSubsetOrdering(S)
    BY <1>4 DEF StrictSubsetOrdering
  <2> QED BY <1>3, <2>1
<1> QED BY <1>3, <1>4

LEMMA ItemsFinite == Items \subseteq Nat /\ IsFiniteSet(Items)
BY PipelineAssumption, FS_Interval DEF Items

\* One item more adds its size.
LEMMA WeightAdds ==
  ASSUME NEW S \in SUBSET Items, NEW i \in Items \ S, IsFiniteSet(Bytes(S))
  PROVE  IsFiniteSet(Bytes(S \cup {i})) /\ Weight(S \cup {i}) = Weight(S) + Size[i]
<1> DEFINE B == {i} \X (1 .. Size[i])
<1>1. Size[i] \in Nat
  BY PipelineAssumption
<1>2. IsFiniteSet(B) /\ Cardinality(B) = Size[i]
  <2>1. IsFiniteSet({i}) /\ Cardinality({i}) = 1
    BY FS_Singleton
  <2>2. IsFiniteSet(1 .. Size[i]) /\ Cardinality(1 .. Size[i]) = Size[i]
    BY <1>1, FS_Interval
  <2>3. IsFiniteSet(B) /\ Cardinality(B) = 1 * Size[i]
    BY <2>1, <2>2, FS_Product
  <2> QED BY <1>1, <2>3
<1>3. Bytes(S \cup {i}) = Bytes(S) \cup B /\ Bytes(S) \cap B = {}
  BY <1>1 DEF Bytes
<1> HIDE DEF B
<1>4. Cardinality(Bytes(S) \cap B) = 0
  BY <1>3, FS_EmptySet
<1>5. Cardinality(Bytes(S)) \in Nat
  BY FS_CardinalityType
<1>6. /\ IsFiniteSet(Bytes(S) \cup B)
      /\ Cardinality(Bytes(S) \cup B) = Cardinality(Bytes(S)) + Cardinality(B) - Cardinality(Bytes(S) \cap B)
  BY <1>2, FS_Union
<1>7. Cardinality(Bytes(S) \cup B) = Cardinality(Bytes(S)) + Size[i]
  BY <1>1, <1>2, <1>4, <1>5, <1>6
<1> QED BY <1>3, <1>6, <1>7 DEF Weight

LEMMA WeightEmpty == IsFiniteSet(Bytes({})) /\ Weight({}) = 0
<1>1. Bytes({}) = {}
  BY DEF Bytes
<1> QED BY <1>1, FS_EmptySet DEF Weight

LEMMA BytesFinite == \A S \in SUBSET Items : IsFiniteSet(Bytes(S)) /\ Weight(S) \in Nat
<1> DEFINE Q == {S \in SUBSET Items : IsFiniteSet(Bytes(S))}
<1>1. {} \in Q
  BY WeightEmpty
<1>2. ASSUME NEW T \in SUBSET Items, T # {}, \A x \in T : T \ {x} \in Q
      PROVE  T \in Q
  <2>1. PICK x \in T : TRUE
    BY <1>2
  <2>2. T = (T \ {x}) \cup {x}
    OBVIOUS
  <2>3. IsFiniteSet(Bytes((T \ {x}) \cup {x}))
    BY <1>2, WeightAdds
  <2> QED BY <2>2, <2>3
<1>3. \A T \in SUBSET Items : T \in Q
  <2> HIDE DEF Q
  <2> QED BY <1>1, <1>2, FiniteInduction, ItemsFinite
<1> QED BY <1>3, FS_CardinalityType DEF Weight

\* The recursive sum is the number of bytes.
LEMMA SumIsWeight == ASSUME NEW S \in SUBSET Items PROVE Sum(S) = Weight(S)
<1> DEFINE pick(s) == CHOOSE x \in s : TRUE
           Rec(f) == f = [s \in SUBSET S |->
                             IF s = {} THEN 0 ELSE Size[pick(s)] + f[s \ {pick(s)}]]
           g == [s \in SUBSET S |-> Weight(s)]
           h == CHOOSE f : Rec(f)
           Q == {s \in SUBSET S : h[s] = Weight(s)}
<1>1. \A s \in SUBSET S : s # {} => pick(s) \in s
  OBVIOUS
<1> HIDE DEF pick
<1>2. \A s \in SUBSET S : s # {} => Weight(s) = Size[pick(s)] + Weight(s \ {pick(s)})
  <2> SUFFICES ASSUME NEW s \in SUBSET S, s # {}
               PROVE  Weight(s) = Size[pick(s)] + Weight(s \ {pick(s)})
    OBVIOUS
  <2>1. pick(s) \in s /\ s = (s \ {pick(s)}) \cup {pick(s)}
    BY <1>1
  <2>2. Weight((s \ {pick(s)}) \cup {pick(s)}) = Weight(s \ {pick(s)}) + Size[pick(s)]
    BY <2>1, WeightAdds, BytesFinite
  <2>3. Size[pick(s)] \in Nat /\ Weight(s \ {pick(s)}) \in Nat
    BY <2>1, PipelineAssumption, BytesFinite
  <2>4. Weight(s) = Weight((s \ {pick(s)}) \cup {pick(s)})
    BY <2>1
  <2> QED BY <2>2, <2>3, <2>4
<1>3. Rec(g)
  BY <1>2, WeightEmpty
<1>4. Rec(h)
  <2> HIDE DEF g, Rec
  <2> QED BY <1>3
<1>5. {} \in Q
  BY <1>4, WeightEmpty
<1>6. ASSUME NEW T \in SUBSET S, T # {}, \A x \in T : T \ {x} \in Q
      PROVE  T \in Q
  <2>1. pick(T) \in T
    BY <1>1, <1>6
  <2>2. h[T] = Size[pick(T)] + h[T \ {pick(T)}]
    <3> HIDE DEF h
    <3> QED BY <1>4, <1>6
  <2>3. h[T \ {pick(T)}] = Weight(T \ {pick(T)})
    BY <1>6, <2>1
  <2> QED BY <1>2, <1>6, <2>2, <2>3
<1>7. IsFiniteSet(S)
  BY ItemsFinite, FS_Subset
<1>8. S \in Q
  <2> HIDE DEF Q
  <2> QED BY <1>5, <1>6, <1>7, FiniteInduction
<1>9. Sum(S) = h[S]
  BY DEF Sum, MapThenSumSet, MapThenFoldSet, pick
<1> QED BY <1>8, <1>9

\* The budget is exact when it is the number of bytes of what is charged.
LEMMA ExactIsWeight ==
  ASSUME Charged \subseteq Items
  PROVE  BudgetExact <=> used = Weight(Charged)
<1>1. BudgetExact <=> used = Sum(Charged)
  BY DEF BudgetExact, Sum
<1>2. Sum(Charged) = Weight(Charged)
  BY SumIsWeight
<1> QED BY <1>1, <1>2

LEMMA ExactIsWeightNext ==
  ASSUME Charged' \subseteq Items
  PROVE  BudgetExact' <=> used' = Weight(Charged')
<1>1. BudgetExact' <=> used' = Sum(Charged')
  BY DEF BudgetExact, Sum, MapThenSumSet, MapThenFoldSet
<1>2. Sum(Charged') = Weight(Charged')
  BY SumIsWeight
<1> QED BY <1>1, <1>2

-----------------------------------------------------------------------------
\* The items for the workers are small items.
LEMMA EligibleFacts ==
  /\ Eligible \subseteq Items
  /\ None \notin Items
  /\ \A i \in Eligible : Size[i] \in Nat /\ Size[i] <= Budget
<1>1. Eligible \subseteq Small
  BY DEF Eligible
<1>2. None \notin Items
  BY PipelineAssumption DEF Items, None
<1> QED BY <1>1, <1>2, PipelineAssumption DEF Small

\* What is charged are items for the workers.
LEMMA ChargedType == ASSUME IInv PROVE Charged \subseteq Eligible
BY DEF IInv, TypeOK, Apart, MainWhere, InHand, Charged

\* The budget stays exact when nothing is charged or paid, when one item is
\* charged, and when one is paid for.
LEMMA ExactKept ==
  ASSUME IInv, UNCHANGED <<used, Charged>>
  PROVE  BudgetExact' /\ BudgetHolds'
BY ChargedType, EligibleFacts, ExactIsWeight, ExactIsWeightNext DEF IInv, BudgetHolds

LEMMA ExactCharged ==
  ASSUME IInv, NEW i \in Eligible, i \notin Charged,
         Charged' = Charged \cup {i}, used' = used + Size[i]
  PROVE  BudgetExact'
<1>1. Charged \subseteq Items /\ Charged' \subseteq Items /\ i \in Items
  BY ChargedType, EligibleFacts
<1>2. Weight(Charged \cup {i}) = Weight(Charged) + Size[i]
  BY <1>1, WeightAdds, BytesFinite
<1>3. used = Weight(Charged)
  BY <1>1, ExactIsWeight DEF IInv
<1>4. used' = Weight(Charged')
  BY <1>2, <1>3
<1> QED BY <1>1, <1>4, ExactIsWeightNext

LEMMA ExactPaid ==
  ASSUME IInv, NEW i \in Charged, Charged' = Charged \ {i},
         used' = IF used < Size[i] THEN 0 ELSE used - Size[i]
  PROVE  BudgetExact' /\ BudgetHolds' /\ used' \in Nat
<1>1. Charged \subseteq Items /\ Charged' \subseteq Items /\ i \in Items /\ Size[i] \in Nat
  BY ChargedType, EligibleFacts
<1>2. Weight((Charged \ {i}) \cup {i}) = Weight(Charged \ {i}) + Size[i]
  BY <1>1, WeightAdds, BytesFinite
<1>3. (Charged \ {i}) \cup {i} = Charged
  OBVIOUS
<1>4. used = Weight(Charged)
  BY <1>1, ExactIsWeight DEF IInv
<1>5. used = Weight(Charged') + Size[i]
  BY <1>2, <1>3, <1>4
<1>6. Weight(Charged') \in Nat
  BY <1>1, BytesFinite
<1>7. used' = Weight(Charged') /\ used' \in Nat /\ used' <= used
  BY <1>1, <1>5, <1>6
<1>8. used <= Budget /\ used \in Nat /\ Budget \in Nat
  BY PipelineAssumption DEF IInv, TypeOK, BudgetHolds
<1> QED BY <1>1, <1>7, <1>8, ExactIsWeightNext DEF BudgetHolds

\* Who leaves is counted down.
LEMMA LeaveCounted ==
  ASSUME IInv, NEW w \in Workers, worker[w] # "left", NEW items, LeaveWith(w, items)
  PROVE  AliveCounted' /\ alive' \in Nat
<1> DEFINE L == {v \in Workers : worker[v] # "left"}
<1>1. worker' = [worker EXCEPT ![w] = "left"] /\ alive' = alive - 1
  BY DEF LeaveWith
<1>2. {v \in Workers : worker'[v] # "left"} = L \ {w} /\ w \in L
  BY <1>1 DEF IInv, TypeOK
<1>3. alive = Cardinality(L)
  BY DEF IInv, AliveCounted
<1>4. IsFiniteSet(L)
  BY PipelineAssumption, FS_Subset
<1> HIDE DEF L
<1>5. IsFiniteSet(L \ {w}) /\ Cardinality(L \ {w}) = Cardinality(L) - 1
  BY <1>2, <1>4, FS_RemoveElement
<1>6. alive' = Cardinality(L \ {w}) /\ alive' \in Nat
  BY <1>1, <1>3, <1>5, FS_CardinalityType
<1> QED BY <1>2, <1>6 DEF AliveCounted

\* A step of the main thread, or of nobody, leaves the workers where they are.
LEMMA AliveKept == ASSUME IInv, UNCHANGED <<alive, worker>> PROVE AliveCounted'
BY DEF IInv, AliveCounted

-----------------------------------------------------------------------------
\* The initial state satisfies the invariant.
LEMMA InitInv == Init => IInv
<1> SUFFICES ASSUME Init PROVE IInv
  OBVIOUS
<1> USE DEF Init
<1>1. alive \in Nat /\ AliveCounted
  <2>1. CASE Eligible = {}
    <3>1. {w \in Workers : worker[w] # "left"} = {}
      BY <2>1
    <3> QED BY <2>1, <3>1, FS_EmptySet DEF AliveCounted
  <2>2. CASE Eligible # {}
    <3>1. {w \in Workers : worker[w] # "left"} = Workers
      BY <2>2
    <3> QED BY <2>2, <3>1, PipelineAssumption, FS_CardinalityType DEF AliveCounted
  <2> QED BY <2>1, <2>2
<1>2. TypeOK
  <2>1. worker \in [Workers -> WorkerSteps] /\ main \in MainSteps
    BY DEF WorkerSteps, MainSteps
  <2>2. job \in [Workers -> Eligible \cup {None}] /\ ready \in [Items -> Pieces] /\ piece \in Pieces
    BY DEF Pieces
  <2>3. item \in 1 .. NItems + 1 /\ archive \in Seq(Items) /\ used \in Nat
    BY PipelineAssumption, EmptySeq
  <2> QED BY <1>1, <2>1, <2>2, <2>3 DEF TypeOK
<1>3. InHand = {} /\ Charged = {}
  BY DEF InHand, Charged
<1>4. MainWhere /\ Apart /\ InOrder
  BY <1>3, EmptySeq DEF MainWhere, Apart, InOrder
<1>5. PassedIsGone
  <2>1. \A i \in Items : ~Passed(i)
    BY PipelineAssumption DEF Passed, Items
  <2> QED BY <2>1, EligibleFacts DEF PassedIsGone
<1>6. BudgetExact /\ BudgetHolds
  BY <1>3, ExactIsWeight, WeightEmpty, PipelineAssumption DEF BudgetHolds
<1> QED BY <1>1, <1>2, <1>4, <1>5, <1>6 DEF IInv

\* The next job goes into the hand of one worker, or the worker leaves.
LEMMA ClaimInv == ASSUME IInv, NEW w \in Workers, Claim(w) PROVE IInv'
<1> USE DEF IInv
<1>1. /\ UNCHANGED <<used, ready, stop, cancel, main, item, piece, archive, outcome, lost>>
      /\ worker[w] = "idle"
  BY DEF Claim, LeaveWith, mainVars, TypeOK
<1>2. MainWhere' /\ InOrder'
  BY <1>1 DEF MainWhere, InOrder
<1>3. CASE LeaveWith(w, {}) /\ UNCHANGED <<unclaimed, job>>
  <2>1. worker' = [worker EXCEPT ![w] = "left"]
    BY <1>3 DEF LeaveWith
  <2>2. AliveCounted' /\ alive' \in Nat
    BY <1>1, <1>3, LeaveCounted
  <2>3. TypeOK'
    BY <1>1, <1>3, <2>1, <2>2 DEF TypeOK, WorkerSteps
  <2>4. InHand' = InHand /\ Charged' = Charged
    BY <1>1, <1>3, <2>1 DEF InHand, Charged, TypeOK
  <2>5. Apart' /\ PassedIsGone'
    BY <1>1, <1>3, <2>4 DEF Apart, PassedIsGone, Passed
  <2>6. BudgetExact' /\ BudgetHolds'
    BY <1>1, <2>4, ExactKept
  <2> QED BY <1>2, <2>2, <2>3, <2>5, <2>6
<1>4. CASE \E i \in unclaimed :
              /\ unclaimed' = unclaimed \ {i}
              /\ job' = [job EXCEPT ![w] = i]
              /\ worker' = [worker EXCEPT ![w] = "claimed"]
              /\ UNCHANGED alive
  <2>1. PICK i \in unclaimed :
              /\ unclaimed' = unclaimed \ {i}
              /\ job' = [job EXCEPT ![w] = i]
              /\ worker' = [worker EXCEPT ![w] = "claimed"]
              /\ UNCHANGED alive
    BY <1>4
  <2>2. i \in Eligible /\ i \in Items
    BY EligibleFacts DEF TypeOK
  <2>3. TypeOK'
    BY <1>1, <2>1, <2>2 DEF TypeOK, WorkerSteps
  <2>4. AliveCounted'
    <3>1. {v \in Workers : worker'[v] # "left"} = {v \in Workers : worker[v] # "left"}
      BY <1>1, <2>1 DEF TypeOK
    <3> QED BY <2>1, <3>1 DEF AliveCounted
  <2>5. /\ w \notin InHand /\ InHand' = InHand \cup {w}
        /\ job'[w] = i
        /\ \A v \in InHand : v # w /\ job'[v] = job[v]
    BY <1>1, <2>1 DEF InHand, TypeOK
  <2>6. Charged' = Charged
    BY <1>1, <2>1 DEF Charged, TypeOK
  <2>7. i \notin lost /\ ready[i] = "none" /\ \A v \in InHand : job[v] # i
    BY <2>2 DEF Apart
  <2>8. Apart'
    BY <1>1, <2>1, <2>2, <2>5, <2>7 DEF Apart
  <2>9. PassedIsGone'
    BY <1>1, <2>1, <2>2, <2>5 DEF PassedIsGone, Passed
  <2>10. BudgetExact' /\ BudgetHolds'
    BY <1>1, <2>6, ExactKept
  <2> QED BY <1>2, <2>3, <2>4, <2>8, <2>9, <2>10
<1> QED BY <1>3, <1>4 DEF Claim

\* The bytes of a claimed item are charged when they fit.
LEMMA AcquireInv == ASSUME IInv, NEW w \in Workers, Acquire(w) PROVE IInv'
<1> USE DEF IInv
<1>1. /\ UNCHANGED <<unclaimed, job, ready, stop, cancel>>
      /\ UNCHANGED <<main, item, piece, archive, outcome, lost>>
      /\ worker[w] = "claimed" /\ w \in InHand
  BY DEF Acquire, LeaveWith, mainVars, TypeOK, InHand
<1>2. MainWhere' /\ InOrder'
  BY <1>1 DEF MainWhere, InOrder
<1>3. CASE LeaveWith(w, {}) /\ UNCHANGED used
  <2>1. worker' = [worker EXCEPT ![w] = "left"]
    BY <1>3 DEF LeaveWith
  <2>2. AliveCounted' /\ alive' \in Nat
    BY <1>1, <1>3, LeaveCounted
  <2>3. TypeOK'
    BY <1>1, <1>3, <2>1, <2>2 DEF TypeOK, WorkerSteps
  <2>4. InHand' = InHand \ {w} /\ Charged' = Charged
    BY <1>1, <1>3, <2>1 DEF InHand, Charged, TypeOK
  <2>5. Apart' /\ PassedIsGone'
    BY <1>1, <1>3, <2>4 DEF Apart, PassedIsGone, Passed
  <2>6. BudgetExact' /\ BudgetHolds'
    BY <1>1, <1>3, <2>4, ExactKept
  <2> QED BY <1>2, <2>2, <2>3, <2>5, <2>6
<1>4. CASE /\ Fits(Size[job[w]])
           /\ used' = used + Size[job[w]]
           /\ worker' = [worker EXCEPT ![w] = "working"]
           /\ UNCHANGED alive
  <2> DEFINE n == Size[job[w]]
  <2>1. job[w] \in Eligible /\ n \in Nat /\ n <= Budget
    BY <1>1, EligibleFacts DEF Apart
  <2>2. used \in Nat /\ Budget \in Nat /\ used' \in Nat
    BY <1>4, <2>1, PipelineAssumption DEF TypeOK
  <2>3. TypeOK'
    BY <1>1, <1>4, <2>2 DEF TypeOK, WorkerSteps
  <2>4. AliveCounted'
    <3>1. {v \in Workers : worker'[v] # "left"} = {v \in Workers : worker[v] # "left"}
      BY <1>1, <1>4 DEF TypeOK
    <3> QED BY <1>4, <3>1 DEF AliveCounted
  <2>5. InHand' = InHand
    BY <1>1, <1>4 DEF InHand, TypeOK
  <2>6. Apart' /\ PassedIsGone'
    BY <1>1, <2>5 DEF Apart, PassedIsGone, Passed
  <2>7. job[w] \notin Charged
    <3>1. \A v \in Workers : worker[v] = "working" => v \in InHand /\ v # w
      BY <1>1 DEF InHand
    <3>2. \A v \in Workers : worker[v] = "working" => job[v] # job[w]
      BY <1>1, <3>1 DEF Apart
    <3>3. ready[job[w]] = "none" /\ job[w] \notin lost
      BY <1>1 DEF Apart
    <3>4. main = "repay" => job[w] # item
      BY <1>1, <2>1 DEF PassedIsGone, Passed
    <3> QED BY <3>2, <3>3, <3>4 DEF Charged
  <2>8. Charged' = Charged \cup {job[w]}
    <3>1. {v \in Workers : worker'[v] = "working"} = {v \in Workers : worker[v] = "working"} \cup {w}
      BY <1>1, <1>4 DEF TypeOK
    <3> QED BY <1>1, <3>1 DEF Charged
  <2>9. BudgetExact'
    BY <1>4, <2>1, <2>7, <2>8, ExactCharged
  <2>10. BudgetHolds'
    BY <1>4, <2>1, <2>2 DEF BudgetHolds, Fits
  <2> QED BY <1>2, <2>3, <2>4, <2>6, <2>9, <2>10
<1> QED BY <1>3, <1>4 DEF Acquire

\* The finished entry goes into the map: what is charged stays charged.
LEMMA DeliverInv == ASSUME IInv, NEW w \in Workers, Deliver(w) PROVE IInv'
<1> USE DEF IInv
<1>1. /\ UNCHANGED <<unclaimed, used, alive, job, stop, cancel, lost>>
      /\ UNCHANGED <<main, item, piece, archive, outcome>>
      /\ worker[w] = "working" /\ w \in InHand
      /\ worker' = [worker EXCEPT ![w] = "idle"]
  BY DEF Deliver, mainVars, InHand
<1>2. job[w] \in Eligible /\ job[w] \in Items
  BY <1>1, EligibleFacts DEF Apart
<1>3. PICK p \in {"zip", "toobig", "error"} : ready' = [ready EXCEPT ![job[w]] = p]
  BY DEF Deliver
<1>4. MainWhere' /\ InOrder'
  BY <1>1 DEF MainWhere, InOrder
<1>5. TypeOK'
  BY <1>1, <1>2, <1>3 DEF TypeOK, WorkerSteps, Pieces
<1>6. AliveCounted'
  <2>1. {v \in Workers : worker'[v] # "left"} = {v \in Workers : worker[v] # "left"}
    BY <1>1 DEF TypeOK
  <2> QED BY <1>1, <2>1 DEF AliveCounted
<1>7. InHand' = InHand \ {w}
  BY <1>1 DEF InHand, TypeOK
<1>8. /\ \A i \in Items : ready'[i] # "none" <=> ready[i] # "none" \/ i = job[w]
      /\ \A v \in InHand' : job[v] # job[w]
  BY <1>1, <1>2, <1>3, <1>7 DEF TypeOK, Apart
<1>9. Apart'
  BY <1>1, <1>2, <1>7, <1>8, EligibleFacts DEF Apart
<1>10. PassedIsGone'
  <2>1. ~Passed(job[w])
    BY <1>1, <1>2 DEF PassedIsGone
  <2> QED BY <1>1, <1>7, <1>8, <2>1, EligibleFacts DEF PassedIsGone, Passed
<1>11. Charged' = Charged
  <2>1. {v \in Workers : worker[v] = "working"} = {v \in Workers : worker'[v] = "working"} \cup {w}
    BY <1>1 DEF TypeOK
  <2>2. {i \in Items : ready'[i] # "none"} = {i \in Items : ready[i] # "none"} \cup {job[w]}
    BY <1>2, <1>8
  <2> QED BY <1>1, <2>1, <2>2 DEF Charged
<1> QED BY <1>1, <1>4, <1>5, <1>6, <1>9, <1>10, <1>11, ExactKept

\* The item of a worker that leaves in the middle stays charged: it is lost.
LEMMA LoseInv ==
  ASSUME IInv, NEW w \in Workers, Abandon(w) \/ Panic(w)
  PROVE  IInv'
<1> USE DEF IInv
<1>1. /\ UNCHANGED <<unclaimed, used, job, ready, stop, cancel>>
      /\ UNCHANGED <<main, item, piece, archive, outcome>>
      /\ worker[w] = "working" /\ w \in InHand
      /\ LeaveWith(w, {job[w]})
  BY DEF Abandon, Panic, mainVars, InHand
<1>2. /\ worker' = [worker EXCEPT ![w] = "left"]
      /\ lost' = lost \cup {job[w]}
  BY <1>1 DEF LeaveWith
<1>3. job[w] \in Eligible
  BY <1>1 DEF Apart
<1>4. MainWhere' /\ InOrder'
  BY <1>1 DEF MainWhere, InOrder
<1>5. AliveCounted' /\ alive' \in Nat
  BY <1>1, LeaveCounted
<1>6. TypeOK'
  BY <1>1, <1>2, <1>3, <1>5 DEF TypeOK, WorkerSteps
<1>7. InHand' = InHand \ {w}
  BY <1>1, <1>2 DEF InHand, TypeOK
<1>8. Apart'
  BY <1>1, <1>2, <1>3, <1>7 DEF Apart
<1>9. PassedIsGone'
  BY <1>1, <1>2, <1>3, <1>7 DEF PassedIsGone, Passed
<1>10. Charged' = Charged
  <2>1. {v \in Workers : worker[v] = "working"} = {v \in Workers : worker'[v] = "working"} \cup {w}
    BY <1>1, <1>2 DEF TypeOK
  <2> QED BY <1>1, <1>2, <2>1 DEF Charged
<1> QED BY <1>1, <1>4, <1>5, <1>6, <1>8, <1>9, <1>10, ExactKept

-----------------------------------------------------------------------------
\* The steps of the main thread that touch neither the entries nor the archive.
LEMMA MainInv ==
  ASSUME IInv, Item \/ (Take /\ UNCHANGED ready) \/ Mourn \/ Stop \/ Join
  PROVE  IInv'
<1> USE DEF IInv
<1>0. Take /\ UNCHANGED ready => ready[item] = "none"
  BY EligibleFacts DEF Take, TypeOK, MainWhere
<1>1. /\ UNCHANGED <<unclaimed, alive, worker, job, lost, used, ready, cancel>>
      /\ UNCHANGED <<item, piece, archive>>
      /\ main \notin {"repay", "copy", "stream"} /\ main' \notin {"repay", "copy"}
      /\ main' = "stream" => main = "item" /\ item \notin Eligible
  BY <1>0 DEF Item, Take, Mourn, Stop, Join, Bail, workVars, TypeOK, MainSteps
<1>2. stop' \in BOOLEAN /\ main' \in MainSteps
      /\ outcome' \in {"none", "ok", "canceled", "failed", "died"}
  BY DEF Item, Take, Mourn, Stop, Join, Bail, TypeOK, MainSteps
<1>3. TypeOK'
  BY <1>1, <1>2 DEF TypeOK
<1>4. MainWhere'
  <2>1. NItems \in Nat /\ item \in 1 .. NItems + 1
    BY PipelineAssumption DEF TypeOK
  <2> QED BY <1>1, <2>1 DEF MainWhere, Item, Take, Mourn, Stop, Join, Bail, TypeOK, Items
<1>5. AliveCounted' /\ InOrder' /\ Apart'
  BY <1>1, AliveKept DEF InOrder, Apart, InHand
<1>6. PassedIsGone'
  BY <1>1 DEF PassedIsGone, Passed, InHand
<1>7. Charged' = Charged
  BY <1>1 DEF Charged
<1> QED BY <1>1, <1>3, <1>4, <1>5, <1>6, <1>7, ExactKept

\* The main thread takes the entry: the item is still charged, and gone.
LEMMA TakeInv == ASSUME IInv, Take, ready' # ready PROVE IInv'
<1> USE DEF IInv
<1>1. /\ UNCHANGED <<unclaimed, alive, worker, job, lost, used, stop, cancel>>
      /\ UNCHANGED <<item, archive, outcome>>
      /\ main = "take" /\ main' = "repay"
      /\ ready[item] # "none" /\ piece' = ready[item]
      /\ ready' = [ready EXCEPT ![item] = "none"]
  BY DEF Take, workVars
<1>2. item \in Eligible /\ item \in Items
  BY <1>1, EligibleFacts DEF MainWhere
<1>3. TypeOK'
  BY <1>1, <1>2 DEF TypeOK, MainSteps, Pieces
<1>4. MainWhere' /\ InOrder' /\ AliveCounted'
  BY <1>1, <1>2, AliveKept DEF MainWhere, InOrder
<1>5. InHand' = InHand
  BY <1>1 DEF InHand
<1>6. \A i \in Items : ready'[i] = IF i = item THEN "none" ELSE ready[i]
  BY <1>1 DEF TypeOK
<1>7. item \notin unclaimed /\ item \notin lost /\ \A w \in InHand : job[w] # item
  BY <1>1, <1>2 DEF Apart
<1>8. Apart'
  BY <1>1, <1>5, <1>6, EligibleFacts DEF Apart
<1>9. PassedIsGone'
  BY <1>1, <1>5, <1>6, <1>7, EligibleFacts DEF PassedIsGone, Passed
<1>10. Charged' = Charged
  <2>1. {i \in Items : ready[i] # "none"} = {i \in Items : ready'[i] # "none"} \cup {item}
    BY <1>1, <1>2, <1>6
  <2> QED BY <1>1, <2>1 DEF Charged
<1> QED BY <1>1, <1>3, <1>4, <1>8, <1>9, <1>10, ExactKept

\* The item of the entry that was taken is paid for.
LEMMA RepayInv == ASSUME IInv, Repay PROVE IInv'
<1> USE DEF IInv
<1>1. /\ UNCHANGED <<unclaimed, alive, worker, job, lost, ready, stop, cancel>>
      /\ UNCHANGED <<item, piece, archive>>
      /\ main = "repay" /\ main' \in {"stopping", "copy", "stream"}
      /\ used' = IF used < Size[item] THEN 0 ELSE used - Size[item]
      /\ IF main' = "stopping" THEN outcome' = "failed" ELSE outcome' = outcome
  BY DEF Repay, Bail, workVars
<1>2. item \in Eligible /\ item \in Items
  BY <1>1, EligibleFacts DEF MainWhere
<1>3. item \in Charged
  BY <1>1 DEF Charged
<1>4. Charged' = Charged \ {item}
  <2>1. \A w \in Workers : worker[w] = "working" => job[w] # item
    BY <1>1, <1>2 DEF PassedIsGone, Passed, InHand
  <2>2. ready[item] = "none" /\ item \notin lost
    BY <1>1, <1>2 DEF PassedIsGone, Passed
  <2> QED BY <1>1, <2>1, <2>2 DEF Charged
<1>5. BudgetExact' /\ BudgetHolds' /\ used' \in Nat
  BY <1>1, <1>3, <1>4, ExactPaid
<1>6. TypeOK'
  BY <1>1, <1>5 DEF TypeOK, MainSteps
<1>7. MainWhere' /\ InOrder' /\ AliveCounted'
  BY <1>1, <1>2, AliveKept DEF MainWhere, InOrder
<1>8. Apart' /\ PassedIsGone'
  BY <1>1 DEF Apart, PassedIsGone, Passed, InHand
<1> QED BY <1>5, <1>6, <1>7, <1>8

\* The item is added to the archive, or the creation is given up.
LEMMA AddInv == ASSUME IInv, Copy \/ Stream PROVE IInv'
<1> USE DEF IInv
<1>1. /\ UNCHANGED <<unclaimed, alive, worker, job, lost, ready, stop, cancel, used>>
      /\ main \in {"copy", "stream"}
      /\ item \in Items
  BY EligibleFacts DEF Copy, Stream, workVars, MainWhere
<1>2. InHand' = InHand /\ AliveCounted'
  BY <1>1, AliveKept DEF InHand
<1>3. CASE Done
  <2>1. /\ archive' = Append(archive, item) /\ item' = item + 1
        /\ main' = "item" /\ piece' = "none" /\ UNCHANGED outcome
    BY <1>3 DEF Done
  <2>2. NItems \in Nat /\ item \in Nat /\ item >= 1 /\ item <= NItems
    BY <1>1, PipelineAssumption DEF Items
  <2>3. /\ archive' \in Seq(Items) /\ Len(archive') = Len(archive) + 1
        /\ Len(archive) = item - 1
        /\ archive'[item] = item
        /\ \A k \in 1 .. Len(archive) : archive'[k] = archive[k]
    BY <1>1, <2>1, <2>2, AppendProperties DEF TypeOK, InOrder
  <2>4. TypeOK'
    BY <1>1, <2>1, <2>2, <2>3 DEF TypeOK, MainSteps, Pieces
  <2>5. InOrder'
    BY <2>1, <2>2, <2>3 DEF InOrder
  <2>6. MainWhere'
    BY <1>1, <2>1 DEF MainWhere
  <2>7. \A i \in Items : Passed(i)' <=> Passed(i)
    BY <1>1, <2>1, <2>2 DEF Passed, Items
  <2>8. Apart' /\ PassedIsGone'
    BY <1>1, <1>2, <2>7, EligibleFacts DEF Apart, PassedIsGone
  <2>9. Charged' = Charged
    BY <1>1, <2>1 DEF Charged
  <2> QED BY <1>1, <1>2, <2>4, <2>5, <2>6, <2>8, <2>9, ExactKept
<1>4. CASE Bail("failed") \/ Bail("canceled")
  <2>1. /\ UNCHANGED <<item, piece, archive>> /\ main' = "stopping"
        /\ outcome' \in {"failed", "canceled"}
    BY <1>4 DEF Bail
  <2>2. TypeOK' /\ MainWhere' /\ InOrder'
    BY <1>1, <2>1 DEF TypeOK, MainSteps, MainWhere, InOrder
  <2>3. Apart' /\ PassedIsGone'
    BY <1>1, <1>2, <2>1 DEF Apart, PassedIsGone, Passed
  <2>4. Charged' = Charged
    BY <1>1, <2>1 DEF Charged
  <2> QED BY <1>1, <1>2, <2>2, <2>3, <2>4, ExactKept
<1> QED BY <1>3, <1>4 DEF Copy, Stream

\* The cancellation, or no step of the pipeline at all.
LEMMA CancelInv == ASSUME IInv, Cancel \/ UNCHANGED vars PROVE IInv'
<1> USE DEF IInv
<1>1. /\ UNCHANGED <<unclaimed, alive, worker, job, lost, ready, stop, used>>
      /\ UNCHANGED <<main, item, piece, archive, outcome>>
      /\ cancel' \in BOOLEAN
  BY DEF Cancel, vars, workVars, mainVars, TypeOK
<1>2. TypeOK' /\ MainWhere' /\ InOrder' /\ AliveCounted'
  BY <1>1, AliveKept DEF TypeOK, MainWhere, InOrder
<1>3. Apart' /\ PassedIsGone'
  BY <1>1 DEF Apart, PassedIsGone, Passed, InHand
<1>4. Charged' = Charged
  BY <1>1 DEF Charged
<1> QED BY <1>1, <1>2, <1>3, <1>4, ExactKept

-----------------------------------------------------------------------------
\* Every step preserves the invariant.
LEMMA NextInv == IInv /\ [Next]_vars => IInv'
<1> SUFFICES ASSUME IInv, [Next]_vars PROVE IInv'
  OBVIOUS
<1>1. ASSUME NEW w \in Workers, Work(w) \/ Panic(w) PROVE IInv'
  BY <1>1, ClaimInv, AcquireInv, DeliverInv, LoseInv DEF Work
<1>2. CASE Main \/ Mourn
  <2>1. CASE Take
    BY <2>1, TakeInv, MainInv
  <2> QED BY <1>2, <2>1, MainInv, RepayInv, AddInv DEF Main
<1>3. CASE Cancel \/ UNCHANGED vars
  BY <1>3, CancelInv
<1> QED BY <1>1, <1>2, <1>3 DEF Next

\* The inductive invariant holds in every behaviour.
THEOREM Invariance == Spec => []IInv
<1> QED BY InitInv, NextInv, PTL DEF Spec

\* Every variable has its type.
THEOREM TypeCorrect == Spec => []TypeOK
<1>1. IInv => TypeOK
  BY DEF IInv
<1> QED BY <1>1, Invariance, PTL

\* The budget is exact and holds, and each entry is made once, for an item that
\* the main thread has not passed.
THEOREM MemoryIsBounded == Spec => []MemoryBounded
<1>1. IInv => OneEntryEach
  <2> SUFFICES ASSUME IInv PROVE OneEntryEach
    OBVIOUS
  <2> USE DEF IInv
  <2>1. item \in Nat
    BY PipelineAssumption DEF TypeOK
  <2>2. \A i \in Eligible : i \in Nat /\ (i < item => Passed(i))
    BY EligibleFacts, ItemsFinite DEF Passed
  <2>3. \A v, w \in Workers :
           v # w /\ {worker[v], worker[w]} \subseteq {"claimed", "working"} => job[v] # job[w]
    BY DEF Apart, InHand
  <2>4. \A w \in Workers : worker[w] \in {"claimed", "working"} =>
           job[w] >= item /\ ready[job[w]] = "none"
    <3> SUFFICES ASSUME NEW w \in InHand PROVE job[w] >= item /\ ready[job[w]] = "none"
      BY DEF InHand
    <3>1. job[w] \in Eligible /\ ready[job[w]] = "none" /\ ~Passed(job[w])
      BY DEF Apart, PassedIsGone
    <3> QED BY <2>1, <2>2, <3>1
  <2>5. \A i \in Items : ready[i] # "none" => i >= item
    <3> SUFFICES ASSUME NEW i \in Items, ready[i] # "none" PROVE i >= item
      OBVIOUS
    <3>1. i \in Eligible /\ ~Passed(i)
      BY DEF Apart, PassedIsGone
    <3> QED BY <2>1, <2>2, <3>1
  <2> QED BY <2>3, <2>4, <2>5 DEF OneEntryEach
<1>2. IInv => MemoryBounded
  BY <1>1 DEF IInv, MemoryBounded
<1> QED BY <1>2, Invariance, PTL

-----------------------------------------------------------------------------
(***************************************************************************)
(* The pipeline makes the archive as ArchiveCreation promises.             *)
(***************************************************************************)

\* The state of ArchiveCreation in a state of the pipeline.
Result  == IF outcome = "died" THEN "failed" ELSE outcome
StateOf == <<archive, cancel, Result>>

LEMMA SameState == ASSUME UNCHANGED <<archive, cancel, outcome>> PROVE UNCHANGED StateOf
BY DEF StateOf, Result

\* An item is added by the main thread alone, and it is the next one.
LEMMA DoneMaps ==
  ASSUME IInv, main \in {"copy", "stream"}, Done, UNCHANGED cancel
  PROVE  A!Add
<1>1. item \in Items /\ outcome = "none" /\ Len(archive) = item - 1
  BY EligibleFacts DEF IInv, MainWhere, InOrder
<1>2. item = Len(archive) + 1 /\ Len(archive) < NItems
  BY <1>1, PipelineAssumption DEF Items
<1> QED BY <1>1, <1>2 DEF Done, A!Add

\* An outcome is settled once: a failure, or a cancellation that was asked for.
LEMMA BailMaps ==
  ASSUME IInv, main \notin {"stopping", "joining", "end"}, UNCHANGED cancel,
         NEW r, Bail(r), r \in {"failed", "died"} \/ (r = "canceled" /\ cancel)
  PROVE  A!Fail \/ A!GiveUp
<1>1. outcome = "none"
  BY DEF IInv, MainWhere
<1>2. CASE r \in {"failed", "died"}
  BY <1>1, <1>2 DEF Bail, A!Fail
<1>3. CASE r = "canceled" /\ cancel
  BY <1>1, <1>3 DEF Bail, A!GiveUp, IInv, TypeOK
<1> QED BY <1>2, <1>3

\* "ok" is returned only with all items in the archive.
LEMMA JoinMaps ==
  ASSUME IInv, Join
  PROVE  A!Succeed \/ A!Fail \/ UNCHANGED StateOf
<1>1. CASE outcome # "none"
  BY <1>1, SameState DEF Join
<1>2. CASE outcome = "none"
  <2>1. Len(archive) = NItems
    BY <1>2, PipelineAssumption DEF Join, IInv, MainWhere, InOrder
  <2>2. outcome' \in {"ok", "failed"} /\ UNCHANGED <<archive, cancel>>
    BY <1>2 DEF Join
  <2> QED BY <1>2, <2>1, <2>2 DEF A!Succeed, A!Fail
<1> QED BY <1>1, <1>2

\* Every step is a step of ArchiveCreation, or changes nothing of it.
LEMMA StepMaps == IInv /\ [Next]_vars => [A!CreationNext]_StateOf
<1> SUFFICES ASSUME IInv, [Next]_vars PROVE A!CreationNext \/ UNCHANGED StateOf
  OBVIOUS
<1>1. CASE \/ \E w \in Workers : Work(w) \/ Panic(w)
           \/ Stop \/ UNCHANGED vars
  BY <1>1, SameState DEF Work, Claim, Acquire, Deliver, Abandon, Panic, Stop, mainVars, vars
<1>2. CASE Item
  <2>1. CASE Bail("canceled") /\ cancel
    BY <1>2, <2>1, BailMaps DEF Item, A!CreationNext
  <2>2. CASE UNCHANGED <<archive, outcome>>
    BY <1>2, <2>2, SameState DEF Item
  <2> QED BY <1>2, <2>1, <2>2 DEF Item
<1>3. CASE Take
  <2>1. stop = FALSE
    BY <1>3 DEF Take, IInv, MainWhere, TypeOK
  <2>2. CASE Bail("canceled") /\ cancel
    BY <1>3, <2>2, BailMaps DEF Take, A!CreationNext
  <2>3. CASE UNCHANGED <<archive, outcome>>
    BY <1>3, <2>3, SameState DEF Take
  <2> QED BY <1>3, <2>1, <2>2, <2>3 DEF Take
<1>4. CASE Mourn
  <2>1. CASE Bail("died")
    BY <1>4, <2>1, BailMaps DEF Mourn, A!CreationNext
  <2>2. CASE UNCHANGED <<archive, outcome>>
    BY <1>4, <2>2, SameState DEF Mourn
  <2> QED BY <1>4, <2>1, <2>2 DEF Mourn
<1>5. CASE Repay
  <2>1. CASE Bail("failed")
    BY <1>5, <2>1, BailMaps DEF Repay, A!CreationNext
  <2>2. CASE UNCHANGED <<archive, outcome>>
    BY <1>5, <2>2, SameState DEF Repay
  <2> QED BY <1>5, <2>1, <2>2 DEF Repay
<1>6. CASE Copy \/ Stream
  <2>1. main \in {"copy", "stream"} /\ UNCHANGED cancel
    BY <1>6 DEF Copy, Stream
  <2>2. CASE Done
    BY <2>1, <2>2, DoneMaps DEF A!CreationNext
  <2>3. CASE Bail("failed") \/ (cancel /\ Bail("canceled"))
    BY <2>1, <2>3, BailMaps DEF A!CreationNext
  <2> QED BY <1>6, <2>2, <2>3 DEF Copy, Stream
<1>7. CASE Join
  BY <1>7, JoinMaps DEF A!CreationNext
<1>8. CASE Cancel
  <2>1. cancel' = TRUE /\ UNCHANGED <<archive, outcome>>
    BY <1>8 DEF Cancel, mainVars
  <2> QED BY <2>1 DEF A!CreationNext, A!Ask
<1> QED BY <1>1, <1>2, <1>3, <1>4, <1>5, <1>6, <1>7, <1>8 DEF Next, Main

\* With threads or without, the archive is made the same way: item by item in
\* the order they were collected, "ok" only with all of them, "canceled" only to
\* who asked for it.
THEOREM PipelineCreates == Spec => Creation
<1>1. Init => A!CreationInit
  BY DEF Init, A!CreationInit
<1> QED BY <1>1, StepMaps, Invariance, PTL DEF Spec, Creation, A!CreationSpec, StateOf, Result

=============================================================================
