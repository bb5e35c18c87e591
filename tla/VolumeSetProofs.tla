--------------------------- MODULE VolumeSetProofs ---------------------------
(***************************************************************************)
(* Proofs about the place an archive is written to, for any volume size,   *)
(* any number of volumes and any buffers: the volumes are cut at the right *)
(* places, the writer sees a file, and what is left in the end is right.   *)
(***************************************************************************)
EXTENDS VolumeSet, FiniteSetTheorems, SequenceTheorems, WellFoundedInduction, TLAPS

\* All volumes but the last one are full, none is longer.
Full(s) == \A i \in DOMAIN s : Len(s[i]) <= Size /\ (i < Len(s) => Len(s[i]) = Size)

\* The volumes as a split archive has them; otherwise there is one file.
Cut ==
    /\ vols \in Seq(Seq(Nat))
    /\ IF split THEN Full(vols) ELSE Len(vols) = 1

\* While the archive is written the disk is not looked at yet.
WritingWhere ==
    phase = "writing" =>
        /\ outcome = "none" /\ moved = {} /\ committed = {} /\ before = {}
        /\ tmp = DOMAIN vols /\ live = DOMAIN vols
        /\ \A n \in Names : disk[n] = Nothing

\* What a name stood for before anything was renamed.
Was(n) == IF n \in before THEN Old ELSE Nothing

\* While they are renamed the first volumes have their names, all others are
\* where they were, and no old volume will follow the last one.
MovingWhere ==
    phase = "moving" =>
        /\ outcome = "none" /\ vols # <<>> /\ ~Stale(before) /\ committed = {}
        /\ live = DOMAIN vols /\ tmp = DOMAIN vols \ moved
        /\ Cardinality(moved) <= Len(vols) /\ moved = 1 .. Cardinality(moved)
        /\ \A i \in moved : disk[Final(i)] = i
        /\ \A n \in Names : (\A i \in moved : n # Final(i)) => disk[n] = Was(n)

\* While they are renamed back a volume with a name is one that has not had its
\* turn, or one that could not be renamed back; a single file has not been renamed.
UndoingWhere ==
    phase = "undoing" =>
        /\ outcome = "failed" /\ vols # <<>>
        /\ moved \subseteq DOMAIN vols /\ moved \cap committed = {}
        /\ live = DOMAIN vols \ committed /\ tmp = live \ moved
        /\ \A n \in Names : disk[n] \in Volumes =>
              disk[n] \in moved \cup committed /\ n = Final(disk[n])
        /\ Len(vols) = 1 => moved = {} /\ \A n \in Names : disk[n] = Was(n)

\* What is dropped has no name but what could not be renamed back.
DroppingWhere ==
    phase = "dropping" =>
        /\ outcome \in {"stale", "failed", "abandoned"} /\ tmp \subseteq live
        /\ \A n \in Names : disk[n] \in Volumes => disk[n] \in committed
        /\ outcome = "stale" \/ Len(vols) = 1 => \A n \in Names : disk[n] = Was(n)

IInv ==
    /\ TypeOK
    /\ Cut
    /\ WritingWhere
    /\ MovingWhere
    /\ UndoingWhere
    /\ DroppingWhere
    /\ WholeSet
    /\ NothingLeft

-----------------------------------------------------------------------------
(***************************************************************************)
(* Arithmetic of volumes, and the operators of FlatFile.                   *)
(***************************************************************************)
LEMMA Division ==
  ASSUME NEW a \in Nat
  PROVE  /\ a \div Size \in Nat /\ a % Size \in 0 .. Size - 1
         /\ a = Size * (a \div Size) + (a % Size)
BY VolumeAssumption

LEMMA Times ==
  ASSUME NEW a \in Nat, NEW b \in Nat
  PROVE  /\ Size * a \in Nat /\ Size * (a + 1) = Size * a + Size
         /\ a < b => Size * a + Size <= Size * b
         /\ a <= b => Size * a <= Size * b
<1>1. Size * a \in Nat /\ Size * (a + 1) = Size * a + Size /\ Size * b \in Nat
  BY VolumeAssumption
<1>2. ASSUME a <= b PROVE Size * a <= Size * b
  <2>1. PICK d \in Nat : b = a + d
    BY <1>2
  <2>2. Size * b = Size * a + Size * d /\ Size * d \in Nat
    BY <2>1, VolumeAssumption
  <2> QED BY <1>1, <2>2
<1>3. ASSUME a < b PROVE Size * a + Size <= Size * b
  <2>1. PICK d \in Nat : b = a + 1 + d
    BY <1>3
  <2>2. Size * b = Size * a + Size + Size * d /\ Size * d \in Nat
    BY <2>1, VolumeAssumption
  <2> QED BY <1>1, <2>2, VolumeAssumption
<1> QED BY <1>1, <1>2, <1>3

\* Where volumes begin.
LEMMA Offsets ==
  ASSUME NEW v \in Nat \ {0}, NEW n \in Nat \ {0}
  PROVE  /\ Size * (v - 1) \in Nat
         /\ v < n => Size * (v - 1) + Size <= Size * (n - 1)
<1>1. PICK a \in Nat, b \in Nat : a = v - 1 /\ b = n - 1
  OBVIOUS
<1> QED BY <1>1, Times

\* A position and a place within a volume say the same.
LEMMA DivisionUnique ==
  ASSUME NEW q \in Nat, NEW r \in 0 .. Size - 1
  PROVE  (Size * q + r) \div Size = q /\ (Size * q + r) % Size = r
<1>1. PICK a \in Nat : a = Size * q + r
  BY VolumeAssumption
<1>2. PICK d \in Nat, m \in 0 .. Size - 1 : d = a \div Size /\ m = a % Size /\ a = Size * d + m
  BY Division
<1>3. Size * q \in Nat /\ Size * d \in Nat
  BY Times
<1>4. ~(q < d)
  BY <1>1, <1>2, <1>3, Times, VolumeAssumption
<1>5. ~(d < q)
  BY <1>1, <1>2, <1>3, Times, VolumeAssumption
<1>6. d = q /\ m = r
  BY <1>1, <1>2, <1>3, <1>4, <1>5, VolumeAssumption
<1> QED BY <1>1, <1>2, <1>6

LEMMA MaxMin ==
  ASSUME NEW a \in Nat, NEW b \in Nat
  PROVE  /\ Max({a, b}) = IF a < b THEN b ELSE a
         /\ Min({a, b}) = IF a < b THEN a ELSE b
BY DEF Max, Min

LEMMA FunctionIsSeq ==
  ASSUME NEW m \in Nat, NEW f \in [1 .. m -> Nat]
  PROVE  f \in Seq(Nat) /\ Len(f) = m
OBVIOUS

\* c is s cut or filled up with zeros to n bytes.
IsResized(c, s, n) ==
    /\ c \in Seq(Nat) /\ Len(c) = n
    /\ \A k \in 1 .. n : c[k] = IF k <= Len(s) THEN s[k] ELSE 0

LEMMA ResizedTo ==
  ASSUME NEW s \in Seq(Nat), NEW n \in Nat
  PROVE  IsResized(F!Resized(s, n), s, n)
<1>1. \A k \in 1 .. n : k <= Len(s) => s[k] \in Nat
  OBVIOUS
<1> QED BY <1>1 DEF F!Resized, IsResized

LEMMA ResizedIs ==
  ASSUME NEW s \in Seq(Nat), NEW n \in Nat
  PROVE  /\ F!Resized(s, n) \in Seq(Nat) /\ Len(F!Resized(s, n)) = n
         /\ \A k \in 1 .. n : F!Resized(s, n)[k] = IF k <= Len(s) THEN s[k] ELSE 0
<1>1. \A k \in 1 .. n : k <= Len(s) => s[k] \in Nat
  OBVIOUS
<1> QED BY <1>1 DEF F!Resized

\* c is s with data behind the first off bytes; it has m bytes.
IsPatch(c, s, off, data, m) ==
    /\ c \in Seq(Nat) /\ Len(c) = m
    /\ \A k \in 1 .. m :
          c[k] = IF k \in off + 1 .. off + Len(data) THEN data[k - off]
                 ELSE IF k <= Len(s) THEN s[k] ELSE 0

LEMMA PatchedIs ==
  ASSUME NEW s \in Seq(Nat), NEW off \in Nat, NEW data \in Seq(Nat),
         NEW m \in Nat, m = IF off + Len(data) > Len(s) THEN off + Len(data) ELSE Len(s)
  PROVE  IsPatch(F!Patched(s, off, data), s, off, data, m)
<1>1. \A k \in 1 .. m : k <= Len(s) => s[k] \in Nat
  OBVIOUS
<1>2. \A k \in off + 1 .. off + Len(data) : data[k - off] \in Nat
  OBVIOUS
<1> QED BY <1>1, <1>2 DEF F!Patched, IsPatch

\* ensure() fills up the last volume and adds full ones and an empty one.
LEMMA EnsuredIs ==
  ASSUME vols \in Seq(Seq(Nat)), NEW n \in Nat
  PROVE  LET all == IF n < Len(vols) THEN Len(vols) ELSE n
         IN  /\ Ensured(n) \in Seq(Seq(Nat)) /\ Len(Ensured(n)) = all
             /\ \A i \in 1 .. all :
                   IF i < Len(vols) \/ n <= Len(vols) THEN Ensured(n)[i] = vols[i]
                   ELSE /\ Len(Ensured(n)[i]) = IF i < n THEN Size ELSE 0
                        /\ \A k \in 1 .. Len(Ensured(n)[i]) :
                              Ensured(n)[i][k] =
                                 IF i = Len(vols) /\ k <= Len(vols[i]) THEN vols[i][k] ELSE 0
<1> DEFINE all == IF n < Len(vols) THEN Len(vols) ELSE n
           vol(i) == IF i < Len(vols) \/ n <= Len(vols) THEN vols[i]
                     ELSE F!Resized(IF i = Len(vols) THEN vols[i] ELSE <<>>, IF i < n THEN Size ELSE 0)
<1>1. Max({n, Len(vols)}) = all /\ all \in Nat
  BY MaxMin
<1>2. Ensured(n) = [i \in 1 .. all |-> vol(i)]
  BY <1>1 DEF Ensured
<1>3. \A i \in 1 .. all : vol(i) \in Seq(Nat)
  <2> SUFFICES ASSUME NEW i \in 1 .. all PROVE vol(i) \in Seq(Nat)
    OBVIOUS
  <2>1. CASE i < Len(vols) \/ n <= Len(vols)
    BY <2>1
  <2>2. CASE ~(i < Len(vols) \/ n <= Len(vols))
    <3>1. (IF i = Len(vols) THEN vols[i] ELSE <<>>) \in Seq(Nat) /\ (IF i < n THEN Size ELSE 0) \in Nat
      BY <2>2, VolumeAssumption
    <3> QED BY <2>2, <3>1, ResizedIs
  <2> QED BY <2>1, <2>2
<1>4. ASSUME NEW i \in 1 .. all, ~(i < Len(vols) \/ n <= Len(vols))
      PROVE  /\ Len(vol(i)) = IF i < n THEN Size ELSE 0
             /\ \A k \in 1 .. Len(vol(i)) :
                   vol(i)[k] = IF i = Len(vols) /\ k <= Len(vols[i]) THEN vols[i][k] ELSE 0
  <2>0. (IF i = Len(vols) THEN vols[i] ELSE <<>>) \in Seq(Nat)
    <3>1. <<>> \in Seq(Nat)
      OBVIOUS
    <3>2. i = Len(vols) => vols[i] \in Seq(Nat)
      OBVIOUS
    <3> QED BY <3>1, <3>2
  <2>1. PICK s \in Seq(Nat) : s = IF i = Len(vols) THEN vols[i] ELSE <<>>
    BY <2>0
  <2>2. PICK m \in Nat : m = IF i < n THEN Size ELSE 0
    BY VolumeAssumption
  <2>3. vol(i) = F!Resized(s, m)
    BY <1>4, <2>1, <2>2
  <2> HIDE DEF vol
  <2>4. Len(vol(i)) = m /\ \A k \in 1 .. m : vol(i)[k] = IF k <= Len(s) THEN s[k] ELSE 0
    BY <2>3, ResizedIs
  <2> QED BY <2>1, <2>2, <2>4
<1>5. \A i \in 1 .. all : i < Len(vols) \/ n <= Len(vols) => vol(i) = vols[i]
  OBVIOUS
<1> HIDE DEF vol
<1>6. Ensured(n) \in Seq(Seq(Nat)) /\ Len(Ensured(n)) = all
  BY <1>1, <1>2, <1>3
<1>7. \A i \in 1 .. all : Ensured(n)[i] = vol(i)
  BY <1>1, <1>2
<1> QED BY <1>4, <1>5, <1>6, <1>7

-----------------------------------------------------------------------------
(***************************************************************************)
(* What the volumes are put together.  FlattenSeq is a recursive function; *)
(* as all volumes but the last one have the same length its value is known,*)
(* byte for byte.                                                          *)
(***************************************************************************)
\* Where byte p of the whole is: in which volume, and where in it.
VolumeOf(p) == ((p - 1) \div Size) + 1
PlaceOf(p)  == ((p - 1) % Size) + 1

\* The length of the first n volumes, and their bytes.
LengthOf(s, n) == Size * (n - 1) + Len(s[n])
BytesOf(s, n)  == [p \in 1 .. LengthOf(s, n) |-> s[VolumeOf(p)][PlaceOf(p)]]

LEMMA LengthType ==
  ASSUME NEW s \in Seq(Seq(Nat)), NEW n \in 1 .. Len(s)
  PROVE  /\ n \in Nat \ {0} /\ s[n] \in Seq(Nat) /\ Len(s[n]) \in Nat
         /\ Size * (n - 1) \in Nat /\ LengthOf(s, n) \in Nat
<1>1. n \in Nat \ {0} /\ s[n] \in Seq(Nat) /\ Len(s[n]) \in Nat
  OBVIOUS
<1>2. Size * (n - 1) \in Nat
  BY <1>1, Offsets
<1> QED BY <1>1, <1>2 DEF LengthOf

LEMMA FullIs ==
  ASSUME NEW s \in Seq(Seq(Nat)), Full(s), NEW n \in 1 .. Len(s)
  PROVE  /\ n \in Nat \ {0} /\ s[n] \in Seq(Nat) /\ Len(s[n]) \in 0 .. Size
         /\ n < Len(s) => Len(s[n]) = Size
<1>1. n \in DOMAIN s /\ Len(s[n]) \in Nat /\ Len(s[n]) <= Size
  BY DEF Full
<1> QED BY <1>1, VolumeAssumption DEF Full

\* Byte k of volume i is at its place in the whole.
LEMMA PlaceIs ==
  ASSUME NEW i \in Nat \ {0}, NEW k \in 1 .. Size
  PROVE  VolumeOf(Size * (i - 1) + k) = i /\ PlaceOf(Size * (i - 1) + k) = k
<1>1. PICK q \in Nat, r \in 0 .. Size - 1 : q = i - 1 /\ r = k - 1
  BY VolumeAssumption
<1>2. Size * q \in Nat
  BY Times
<1>3. (Size * (i - 1) + k) - 1 = Size * q + r
  BY <1>1, <1>2
<1> QED BY <1>1, <1>3, DivisionUnique DEF VolumeOf, PlaceOf

\* Every byte has a place.
LEMMA PlaceOfByte ==
  ASSUME NEW p \in Nat \ {0}
  PROVE  /\ VolumeOf(p) \in Nat \ {0} /\ PlaceOf(p) \in 1 .. Size
         /\ p = Size * (VolumeOf(p) - 1) + PlaceOf(p)
<1>1. PICK a \in Nat : a = p - 1
  OBVIOUS
<1>2. a \div Size \in Nat /\ a % Size \in 0 .. Size - 1 /\ a = Size * (a \div Size) + (a % Size)
  BY Division
<1>3. Size * (a \div Size) \in Nat
  BY <1>2, Times
<1> QED BY <1>1, <1>2, <1>3, VolumeAssumption DEF VolumeOf, PlaceOf

\* A byte that lies within the first n volumes lies within one of them.
LEMMA PlaceWithin ==
  ASSUME NEW s \in Seq(Seq(Nat)), Full(s), NEW n \in 1 .. Len(s), NEW p \in 1 .. LengthOf(s, n)
  PROVE  /\ VolumeOf(p) \in 1 .. n /\ PlaceOf(p) \in 1 .. Len(s[VolumeOf(p)])
         /\ VolumeOf(p) < n => p <= Size * (n - 1)
         /\ VolumeOf(p) = n => p = Size * (n - 1) + PlaceOf(p)
<1>1. n \in Nat \ {0} /\ Size * (n - 1) \in Nat /\ p \in Nat \ {0}
  BY LengthType
<1>2. PICK v \in Nat \ {0}, k \in 1 .. Size :
          v = VolumeOf(p) /\ k = PlaceOf(p) /\ p = Size * (v - 1) + k
  BY <1>1, PlaceOfByte
<1>3. PICK a \in Nat : a = Size * (n - 1)
  BY <1>1
<1>4. PICK b \in Nat : b = Size * (v - 1)
  BY Offsets
<1>5. PICK l \in 0 .. Size : l = Len(s[n])
  BY FullIs
<1>6. LengthOf(s, n) = a + l
  BY <1>3, <1>5 DEF LengthOf
<1>7. p = b + k /\ p <= a + l
  <2>1. p = b + k
    BY <1>2, <1>4
  <2> QED BY <1>5, <1>6, <2>1
<1>8. /\ v < n => b + Size <= a
      /\ n < v => a + Size <= b
  BY <1>1, <1>3, <1>4, Offsets
<1>9. ~(n < v)
  BY <1>7, <1>8, VolumeAssumption
<1>10. CASE v = n
  <2>1. a = b
    BY <1>3, <1>4, <1>10
  <2>2. k \in 1 .. l
    BY <1>5, <1>7, <2>1
  <2>3. v \in 1 .. n /\ ~(v < n) /\ k \in 1 .. Len(s[v])
    BY <1>1, <1>5, <1>10, <2>2
  <2>4. p = Size * (n - 1) + k
    BY <1>2, <1>10
  <2> QED BY <1>2, <2>3, <2>4
<1>11. CASE v < n
  <2>1. v \in 1 .. Len(s) /\ v < Len(s)
    BY <1>1, <1>11
  <2>2. k \in 1 .. Len(s[v])
    BY <2>1, FullIs
  <2>3. p <= a
    BY <1>7, <1>8, <1>11, VolumeAssumption
  <2>4. v \in 1 .. n /\ v # n
    BY <1>1, <1>11
  <2> QED BY <1>2, <1>3, <2>2, <2>3, <2>4
<1>12. v < n \/ v = n
  BY <1>1, <1>9
<1> QED BY <1>10, <1>11, <1>12

LEMMA BytesType ==
  ASSUME NEW s \in Seq(Seq(Nat)), Full(s), NEW n \in 1 .. Len(s)
  PROVE  /\ BytesOf(s, n) \in Seq(Nat) /\ LengthOf(s, n) \in Nat
         /\ Len(BytesOf(s, n)) = LengthOf(s, n)
<1>1. LengthOf(s, n) \in Nat
  BY LengthType
<1>2. \A p \in 1 .. LengthOf(s, n) : s[VolumeOf(p)][PlaceOf(p)] \in Nat
  <2> SUFFICES ASSUME NEW p \in 1 .. LengthOf(s, n) PROVE s[VolumeOf(p)][PlaceOf(p)] \in Nat
    OBVIOUS
  <2>1. PICK v \in 1 .. n : v = VolumeOf(p) /\ PlaceOf(p) \in 1 .. Len(s[v])
    BY PlaceWithin
  <2>2. s[v] \in Seq(Nat)
    OBVIOUS
  <2> QED BY <2>1, <2>2
<1>3. PICK m \in Nat : m = LengthOf(s, n)
  BY <1>1
<1>4. BytesOf(s, n) \in [1 .. m -> Nat]
  BY <1>2, <1>3 DEF BytesOf
<1> QED BY <1>3, <1>4, FunctionIsSeq

\* One volume more is appended.
LEMMA BytesStep ==
  ASSUME NEW s \in Seq(Seq(Nat)), Full(s), NEW n \in 2 .. Len(s)
  PROVE  BytesOf(s, n) = BytesOf(s, n - 1) \o s[n]
<1> DEFINE m == n - 1
           whole == BytesOf(s, m) \o s[n]
<1>1. m \in 1 .. Len(s) /\ n \in 1 .. Len(s) /\ s[n] \in Seq(Nat) /\ s[m] \in Seq(Nat)
  OBVIOUS
<1>2. Len(s[m]) = Size /\ Len(s[n]) \in 0 .. Size
  BY <1>1 DEF Full
<1>3. LengthOf(s, m) = Size * (n - 1)
  BY <1>1, <1>2, Times DEF LengthOf
<1>4. /\ BytesOf(s, m) \in Seq(Nat) /\ Len(BytesOf(s, m)) = LengthOf(s, m) /\ LengthOf(s, m) \in Nat
      /\ BytesOf(s, n) \in Seq(Nat) /\ Len(BytesOf(s, n)) = LengthOf(s, n) /\ LengthOf(s, n) \in Nat
  BY <1>1, BytesType
<1>5. LengthOf(s, n) = LengthOf(s, m) + Len(s[n])
  BY <1>3 DEF LengthOf
<1>6. /\ whole \in Seq(Nat) /\ Len(whole) = LengthOf(s, n)
      /\ \A p \in 1 .. LengthOf(s, n) :
            whole[p] = IF p <= LengthOf(s, m) THEN BytesOf(s, m)[p] ELSE s[n][p - LengthOf(s, m)]
  <2>1. PICK t \in Seq(Nat), u \in Seq(Nat) : t = BytesOf(s, m) /\ u = s[n]
    BY <1>1, <1>4
  <2>2. Len(t) = LengthOf(s, m) /\ Len(t) + Len(u) = LengthOf(s, n) /\ whole = t \o u
    BY <1>4, <1>5, <2>1
  <2> HIDE DEF whole
  <2>3. /\ t \o u \in Seq(Nat) /\ Len(t \o u) = Len(t) + Len(u)
        /\ \A p \in 1 .. Len(t) + Len(u) :
              (t \o u)[p] = IF p <= Len(t) THEN t[p] ELSE u[p - Len(t)]
    BY ConcatProperties
  <2> QED BY <2>1, <2>2, <2>3
<1>7. ASSUME NEW p \in 1 .. LengthOf(s, n) PROVE whole[p] = BytesOf(s, n)[p]
  <2>1. /\ VolumeOf(p) \in 1 .. n
        /\ VolumeOf(p) < n => p <= LengthOf(s, m)
        /\ VolumeOf(p) = n => p = LengthOf(s, m) + PlaceOf(p) /\ PlaceOf(p) \in Nat \ {0}
    BY <1>1, <1>3, PlaceWithin
  <2>2. BytesOf(s, n)[p] = s[VolumeOf(p)][PlaceOf(p)]
    BY DEF BytesOf
  <2>3. CASE VolumeOf(p) < n
    <3>1. p \in 1 .. LengthOf(s, m)
      BY <1>4, <2>1, <2>3
    <3>2. whole[p] = BytesOf(s, m)[p]
      <4> HIDE DEF whole
      <4> QED BY <1>4, <1>6, <3>1
    <3> QED BY <2>2, <3>1, <3>2 DEF BytesOf
  <2>4. CASE VolumeOf(p) = n
    <3>1. PICK k \in Nat \ {0} : k = PlaceOf(p) /\ p = LengthOf(s, m) + k
      BY <2>1, <2>4
    <3>2. ~(p <= LengthOf(s, m)) /\ p - LengthOf(s, m) = k
      BY <1>4, <3>1
    <3> QED BY <1>6, <2>2, <2>4, <3>1, <3>2
  <2>5. VolumeOf(p) < n \/ VolumeOf(p) = n
    BY <2>1
  <2> QED BY <2>3, <2>4, <2>5
<1> HIDE DEF whole, m
<1>8. whole = BytesOf(s, n)
  BY <1>4, <1>6, <1>7, SeqEqual
<1> QED BY <1>8 DEF whole, m

LEMMA BytesFirst ==
  ASSUME NEW s \in Seq(Seq(Nat)), Full(s), 1 \in 1 .. Len(s)
  PROVE  BytesOf(s, 1) = s[1]
<1>1. BytesOf(s, 1) \in Seq(Nat) /\ s[1] \in Seq(Nat) /\ Len(BytesOf(s, 1)) = LengthOf(s, 1)
  BY BytesType
<1>2. Size * (1 - 1) = 0
  BY VolumeAssumption
<1>3. LengthOf(s, 1) = Len(s[1])
  BY <1>1, <1>2 DEF LengthOf
<1>4. ASSUME NEW p \in 1 .. LengthOf(s, 1) PROVE BytesOf(s, 1)[p] = s[1][p]
  <2>1. VolumeOf(p) = 1
    BY PlaceWithin
  <2>2. p = Size * (1 - 1) + PlaceOf(p) /\ PlaceOf(p) \in 1 .. Len(s[1])
    BY <2>1, PlaceWithin
  <2>3. p = PlaceOf(p)
    BY <1>2, <2>2
  <2> QED BY <2>1, <2>3 DEF BytesOf
<1> HIDE DEF BytesOf
<1> QED BY <1>1, <1>3, <1>4, SeqEqual

\* What holds for 1 and with a number for the next one holds for all.
LEMMA NumberInduction ==
  ASSUME NEW n \in Nat, NEW Q, 1 \in Q, \A i \in 2 .. n : i - 1 \in Q => i \in Q
  PROVE  \A i \in 1 .. n : i \in Q
<1> DEFINE Bad == {i \in 1 .. n : i \notin Q}
           Below == {1 .. i : i \in Bad}
<1> SUFFICES ASSUME Bad # {} PROVE FALSE
  OBVIOUS
<1>1. IsFiniteSet(1 .. n)
  BY FS_Interval
<1>2. IsWellFoundedOn(StrictSubsetOrdering(1 .. n), SUBSET (1 .. n))
  BY <1>1, FS_StrictSubsetOrderingWellFounded, FS_FiniteSubsetsOfFinite
<1>3. \E T \in Below : \A U \in Below : ~(<<U, T>> \in StrictSubsetOrdering(1 .. n))
  <2>1. Below \subseteq SUBSET (1 .. n) /\ Below # {}
    OBVIOUS
  <2> HIDE DEF Below
  <2> QED BY <1>2, <2>1, WFMin
<1>4. PICK i \in Bad : \A j \in Bad : ~(<<1 .. j, 1 .. i>> \in StrictSubsetOrdering(1 .. n))
  <2>1. PICK T \in Below : \A U \in Below : ~(<<U, T>> \in StrictSubsetOrdering(1 .. n))
    BY <1>3
  <2>2. PICK i \in Bad : T = 1 .. i
    OBVIOUS
  <2>3. \A j \in Bad : 1 .. j \in Below
    OBVIOUS
  <2> HIDE DEF Bad, Below
  <2> QED BY <2>1, <2>2, <2>3
<1>5. i \in 1 .. n /\ i # 1 /\ i \notin Q
  BY <1>4
<1>6. i \in 2 .. n /\ i - 1 \in 1 .. n
  BY <1>5
<1>7. <<1 .. (i - 1), 1 .. i>> \in StrictSubsetOrdering(1 .. n)
  <2>1. 1 .. (i - 1) \subseteq 1 .. n /\ 1 .. i \subseteq 1 .. n
    BY <1>6
  <2>2. 1 .. (i - 1) \subseteq 1 .. i /\ 1 .. (i - 1) # 1 .. i
    <3>1. i \in 1 .. i /\ i \notin 1 .. (i - 1)
      BY <1>6
    <3>2. 1 .. (i - 1) \subseteq 1 .. i
      BY <1>6
    <3> QED BY <3>1, <3>2
  <2> QED BY <2>1, <2>2 DEF StrictSubsetOrdering
<1>8. i - 1 \notin Bad
  BY <1>4, <1>7
<1>9. i - 1 \in Q
  BY <1>6, <1>8
<1> QED BY <1>5, <1>6, <1>9

LEMMA FlattenIs ==
  ASSUME NEW s \in Seq(Seq(Nat)), Full(s), Len(s) # 0
  PROVE  FlattenSeq(s) = BytesOf(s, Len(s))
<1> DEFINE Rec(f) == f = [i \in 1 .. Len(s) |-> IF i = 1 THEN s[i] ELSE f[i - 1] \o s[i]]
           g == [i \in 1 .. Len(s) |-> BytesOf(s, i)]
           h == CHOOSE f : Rec(f)
           Q == {i \in 1 .. Len(s) : h[i] = BytesOf(s, i)}
<1>1. Len(s) \in Nat /\ Len(s) \in 1 .. Len(s) /\ 1 \in 1 .. Len(s)
  OBVIOUS
<1>2. Rec(g)
  <2>1. \A i \in 1 .. Len(s) : i # 1 => i \in 2 .. Len(s) /\ i - 1 \in 1 .. Len(s)
    OBVIOUS
  <2>2. \A i \in 1 .. Len(s) : i # 1 => BytesOf(s, i) = g[i - 1] \o s[i]
    BY <2>1, BytesStep
  <2> HIDE DEF BytesOf
  <2>3. g = [i \in 1 .. Len(s) |-> IF i = 1 THEN s[i] ELSE g[i - 1] \o s[i]]
    BY <1>1, <2>2, BytesFirst
  <2> QED BY <2>3
<1>3. Rec(h)
  <2> HIDE DEF g, Rec
  <2> QED BY <1>2
<1>4. 1 \in Q
  <2>1. h[1] = s[1]
    <3> HIDE DEF h
    <3> QED BY <1>1, <1>3
  <2> HIDE DEF h
  <2> QED BY <1>1, <2>1, BytesFirst
<1>5. \A i \in 2 .. Len(s) : i - 1 \in Q => i \in Q
  <2> SUFFICES ASSUME NEW i \in 2 .. Len(s), i - 1 \in Q PROVE i \in Q
    OBVIOUS
  <2>1. i \in 1 .. Len(s) /\ i # 1
    OBVIOUS
  <2>2. h[i] = h[i - 1] \o s[i]
    <3> HIDE DEF h
    <3> QED BY <1>3, <2>1
  <2>3. BytesOf(s, i) = BytesOf(s, i - 1) \o s[i]
    BY BytesStep
  <2>4. h[i - 1] = BytesOf(s, i - 1)
    OBVIOUS
  <2> HIDE DEF h, BytesOf
  <2> QED BY <2>1, <2>2, <2>3, <2>4
<1>6. \A i \in 1 .. Len(s) : i \in Q
  <2> HIDE DEF Q
  <2> QED BY <1>1, <1>4, <1>5, NumberInduction
<1>7. h[Len(s)] = BytesOf(s, Len(s))
  BY <1>1, <1>6
<1> QED BY <1>7 DEF FlattenSeq

LEMMA FlattenOne ==
  ASSUME NEW s \in Seq(Seq(Nat)), Len(s) = 1
  PROVE  FlattenSeq(s) = s[1]
<1> DEFINE Rec(f) == f = [i \in 1 .. Len(s) |-> IF i = 1 THEN s[i] ELSE f[i - 1] \o s[i]]
           g == [i \in 1 .. Len(s) |-> s[i]]
           h == CHOOSE f : Rec(f)
<1>1. Rec(g)
  OBVIOUS
<1>2. Rec(h)
  <2> HIDE DEF g, Rec
  <2> QED BY <1>1
<1>3. h[1] = s[1]
  <2> HIDE DEF h
  <2> QED BY <1>2
<1> QED BY <1>3 DEF FlattenSeq

LEMMA FlattenNone == FlattenSeq(<<>>) = <<>>
BY DEF FlattenSeq

\* The whole, by the way it is cut: as one file, in volumes, or not at all yet.
LEMMA WholeIs ==
  ASSUME Cut
  PROVE  /\ Len(vols) \in Nat
         /\ Len(vols) = 0 => FlattenSeq(vols) = <<>>
         /\ split /\ Len(vols) # 0 => Full(vols) /\ FlattenSeq(vols) = BytesOf(vols, Len(vols))
         /\ ~split => FlattenSeq(vols) = vols[1] /\ vols[1] \in Seq(Nat)
         /\ FlattenSeq(vols) \in Seq(Nat) /\ Len(FlattenSeq(vols)) = Length
<1>1. Len(vols) \in Nat /\ (Len(vols) = 0 <=> vols = <<>>) /\ vols \in Seq(Seq(Nat))
  BY DEF Cut
<1>2. CASE Len(vols) = 0
  <2>1. FlattenSeq(vols) = <<>> /\ Length = 0 /\ vols = <<>>
    BY <1>1, <1>2, FlattenNone DEF Length
  <2> QED BY <1>1, <1>2, <2>1 DEF Cut
<1>3. CASE Len(vols) # 0 /\ split = TRUE
  <2>1. Full(vols) /\ FlattenSeq(vols) = BytesOf(vols, Len(vols)) /\ Len(vols) \in 1 .. Len(vols)
    BY <1>1, <1>3, FlattenIs DEF Cut
  <2>2. BytesOf(vols, Len(vols)) \in Seq(Nat) /\ Len(BytesOf(vols, Len(vols))) = LengthOf(vols, Len(vols))
    BY <1>1, <2>1, BytesType
  <2>3. Length = (Len(vols) - 1) * Size + Len(vols[Len(vols)])
    BY <1>1, <1>3 DEF Length
  <2>4. (Len(vols) - 1) * Size = Size * (Len(vols) - 1)
    BY <1>1, VolumeAssumption
  <2>5. Length = LengthOf(vols, Len(vols))
    BY <2>3, <2>4 DEF LengthOf
  <2> QED BY <1>1, <1>3, <2>1, <2>2, <2>5
<1>4. CASE ~split
  <2>1. Len(vols) = 1 /\ vols # <<>> /\ vols[1] \in Seq(Nat)
    BY <1>1, <1>4 DEF Cut
  <2>2. FlattenSeq(vols) = vols[1] /\ Length = Len(vols[1])
    BY <1>1, <1>4, <2>1, FlattenOne DEF Length
  <2> QED BY <1>1, <1>4, <2>1, <2>2
<1> QED BY <1>2, <1>3, <1>4

\* The volumes of an archive are cut evenly.
LEMMA CutIsEven == Cut => CutEvenly
<1> SUFFICES ASSUME Cut PROVE CutEvenly
  OBVIOUS
<1>1. Length = Len(FlattenSeq(vols))
  BY WholeIs
<1> QED BY <1>1 DEF CutEvenly, Cut, Full

-----------------------------------------------------------------------------
(***************************************************************************)
(* What writing does to the volumes, byte for byte.  A byte that was never *)
(* written counts as zero.                                                 *)
(***************************************************************************)
Byte(s, i, k) == IF i \in 1 .. Len(s) /\ k \in 1 .. Len(s[i]) THEN s[i][k] ELSE 0
At(s, p)      == Byte(s, VolumeOf(p), PlaceOf(p))
Total(s)      == IF Len(s) = 0 THEN 0 ELSE LengthOf(s, Len(s))

\* The whole has the bytes of the volumes, and there are no others.
LEMMA WholeBytes ==
  ASSUME NEW s \in Seq(Seq(Nat)), Full(s)
  PROVE  /\ FlattenSeq(s) \in Seq(Nat) /\ Len(FlattenSeq(s)) = Total(s) /\ Total(s) \in Nat
         /\ \A p \in Nat \ {0} : At(s, p) = IF p <= Total(s) THEN FlattenSeq(s)[p] ELSE 0
<1>1. CASE Len(s) = 0
  <2>1. s = <<>> /\ FlattenSeq(s) = <<>> /\ Total(s) = 0
    BY <1>1, FlattenNone DEF Total
  <2>2. \A p \in Nat \ {0} : At(s, p) = 0 /\ ~(p <= 0)
    BY <1>1 DEF At, Byte
  <2>3. <<>> \in Seq(Nat) /\ Len(<<>>) = 0
    OBVIOUS
  <2>4. FlattenSeq(s) \in Seq(Nat) /\ Len(FlattenSeq(s)) = 0
    BY <2>1, <2>3
  <2> QED BY <2>1, <2>2, <2>4
<1>2. CASE Len(s) # 0
  <2>1. PICK n \in 1 .. Len(s) : n = Len(s)
    BY <1>2
  <2>2. /\ FlattenSeq(s) = BytesOf(s, n) /\ Total(s) = LengthOf(s, n) /\ LengthOf(s, n) \in Nat
        /\ BytesOf(s, n) \in Seq(Nat) /\ Len(BytesOf(s, n)) = LengthOf(s, n)
    BY <1>2, <2>1, FlattenIs, BytesType DEF Total
  <2>3. ASSUME NEW p \in Nat \ {0}, p <= LengthOf(s, n) PROVE At(s, p) = BytesOf(s, n)[p]
    <3>1. p \in 1 .. LengthOf(s, n)
      BY <2>2, <2>3
    <3>2. VolumeOf(p) \in 1 .. Len(s) /\ PlaceOf(p) \in 1 .. Len(s[VolumeOf(p)])
      BY <2>1, <3>1, PlaceWithin
    <3> QED BY <3>1, <3>2 DEF At, Byte, BytesOf
  <2>4. ASSUME NEW p \in Nat \ {0}, At(s, p) # 0 PROVE p <= LengthOf(s, n)
    <3>1. PICK v \in Nat \ {0}, k \in 1 .. Size :
             v = VolumeOf(p) /\ k = PlaceOf(p) /\ p = Size * (v - 1) + k
      BY PlaceOfByte
    <3>2. v \in 1 .. n /\ k \in 1 .. Len(s[v])
      BY <2>1, <2>4, <3>1 DEF At, Byte
    <3>3. PICK a \in Nat : a = Size * (n - 1)
      BY LengthType
    <3>4. PICK b \in Nat : b = Size * (v - 1)
      BY Offsets
    <3>5. PICK l \in 0 .. Size : l = Len(s[n])
      BY FullIs
    <3>6. LengthOf(s, n) = a + l /\ p = b + k
      BY <3>1, <3>3, <3>4, <3>5 DEF LengthOf
    <3>7. CASE v = n
      <4>1. a = b
        BY <3>3, <3>4, <3>7
      <4>2. k \in 1 .. l
        BY <3>2, <3>5, <3>7
      <4> QED BY <3>6, <4>1, <4>2
    <3>8. CASE v < n
      <4>1. b + Size <= a
        BY <3>3, <3>4, <3>8, Offsets
      <4> QED BY <3>5, <3>6, <4>1, VolumeAssumption
    <3>9. v = n \/ v < n
      BY <3>2
    <3> QED BY <3>7, <3>8, <3>9
  <2> QED BY <2>2, <2>3, <2>4
<1> QED BY <1>1, <1>2

\* The whole is known by its length and its bytes.
LEMMA WholeEqual ==
  ASSUME NEW s \in Seq(Seq(Nat)), Full(s), NEW c \in Seq(Nat), Len(c) = Total(s),
         \A p \in 1 .. Len(c) : c[p] = At(s, p)
  PROVE  FlattenSeq(s) = c
<1>1. \A p \in 1 .. Len(c) : c[p] = FlattenSeq(s)[p]
  BY WholeBytes
<1> QED BY <1>1, WholeBytes, SeqEqual

\* t is the volumes with ensure(n) carried out: no byte is changed.
IsExtended(t, n) ==
    /\ t \in Seq(Seq(Nat)) /\ Full(t)
    /\ Len(t) = IF n < Len(vols) THEN Len(vols) ELSE n
    /\ \A i \in 1 .. Len(t) : i <= Len(vols) /\ n <= Len(vols) => t[i] = vols[i]
    /\ n > Len(vols) => Len(t[n]) = 0
    /\ \A i, k \in Nat \ {0} : Byte(t, i, k) = Byte(vols, i, k)

LEMMA EnsuredSame ==
  ASSUME vols \in Seq(Seq(Nat)), Full(vols), NEW n \in Nat,
         NEW t, t = Ensured(n)
  PROVE  IsExtended(t, n)
<1>1. PICK old \in Nat : old = Len(vols)
  OBVIOUS
<1>2. PICK all \in Nat : all = IF n < old THEN old ELSE n
  OBVIOUS
<1>3. t \in Seq(Seq(Nat)) /\ Len(t) = all
  BY <1>1, <1>2, EnsuredIs
<1>4. \A i \in 1 .. all :
         IF i < old \/ n <= old THEN t[i] = vols[i]
         ELSE /\ Len(t[i]) = IF i < n THEN Size ELSE 0
              /\ \A k \in 1 .. Len(t[i]) :
                    t[i][k] = IF i = old /\ k <= Len(vols[i]) THEN vols[i][k] ELSE 0
  BY <1>1, <1>2, EnsuredIs
<1>5. \A i \in 1 .. old : Len(vols[i]) \in 0 .. Size /\ (i < old => Len(vols[i]) = Size)
  BY <1>1, FullIs
<1>6. Full(t)
  <2> SUFFICES ASSUME NEW i \in 1 .. all
               PROVE  Len(t[i]) <= Size /\ (i < all => Len(t[i]) = Size)
    BY <1>3 DEF Full
  <2>1. CASE i < old \/ n <= old
    BY <1>2, <1>4, <1>5, <2>1
  <2>2. CASE ~(i < old \/ n <= old)
    <3>1. all = n /\ Len(t[i]) = IF i < n THEN Size ELSE 0
      BY <1>2, <1>4, <2>2
    <3> QED BY <3>1, VolumeAssumption
  <2> QED BY <2>1, <2>2
<1>7. ASSUME NEW i \in Nat \ {0}, NEW k \in Nat \ {0} PROVE Byte(t, i, k) = Byte(vols, i, k)
  <2>1. CASE i \in 1 .. old /\ (i < old \/ n <= old)
    <3>1. i \in 1 .. all /\ t[i] = vols[i]
      BY <1>2, <1>4, <2>1
    <3> QED BY <1>1, <1>3, <2>1, <3>1 DEF Byte
  <2>2. CASE i = old /\ ~(i < old \/ n <= old)
    <3>1. i \in 1 .. all /\ i < n
      BY <1>2, <2>2
    <3>2. Len(t[i]) = Size /\ \A j \in 1 .. Size : t[i][j] = IF j <= Len(vols[i]) THEN vols[i][j] ELSE 0
      BY <1>4, <2>2, <3>1
    <3>3. Len(vols[i]) \in 0 .. Size /\ i \in 1 .. old
      BY <1>5, <2>2
    <3>4. PICK l \in 0 .. Size : l = Len(vols[i])
      BY <3>3
    <3>5. CASE k <= l
      <4>1. k \in 1 .. l /\ k \in 1 .. Size
        BY <3>4, <3>5, VolumeAssumption
      <4> QED BY <1>1, <1>3, <3>1, <3>2, <3>3, <3>4, <3>5, <4>1 DEF Byte
    <3>6. CASE ~(k <= l)
      <4>1. k \notin 1 .. l
        BY <3>6
      <4>2. Byte(vols, i, k) = 0
        BY <3>4, <4>1 DEF Byte
      <4>3. k \in 1 .. Size => t[i][k] = 0
        BY <3>2, <3>4, <3>6
      <4> QED BY <1>3, <3>1, <3>2, <4>2, <4>3 DEF Byte
    <3> QED BY <3>5, <3>6
  <2>3. CASE i \notin 1 .. old
    <3>1. Byte(vols, i, k) = 0
      BY <1>1, <2>3 DEF Byte
    <3>2. CASE i \in 1 .. all
      <4>1. ~(i < old \/ n <= old) /\ i # old
        BY <1>2, <2>3, <3>2
      <4>2. \A j \in 1 .. Len(t[i]) : t[i][j] = 0
        BY <1>4, <3>2, <4>1
      <4> QED BY <1>3, <3>1, <3>2, <4>2 DEF Byte
    <3>3. CASE i \notin 1 .. all
      BY <1>3, <3>1, <3>3 DEF Byte
    <3> QED BY <3>2, <3>3
  <2>4. i \in 1 .. old \/ i \notin 1 .. old
    OBVIOUS
  <2>5. i \in 1 .. old => i < old \/ i = old
    OBVIOUS
  <2> QED BY <2>1, <2>2, <2>3, <2>4, <2>5
<1>8. n > old => Len(t[n]) = 0
  <2> SUFFICES ASSUME n > old PROVE Len(t[n]) = 0
    OBVIOUS
  <2>1. n \in 1 .. all /\ ~(n < old \/ n <= old)
    BY <1>2
  <2> QED BY <1>4, <2>1
<1> QED BY <1>1, <1>2, <1>3, <1>4, <1>6, <1>7, <1>8 DEF IsExtended

\* What a write of data makes of the volumes s.
Written(s, i, off, data) == [s EXCEPT ![i] = F!Patched(@, off, data)]

\* t is the volumes e with volume i replaced by c.
IsReplaced(t, e, i, c) ==
    /\ t \in Seq(Seq(Nat)) /\ Len(t) = Len(e) /\ t[i] = c
    /\ \A j \in 1 .. Len(e) : j # i => t[j] = e[j]

LEMMA Replaced ==
  ASSUME NEW e \in Seq(Seq(Nat)), NEW i \in 1 .. Len(e), NEW c \in Seq(Nat)
  PROVE  IsReplaced([e EXCEPT ![i] = c], e, i, c)
BY DEF IsReplaced

\* t is the volumes with data put into volume idx behind its first off bytes.
IsPut(t, idx, off, data) ==
    /\ t \in Seq(Seq(Nat)) /\ Full(t)
    /\ Len(t) = IF idx < Len(vols) THEN Len(vols) ELSE idx
    /\ \A i \in Nat \ {0}, k \in 1 .. Size :
          Byte(t, i, k) = IF i = idx /\ k \in off + 1 .. off + Len(data) THEN data[k - off]
                          ELSE Byte(vols, i, k)
    /\ Total(t) = LET end == Size * (idx - 1) + off + Len(data)
                  IN  IF end > Total(vols) THEN end ELSE Total(vols)

\* A write changes the bytes it is for and no other, and the length is right.
LEMMA WriteVolumes ==
  ASSUME vols \in Seq(Seq(Nat)), Full(vols),
         NEW idx \in Nat \ {0}, NEW off \in 0 .. Size - 1,
         NEW data \in Seq(Nat), Len(data) # 0, off + Len(data) <= Size,
         NEW t, t = Written(Ensured(idx), idx, off, data)
  PROVE  IsPut(t, idx, off, data)
<1>1. PICK old \in Nat : old = Len(vols)
  OBVIOUS
<1>2. PICK e : e = Ensured(idx)
  OBVIOUS
<1>3. PICK all \in Nat : all = IF idx < old THEN old ELSE idx
  OBVIOUS
<1>4. /\ e \in Seq(Seq(Nat)) /\ Full(e) /\ Len(e) = all
      /\ \A i \in 1 .. all : i <= old /\ idx <= old => e[i] = vols[i]
      /\ idx > old => Len(e[idx]) = 0
      /\ \A i, k \in Nat \ {0} : Byte(e, i, k) = Byte(vols, i, k)
  <2>1. idx \in Nat
    OBVIOUS
  <2>2. IsExtended(e, idx)
    BY <1>2, <2>1, EnsuredSame
  <2> QED BY <1>1, <1>3, <2>2 DEF IsExtended
<1>5. idx \in 1 .. all /\ e[idx] \in Seq(Nat) /\ Len(e[idx]) \in 0 .. Size
      /\ (idx < all => Len(e[idx]) = Size)
  BY <1>3, <1>4, FullIs
<1>6. PICK end \in 1 .. Size : end = off + Len(data)
  BY VolumeAssumption
<1>7. PICK l \in 0 .. Size : l = Len(e[idx])
  BY <1>5
<1>8. PICK m \in 1 .. Size : m = IF end > l THEN end ELSE l
  BY <1>6, <1>7, VolumeAssumption
<1>9. PICK c : c = F!Patched(e[idx], off, data)
  OBVIOUS
<1>10. /\ c \in Seq(Nat) /\ Len(c) = m
       /\ \A k \in 1 .. m : c[k] = IF k \in off + 1 .. end THEN data[k - off]
                                  ELSE IF k <= l THEN e[idx][k] ELSE 0
  <2>1. PICK s \in Seq(Nat) : s = e[idx] /\ l = Len(s)
    BY <1>5, <1>7
  <2>2. off \in Nat /\ m \in Nat
        /\ m = IF off + Len(data) > Len(s) THEN off + Len(data) ELSE Len(s)
    BY <1>6, <1>8, <2>1
  <2>3. IsPatch(F!Patched(s, off, data), s, off, data, m)
    BY <2>2, PatchedIs
  <2>4. IsPatch(c, s, off, data, m)
    BY <1>9, <2>1, <2>3
  <2> QED BY <1>6, <2>1, <2>4 DEF IsPatch
<1>11. t = [e EXCEPT ![idx] = c]
  BY <1>2, <1>9 DEF Written
<1>12. /\ t \in Seq(Seq(Nat)) /\ Len(t) = all /\ t[idx] = c
       /\ \A i \in 1 .. all : i # idx => t[i] = e[i]
  <2>1. IsReplaced([e EXCEPT ![idx] = c], e, idx, c)
    BY <1>4, <1>5, <1>10, Replaced
  <2>2. IsReplaced(t, e, idx, c)
    BY <1>11, <2>1
  <2> QED BY <1>4, <2>2 DEF IsReplaced
<1>13. idx < all => m = Size
  BY <1>5, <1>6, <1>7, <1>8
<1>14. Full(t)
  <2> SUFFICES ASSUME NEW i \in 1 .. all
               PROVE  Len(t[i]) <= Size /\ (i < all => Len(t[i]) = Size)
    BY <1>12 DEF Full
  <2>1. CASE i = idx
    <3>1. Len(t[i]) = m
      BY <1>10, <1>12, <2>1
    <3>2. m <= Size
      BY VolumeAssumption
    <3> QED BY <1>13, <2>1, <3>1, <3>2
  <2>2. CASE i # idx
    <3>1. t[i] = e[i] /\ i \in 1 .. Len(e)
      BY <1>4, <1>12, <2>2
    <3>2. Len(e[i]) \in 0 .. Size /\ (i < all => Len(e[i]) = Size)
      BY <1>4, <3>1, FullIs
    <3> QED BY <3>1, <3>2, VolumeAssumption
  <2> QED BY <2>1, <2>2
<1>15. ASSUME NEW i \in Nat \ {0}, NEW k \in 1 .. Size
       PROVE  Byte(t, i, k) = IF i = idx /\ k \in off + 1 .. end THEN data[k - off]
                              ELSE Byte(vols, i, k)
  <2>1. k \in Nat \ {0} /\ Byte(e, i, k) = Byte(vols, i, k)
    BY <1>4
  <2>2. CASE i # idx
    <3>1. Len(t) = Len(e) /\ (i \in 1 .. Len(e) => t[i] = e[i])
      BY <1>4, <1>12, <2>2
    <3>2. Byte(t, i, k) = Byte(e, i, k)
      BY <3>1 DEF Byte
    <3> QED BY <2>1, <2>2, <3>2
  <2>3. CASE i = idx
    <3>1. Byte(t, i, k) = IF k \in 1 .. m THEN c[k] ELSE 0
      BY <1>5, <1>10, <1>12, <2>3 DEF Byte
    <3>2. Byte(e, i, k) = IF k <= l THEN e[idx][k] ELSE 0
      BY <1>4, <1>5, <1>7, <2>3 DEF Byte
    <3>3. CASE k \in off + 1 .. end
      <4>1. k \in 1 .. m
        BY <1>6, <1>8, <3>3
      <4> QED BY <1>10, <2>3, <3>1, <3>3, <4>1
    <3>4. CASE k \notin off + 1 .. end
      <4>1. k <= l => k \in 1 .. m
        BY <1>7, <1>8
      <4>2. k \in 1 .. m => c[k] = IF k <= l THEN e[idx][k] ELSE 0
        BY <1>10, <3>4
      <4> QED BY <2>1, <2>3, <3>1, <3>2, <3>4, <4>1, <4>2
    <3> QED BY <3>3, <3>4
  <2> QED BY <2>2, <2>3
<1>16. PICK a \in Nat : a = Size * (idx - 1)
  BY Offsets
<1>17. Total(t) = IF a + end > Total(vols) THEN a + end ELSE Total(vols)
  <2>1. Total(t) = LengthOf(t, all) /\ all \in 1 .. all
    BY <1>5, <1>12 DEF Total
  <2>2. CASE idx < old
    <3>1. all = old /\ old # 0 /\ old \in 1 .. old /\ old # idx
      BY <1>3, <2>2
    <3>2. t[old] = vols[old]
      BY <1>4, <1>12, <2>2, <3>1
    <3>3. Total(t) = Total(vols) /\ Total(vols) = Size * (old - 1) + Len(vols[old])
      BY <1>1, <2>1, <3>1, <3>2 DEF Total, LengthOf
    <3>4. PICK b \in Nat : b = Size * (old - 1)
      BY <3>1, Offsets
    <3>5. a + Size <= b
      BY <1>16, <2>2, <3>1, <3>4, Offsets
    <3>6. PICK n \in Nat : n = Len(vols[old])
      BY <1>1, <3>1, FullIs
    <3>7. Total(vols) = b + n
      BY <3>3, <3>4, <3>6
    <3>8. ~(a + end > b + n)
      BY <3>5, VolumeAssumption
    <3> QED BY <3>3, <3>7, <3>8
  <2>3. CASE idx = old
    <3>1. all = old /\ e[old] = vols[old] /\ old # 0
      BY <1>3, <1>4, <2>3
    <3>2. Total(vols) = a + l /\ Total(t) = a + m
      BY <1>1, <1>7, <1>10, <1>12, <1>16, <2>1, <2>3, <3>1 DEF Total, LengthOf
    <3> QED BY <1>8, <3>2
  <2>4. CASE idx > old
    <3>1. all = idx /\ l = 0 /\ m = end
      BY <1>3, <1>4, <1>6, <1>7, <1>8, <2>4
    <3>2. Total(t) = a + end
      BY <1>10, <1>12, <1>16, <2>1, <3>1 DEF LengthOf
    <3>3. Total(vols) \in Nat /\ Total(vols) <= a
      <4>1. CASE old = 0
        BY <1>1, <4>1 DEF Total
      <4>2. CASE old # 0
        <5>1. old \in 1 .. old /\ old \in Nat \ {0}
          BY <4>2
        <5>2. PICK b \in Nat : b = Size * (old - 1)
          BY <5>1, Offsets
        <5>3. b + Size <= a
          BY <1>16, <2>4, <5>1, <5>2, Offsets
        <5>4. PICK n \in 0 .. Size : n = Len(vols[old])
          BY <1>1, <5>1, FullIs
        <5>5. Total(vols) = b + n
          BY <1>1, <4>2, <5>2, <5>4 DEF Total, LengthOf
        <5> QED BY <5>3, <5>4, <5>5, VolumeAssumption
      <4> QED BY <4>1, <4>2
    <3> QED BY <1>6, <3>2, <3>3
  <2> QED BY <2>2, <2>3, <2>4
<1>18. Size * (idx - 1) + off + Len(data) = a + end
  <2>1. Len(data) \in Nat
    OBVIOUS
  <2> QED BY <1>6, <1>16, <2>1
<1>19. Len(t) = IF idx < Len(vols) THEN Len(vols) ELSE idx
  BY <1>1, <1>3, <1>12
<1> QED BY <1>6, <1>12, <1>14, <1>15, <1>17, <1>18, <1>19 DEF IsPut

\* t is the volumes with data written at a position.
IsWritten(t, at, data) ==
    /\ t \in Seq(Seq(Nat)) /\ Full(t)
    /\ Total(t) = IF at + Len(data) > Total(vols) THEN at + Len(data) ELSE Total(vols)
    /\ \A p \in Nat \ {0} :
          At(t, p) = IF p \in at + 1 .. at + Len(data) THEN data[p - at] ELSE At(vols, p)

LEMMA WrittenIs ==
  ASSUME vols \in Seq(Seq(Nat)), Full(vols), NEW at \in Nat,
         NEW data \in Seq(Nat), Len(data) # 0, (at % Size) + Len(data) <= Size,
         NEW t, t = Written(Ensured((at \div Size) + 1), (at \div Size) + 1, at % Size, data)
  PROVE  /\ IsWritten(t, at, data)
         /\ Len(t) = IF (at \div Size) + 1 < Len(vols) THEN Len(vols) ELSE (at \div Size) + 1
<1>1. PICK q \in Nat, off \in 0 .. Size - 1 :
          q = at \div Size /\ off = at % Size /\ at = Size * q + off
  BY Division
<1>2. PICK idx \in Nat \ {0} : idx = q + 1
  OBVIOUS
<1>3. PICK a \in Nat : a = Size * q
  BY Times
<1>4. PICK n \in Nat \ {0} : n = Len(data)
  OBVIOUS
<1>5. /\ t = Written(Ensured(idx), idx, off, data) /\ off + n <= Size /\ at = a + off
      /\ Size * (idx - 1) = a
  <2>1. t = Written(Ensured(idx), idx, off, data)
    BY <1>1, <1>2
  <2>2. off + n <= Size
    BY <1>1, <1>4
  <2>3. at = a + off
    BY <1>1, <1>3
  <2>4. idx - 1 = q
    BY <1>2
  <2> QED BY <1>3, <2>1, <2>2, <2>3, <2>4
<1>9. IsPut(t, idx, off, data)
  <2>1. Len(data) # 0 /\ off + Len(data) <= Size
    BY <1>4, <1>5
  <2> QED BY <1>5, <2>1, WriteVolumes
<1>6. /\ t \in Seq(Seq(Nat)) /\ Full(t)
      /\ Len(t) = IF idx < Len(vols) THEN Len(vols) ELSE idx
      /\ \A i \in Nat \ {0}, k \in 1 .. Size :
            Byte(t, i, k) = IF i = idx /\ k \in off + 1 .. off + Len(data) THEN data[k - off]
                            ELSE Byte(vols, i, k)
      /\ Total(t) = LET end == Size * (idx - 1) + off + Len(data)
                    IN  IF end > Total(vols) THEN end ELSE Total(vols)
  BY <1>9 DEF IsPut
<1>7. Total(t) = IF at + n > Total(vols) THEN at + n ELSE Total(vols)
  BY <1>4, <1>5, <1>6
<1>8. ASSUME NEW p \in Nat \ {0}
      PROVE  At(t, p) = IF p \in at + 1 .. at + n THEN data[p - at] ELSE At(vols, p)
  <2>1. PICK i \in Nat \ {0}, k \in 1 .. Size :
           i = VolumeOf(p) /\ k = PlaceOf(p) /\ p = Size * (i - 1) + k
    BY PlaceOfByte
  <2>2. At(t, p) = IF i = idx /\ k \in off + 1 .. off + n THEN data[k - off] ELSE At(vols, p)
    BY <1>4, <1>6, <2>1 DEF At
  <2>3. CASE i = idx
    <3>1. p = a + k
      BY <1>5, <2>1, <2>3
    <3>2. p \in at + 1 .. at + n <=> k \in off + 1 .. off + n
      BY <1>5, <3>1
    <3>3. p - at = k - off
      BY <1>5, <3>1
    <3> QED BY <2>2, <2>3, <3>2, <3>3
  <2>4. CASE i # idx
    <3>1. ASSUME p \in at + 1 .. at + n PROVE FALSE
      <4>1. PICK j \in 1 .. Size : p = a + j
        BY <1>5, <3>1, VolumeAssumption
      <4>2. VolumeOf(p) = idx
        BY <1>5, <4>1, PlaceIs
      <4> QED BY <2>1, <2>4, <4>2
    <3> QED BY <2>2, <2>4, <3>1
  <2> QED BY <2>3, <2>4
<1> QED BY <1>1, <1>2, <1>4, <1>6, <1>7, <1>8 DEF IsWritten

\* t is the volumes with their length changed to n.
IsSized(t, n) ==
    /\ t \in Seq(Seq(Nat)) /\ Full(t) /\ Total(t) = n
    /\ \A p \in 1 .. n : At(t, p) = At(vols, p)

\* What set_len makes of the volumes.
Sized(count, n) ==
    [SubSeq(Ensured(count), 1, count) EXCEPT ![count] = F!Resized(@, n - (count - 1) * Size)]

LEMMA SizedIs ==
  ASSUME vols \in Seq(Seq(Nat)), Full(vols), NEW n \in Nat \ {0},
         NEW count \in Nat \ {0}, NEW rest \in 1 .. Size, n = Size * (count - 1) + rest,
         NEW t, t = Sized(count, n)
  PROVE  IsSized(t, n) /\ Len(t) = count
<1>1. PICK e : e = Ensured(count)
  OBVIOUS
<1>2. IsExtended(e, count)
  BY <1>1, EnsuredSame
<1>3. PICK all \in Nat : all = Len(e)
  BY <1>2 DEF IsExtended
<1>4. /\ e \in Seq(Seq(Nat)) /\ Full(e) /\ count <= all
      /\ \A i, k \in Nat \ {0} : Byte(e, i, k) = Byte(vols, i, k)
  BY <1>2, <1>3 DEF IsExtended
<1>5. PICK u : u = SubSeq(e, 1, count)
  OBVIOUS
<1>6. u \in Seq(Seq(Nat)) /\ Len(u) = count /\ \A i \in 1 .. count : u[i] = e[i]
  <2>1. \A i \in 1 .. count : e[i] \in Seq(Nat)
    BY <1>3, <1>4
  <2> QED BY <1>5, <2>1, SubSeqProperties
<1>7. PICK a \in Nat : a = Size * (count - 1)
  BY Offsets
<1>8. n - (count - 1) * Size = rest
  <2>1. (count - 1) * Size = a /\ n = a + rest
    BY <1>7, VolumeAssumption
  <2> QED BY <2>1
<1>9. PICK c : c = F!Resized(u[count], rest)
  OBVIOUS
<1>10. c \in Seq(Nat) /\ Len(c) = rest
       /\ \A k \in 1 .. rest : c[k] = IF k <= Len(u[count]) THEN u[count][k] ELSE 0
  <2>1. PICK s \in Seq(Nat) : s = u[count]
    BY <1>6
  <2>2. rest \in Nat /\ c = F!Resized(s, rest)
    BY <1>9, <2>1, VolumeAssumption
  <2>3. IsResized(c, s, rest)
    BY <2>2, ResizedTo
  <2> QED BY <2>1, <2>3 DEF IsResized
<1>11. t = [u EXCEPT ![count] = c]
  BY <1>1, <1>5, <1>8, <1>9 DEF Sized
<1>12. IsReplaced(t, u, count, c)
  <2>1. IsReplaced([u EXCEPT ![count] = c], u, count, c)
    <3>1. u \in Seq(Seq(Nat)) /\ count \in 1 .. Len(u) /\ c \in Seq(Nat)
      BY <1>6, <1>10
    <3> QED BY <3>1, Replaced
  <2> QED BY <1>11, <2>1
<1>13. /\ t \in Seq(Seq(Nat)) /\ Len(t) = count /\ t[count] = c
       /\ \A i \in 1 .. count : i # count => t[i] = e[i]
  BY <1>6, <1>12 DEF IsReplaced
<1>14. Full(t)
  <2> SUFFICES ASSUME NEW i \in 1 .. count
               PROVE  Len(t[i]) <= Size /\ (i < count => Len(t[i]) = Size)
    BY <1>13 DEF Full
  <2>1. CASE i = count
    BY <1>10, <1>13, <2>1, VolumeAssumption
  <2>2. CASE i # count
    <3>1. i \in 1 .. Len(e) /\ i < Len(e) /\ t[i] = e[i]
      BY <1>3, <1>4, <1>13, <2>2
    <3>2. Len(e[i]) = Size
      BY <1>4, <3>1, FullIs
    <3> QED BY <3>1, <3>2, VolumeAssumption
  <2> QED BY <2>1, <2>2
<1>15. Total(t) = n
  <2>1. Total(t) = Size * (count - 1) + rest
    BY <1>10, <1>13 DEF Total, LengthOf
  <2> QED BY <2>1
<1>16. ASSUME NEW p \in 1 .. n PROVE At(t, p) = At(vols, p)
  <2>1. PICK i \in Nat \ {0}, k \in 1 .. Size :
           i = VolumeOf(p) /\ k = PlaceOf(p) /\ p = Size * (i - 1) + k
    <3>1. p \in Nat \ {0}
      OBVIOUS
    <3> QED BY <3>1, PlaceOfByte
  <2>2. p \in 1 .. LengthOf(t, count) /\ count \in 1 .. Len(t)
    BY <1>13, <1>15 DEF Total
  <2>3. i \in 1 .. count /\ k \in 1 .. Len(t[i])
    BY <1>13, <1>14, <2>1, <2>2, PlaceWithin
  <2>4. Byte(t, i, k) = t[i][k] /\ Byte(e, i, k) = Byte(vols, i, k)
    <3>1. Byte(t, i, k) = t[i][k]
      BY <1>13, <2>3 DEF Byte
    <3>2. k \in Nat \ {0}
      OBVIOUS
    <3> QED BY <1>4, <3>1, <3>2
  <2>5. i \in 1 .. all
    BY <1>4, <2>3
  <2>6. t[i][k] = Byte(e, i, k)
    <3>1. CASE i # count
      <4>1. t[i] = e[i]
        BY <1>13, <2>3, <3>1
      <4> QED BY <1>3, <2>3, <2>5, <4>1 DEF Byte
    <3>2. CASE i = count
      <4>1. u[count] = e[count] /\ t[i] = c /\ k \in 1 .. rest
        BY <1>6, <1>10, <1>13, <2>3, <3>2
      <4>2. t[i][k] = IF k <= Len(e[i]) THEN e[i][k] ELSE 0
        BY <1>10, <3>2, <4>1
      <4>3. Len(e[i]) \in Nat
        BY <1>3, <1>4, <2>5
      <4>4. k <= Len(e[i]) <=> k \in 1 .. Len(e[i])
        BY <4>3
      <4> QED BY <1>3, <2>5, <4>2, <4>4 DEF Byte
    <3> QED BY <3>1, <3>2
  <2> QED BY <2>1, <2>4, <2>6 DEF At
<1> QED BY <1>13, <1>14, <1>15, <1>16 DEF IsSized

-----------------------------------------------------------------------------
(***************************************************************************)
(* What the steps of writing do to the whole, however it is cut.           *)
(***************************************************************************)
LEMMA FrontIs ==
  ASSUME NEW s \in Seq(Nat), NEW n \in 1 .. Len(s)
  PROVE  SubSeq(s, 1, n) \in Seq(Nat) /\ Len(SubSeq(s, 1, n)) = n
OBVIOUS

\* What a write takes of a buffer.
Portion(buf) == SubSeq(buf, 1, Min({Len(buf), Room}))

\* It is something, from the front of it, within a volume.
LEMMA Taken ==
  ASSUME TypeOK, NEW buf \in Buffers, NEW data, data = Portion(buf)
  PROVE  /\ data \in Seq(Nat) /\ Len(data) \in 1 .. Len(buf) /\ data = SubSeq(buf, 1, Len(data))
         /\ split => (pos % Size) + Len(data) <= Size
<1>1. buf \in Seq(Nat) /\ Len(buf) \in Nat \ {0}
  BY VolumeAssumption
<1>2. pos \in Nat
  BY DEF TypeOK
<1>3. PICK off \in 0 .. Size - 1 : off = pos % Size
  BY <1>2, Division
<1>4. MaxLen \in Nat \ {0}
  <2>1. PICK m \in Nat : MaxVolumes = m + 1
    BY VolumeAssumption
  <2>2. Size * m \in Nat /\ Size * (m + 1) = Size * m + Size
    BY Times
  <2> QED BY <2>1, <2>2, VolumeAssumption DEF MaxLen
<1>5. PICK room \in Nat \ {0} : room = Room /\ (split => off + room <= Size)
  BY <1>3, <1>4, VolumeAssumption DEF Room
<1>6. PICK l \in Nat \ {0} : l = Len(buf)
  BY <1>1
<1>7. PICK n \in Nat \ {0} : n = Min({l, room}) /\ n <= l /\ n <= room
  <2>1. Min({l, room}) = IF l < room THEN l ELSE room
    BY MaxMin
  <2> QED BY <2>1
<1>8. data = SubSeq(buf, 1, n)
  BY <1>5, <1>6, <1>7 DEF Portion
<1>9. data \in Seq(Nat) /\ Len(data) = n
  <2>1. n \in 1 .. Len(buf)
    BY <1>6, <1>7
  <2> QED BY <1>1, <1>8, <2>1, FrontIs
<1>10. Len(data) \in 1 .. Len(buf)
  BY <1>6, <1>7, <1>9
<1>11. split => (pos % Size) + Len(data) <= Size
  <2>1. split => off + n <= Size
    BY <1>5, <1>7, VolumeAssumption
  <2> QED BY <1>3, <1>9, <2>1
<1> QED BY <1>8, <1>9, <1>10, <1>11

\* What comes of a step that makes c of the whole and cuts it into few volumes.
Becomes(c) == Cut' /\ Len(vols') <= MaxVolumes /\ FlattenSeq(vols') = c

\* In volumes a write does what it does to a file.
LEMMA WriteSplit ==
  ASSUME TypeOK, Cut, split = TRUE, split' = TRUE, NEW data \in Seq(Nat), Len(data) # 0,
         (pos % Size) + Len(data) <= Size, pos + Len(data) <= MaxLen,
         vols' = Written(Ensured((pos \div Size) + 1), (pos \div Size) + 1, pos % Size, data)
  PROVE  Becomes(F!Patched(FlattenSeq(vols), pos, data))
<1>1. vols \in Seq(Seq(Nat)) /\ Full(vols) /\ pos \in Nat /\ Len(vols) \in Nat
  BY DEF Cut, TypeOK
<1>2. PICK t : t = vols'
  OBVIOUS
<1>3. /\ IsWritten(t, pos, data)
      /\ Len(t) = IF (pos \div Size) + 1 < Len(vols) THEN Len(vols) ELSE (pos \div Size) + 1
  <2>1. t = Written(Ensured((pos \div Size) + 1), (pos \div Size) + 1, pos % Size, data)
    BY <1>2
  <2> QED BY <1>1, <2>1, WrittenIs
<1>4. PICK w \in Seq(Nat) : w = FlattenSeq(vols)
  BY <1>1, WholeBytes
<1>5. Len(w) = Total(vols) /\ \A p \in Nat \ {0} : At(vols, p) = IF p <= Len(w) THEN w[p] ELSE 0
  BY <1>1, <1>4, WholeBytes
<1>6. PICK m \in Nat : m = IF pos + Len(data) > Len(w) THEN pos + Len(data) ELSE Len(w)
  BY <1>1
<1>7. PICK c : c = F!Patched(w, pos, data)
  OBVIOUS
<1>8. IsPatch(c, w, pos, data, m)
  BY <1>1, <1>6, <1>7, PatchedIs
<1>9. c \in Seq(Nat) /\ Len(c) = m
      /\ \A k \in 1 .. m : c[k] = IF k \in pos + 1 .. pos + Len(data) THEN data[k - pos]
                                  ELSE IF k <= Len(w) THEN w[k] ELSE 0
  BY <1>8 DEF IsPatch
<1>10. t \in Seq(Seq(Nat)) /\ Full(t) /\ Total(t) = m
       /\ \A p \in Nat \ {0} :
             At(t, p) = IF p \in pos + 1 .. pos + Len(data) THEN data[p - pos] ELSE At(vols, p)
  BY <1>3, <1>5, <1>6 DEF IsWritten
<1>11. \A p \in 1 .. Len(c) : c[p] = At(t, p)
  <2> SUFFICES ASSUME NEW p \in 1 .. m PROVE c[p] = At(t, p)
    BY <1>9
  <2>1. p \in Nat \ {0}
    OBVIOUS
  <2> QED BY <1>5, <1>9, <1>10, <2>1
<1>12. FlattenSeq(t) = c
  BY <1>9, <1>10, <1>11, WholeEqual
<1>13. Len(t) <= MaxVolumes
  <2>0. PICK a \in Nat : a = pos
    BY <1>1
  <2>1. PICK q \in Nat, off \in Nat : q = pos \div Size /\ pos = Size * q + off
    <3>1. a \div Size \in Nat /\ a % Size \in 0 .. Size - 1 /\ a = Size * (a \div Size) + (a % Size)
      BY Division
    <3> QED BY <2>0, <3>1
  <2>2. Size * q \in Nat /\ Len(data) \in Nat \ {0} /\ MaxVolumes \in Nat
    BY <2>1, Times, VolumeAssumption
  <2>3. Size * q < Size * MaxVolumes
    <3>1. PICK b \in Nat, x \in Nat, n \in Nat \ {0} :
             b = Size * q /\ x = Size * MaxVolumes /\ n = Len(data)
      BY <2>2, Times
    <3>2. b + off + n <= x
      BY <2>1, <3>1 DEF MaxLen
    <3> QED BY <3>1, <3>2
  <2>4. q < MaxVolumes
    BY <2>2, <2>3, Times
  <2>5. Len(vols) <= MaxVolumes
    BY DEF TypeOK
  <2> QED BY <1>3, <2>1, <2>2, <2>4, <2>5
<1>14. Cut'
  BY <1>2, <1>10 DEF Cut, Full
<1> QED BY <1>2, <1>4, <1>7, <1>12, <1>13, <1>14 DEF Becomes

\* One file is there already.
LEMMA EnsuredOne ==
  ASSUME vols \in Seq(Seq(Nat)), Len(vols) = 1, NEW n \in 0 .. 1
  PROVE  Ensured(n) = vols
<1>1. Max({n, Len(vols)}) = 1
  <2>1. PICK a \in Nat, b \in Nat : a = n /\ b = 1
    OBVIOUS
  <2>2. Max({a, b}) = IF a < b THEN b ELSE a
    BY MaxMin
  <2> QED BY <2>1, <2>2
<1>2. Ensured(n) = [i \in 1 .. 1 |-> vols[i]]
  BY <1>1 DEF Ensured
<1> QED BY <1>2

\* A single file is written as a file is.
LEMMA WriteOne ==
  ASSUME TypeOK, Cut, ~split, ~split', NEW data \in Seq(Nat),
         vols' = Written(Ensured(1), 1, pos, data)
  PROVE  Becomes(F!Patched(FlattenSeq(vols), pos, data))
<1>1. vols \in Seq(Seq(Nat)) /\ Len(vols) = 1 /\ pos \in Nat
  BY DEF Cut, TypeOK
<1>2. FlattenSeq(vols) = vols[1] /\ vols[1] \in Seq(Nat)
  BY WholeIs
<1>3. PICK e : e = Ensured(1)
  OBVIOUS
<1>4. e \in Seq(Seq(Nat)) /\ Len(e) = 1 /\ e[1] = vols[1]
  <2>1. 1 \in 0 .. 1
    OBVIOUS
  <2>2. e = vols
    BY <1>1, <1>3, <2>1, EnsuredOne
  <2> QED BY <1>1, <2>2
<1>5. PICK c : c = F!Patched(vols[1], pos, data)
  OBVIOUS
<1>6. c \in Seq(Nat)
  <2>1. PICK w \in Seq(Nat) : w = vols[1]
    BY <1>2
  <2>2. PICK m \in Nat : m = IF pos + Len(data) > Len(w) THEN pos + Len(data) ELSE Len(w)
    BY <1>1
  <2>3. IsPatch(c, w, pos, data, m)
    BY <1>1, <1>5, <2>1, <2>2, PatchedIs
  <2> QED BY <2>3 DEF IsPatch
<1>7. PICK t : t = vols'
  OBVIOUS
<1>8. t = [e EXCEPT ![1] = c]
  BY <1>3, <1>4, <1>5, <1>7 DEF Written
<1>9. IsReplaced([e EXCEPT ![1] = c], e, 1, c)
  <2>1. 1 \in 1 .. Len(e)
    BY <1>4
  <2> QED BY <1>4, <1>6, <2>1, Replaced
<1>10. t \in Seq(Seq(Nat)) /\ Len(t) = 1 /\ t[1] = c
  BY <1>4, <1>8, <1>9 DEF IsReplaced
<1>11. FlattenSeq(t) = c
  BY <1>10, FlattenOne
<1>12. Cut' /\ Len(t) <= MaxVolumes
  <2>1. vols' \in Seq(Seq(Nat)) /\ Len(vols') = 1
    BY <1>7, <1>10
  <2>2. Cut'
    BY <2>1 DEF Cut
  <2> QED BY <1>10, <2>2, VolumeAssumption
<1> QED BY <1>2, <1>5, <1>7, <1>11, <1>12 DEF Becomes

\* A write does to the whole what a write of a file does, split or not.
LEMMA WriteWhole ==
  ASSUME TypeOK, Cut, Write
  PROVE  \E buf \in Buffers : \E n \in 1 .. Len(buf) :
            /\ Becomes(F!Patched(FlattenSeq(vols), pos, SubSeq(buf, 1, n)))
            /\ pos' = pos + n /\ pos' \in 0 .. MaxLen
<1>1. split' = split /\ split \in BOOLEAN /\ pos \in Nat
  BY DEF Write, Writing, TypeOK
<1>2. PICK buf \in Buffers : \E data :
         /\ data = Portion(buf)
         /\ pos + Len(data) <= MaxLen /\ pos' = pos + Len(data)
         /\ vols' = Written(Ensured(IF split THEN (pos \div Size) + 1 ELSE 1),
                            IF split THEN (pos \div Size) + 1 ELSE 1,
                            IF split THEN pos % Size ELSE pos, data)
  BY DEF Write, Written, Portion
<1>3. PICK data :
         /\ data = Portion(buf)
         /\ pos + Len(data) <= MaxLen /\ pos' = pos + Len(data)
         /\ vols' = Written(Ensured(IF split THEN (pos \div Size) + 1 ELSE 1),
                            IF split THEN (pos \div Size) + 1 ELSE 1,
                            IF split THEN pos % Size ELSE pos, data)
  BY <1>2
<1>4. /\ data \in Seq(Nat) /\ Len(data) \in 1 .. Len(buf) /\ data = SubSeq(buf, 1, Len(data))
      /\ split => (pos % Size) + Len(data) <= Size
  BY <1>3, Taken
<1>5. Becomes(F!Patched(FlattenSeq(vols), pos, data))
  <2>0. Len(data) # 0
    BY <1>4
  <2>1. CASE split = TRUE
    <3>1. split' = TRUE /\ (pos % Size) + Len(data) <= Size /\ pos + Len(data) <= MaxLen
      BY <1>1, <1>3, <1>4, <2>1
    <3>2. vols' = Written(Ensured((pos \div Size) + 1), (pos \div Size) + 1, pos % Size, data)
      BY <1>3, <2>1
    <3> QED BY <1>4, <2>0, <2>1, <3>1, <3>2, WriteSplit
  <2>2. CASE ~split
    BY <1>1, <1>3, <1>4, <2>2, WriteOne
  <2> QED BY <1>1, <2>1, <2>2
<1>6. pos' \in 0 .. MaxLen
  <2>1. PICK n \in Nat : n = Len(data)
    <3>1. Len(data) \in Nat
      BY <1>4
    <3> QED BY <3>1
  <2>2. MaxLen \in Nat
    BY Times, VolumeAssumption DEF MaxLen
  <2> QED BY <1>1, <1>3, <2>1, <2>2
<1> QED BY <1>3, <1>4, <1>5, <1>6

\* How many volumes a length takes, and how long the last one is.
LEMMA VolumesForIs ==
  ASSUME NEW n \in 1 .. MaxLen
  PROVE  /\ VolumesFor(n) \in 1 .. MaxVolumes
         /\ \E rest \in 1 .. Size : n = Size * (VolumesFor(n) - 1) + rest
<1>1. PICK a \in Nat : a = n - 1
  OBVIOUS
<1>2. PICK q \in Nat, r \in 0 .. Size - 1 : a = Size * q + r
  BY Division
<1>3. PICK b \in Nat : b = Size * q /\ Size * (q + 1) = b + Size
  BY Times
<1>4. VolumesFor(n) = q + 1
  <2>1. (Size * (q + 1) + r) \div Size = q + 1
    <3>1. q + 1 \in Nat
      OBVIOUS
    <3> QED BY <3>1, DivisionUnique
  <2>2. n + Size - 1 = Size * (q + 1) + r
    BY <1>1, <1>2, <1>3, VolumeAssumption
  <2> QED BY <2>1, <2>2 DEF VolumesFor
<1>5. q < MaxVolumes
  <2>1. PICK m \in Nat : m = Size * MaxVolumes
    BY Times, VolumeAssumption
  <2>2. b < m
    BY <1>1, <1>2, <1>3, <2>1, VolumeAssumption DEF MaxLen
  <2>3. MaxVolumes <= q => m <= b
    BY <1>3, <2>1, Times, VolumeAssumption
  <2> QED BY <2>2, <2>3, VolumeAssumption
<1>6. VolumesFor(n) \in 1 .. MaxVolumes
  BY <1>4, <1>5, VolumeAssumption
<1>7. \E rest \in 1 .. Size : n = Size * (VolumesFor(n) - 1) + rest
  <2>1. PICK rest \in 1 .. Size : rest = r + 1
    BY VolumeAssumption
  <2>2. VolumesFor(n) - 1 = q
    BY <1>4
  <2>3. n = b + rest
    BY <1>1, <1>2, <1>3, <2>1
  <2>4. n = Size * (VolumesFor(n) - 1) + rest
    BY <1>3, <2>2, <2>3
  <2> QED BY <2>4
<1> QED BY <1>6, <1>7

LEMMA NoVolumes == <<>> \in Seq(Seq(Nat)) /\ Len(<<>>) = 0 /\ DOMAIN <<>> = {}
OBVIOUS

\* A new length does to the whole what a new length of a file does.
LEMMA SetLenSplit ==
  ASSUME TypeOK, Cut, split = TRUE, split' = TRUE, NEW n \in 0 .. MaxLen,
         vols' = IF n = 0 THEN <<>> ELSE Sized(VolumesFor(n), n)
  PROVE  Becomes(F!Resized(FlattenSeq(vols), n))
<1>1. vols \in Seq(Seq(Nat)) /\ Full(vols)
  BY DEF Cut
<1>2. PICK w \in Seq(Nat) : w = FlattenSeq(vols)
  BY <1>1, WholeBytes
<1>3. Len(w) = Total(vols) /\ \A p \in Nat \ {0} : At(vols, p) = IF p <= Len(w) THEN w[p] ELSE 0
  BY <1>1, <1>2, WholeBytes
<1>4. PICK c : c = F!Resized(w, n)
  OBVIOUS
<1>5. c \in Seq(Nat) /\ Len(c) = n /\ \A k \in 1 .. n : c[k] = IF k <= Len(w) THEN w[k] ELSE 0
  <2>1. IsResized(c, w, n)
    BY <1>4, ResizedTo
  <2> QED BY <2>1 DEF IsResized
<1>6. CASE n = 0
  <2>1. c = <<>> /\ vols' = <<>>
    BY <1>5, <1>6
  <2>2. FlattenSeq(vols') = c
    BY <2>1, FlattenNone
  <2>3. Cut' /\ Len(vols') <= MaxVolumes
    <3>1. vols' \in Seq(Seq(Nat)) /\ Len(vols') = 0 /\ DOMAIN vols' = {}
      BY <2>1, NoVolumes
    <3>2. Cut'
      BY <3>1 DEF Cut, Full
    <3> QED BY <3>1, <3>2, VolumeAssumption
  <2> QED BY <1>2, <1>4, <2>2, <2>3 DEF Becomes
<1>7. CASE n # 0
  <2>1. n \in 1 .. MaxLen
    BY <1>7
  <2>2. PICK count \in 1 .. MaxVolumes, rest \in 1 .. Size :
           count = VolumesFor(n) /\ n = Size * (count - 1) + rest
    BY <2>1, VolumesForIs
  <2>3. PICK t : t = vols'
    OBVIOUS
  <2>4. t = Sized(count, n)
    BY <1>7, <2>2, <2>3
  <2>5. IsSized(t, n) /\ Len(t) = count
    <3>1. n \in Nat \ {0} /\ count \in Nat \ {0}
      BY <2>1
    <3> QED BY <1>1, <2>2, <2>4, <3>1, SizedIs
  <2>6. t \in Seq(Seq(Nat)) /\ Full(t) /\ Total(t) = n /\ \A p \in 1 .. n : At(t, p) = At(vols, p)
    BY <2>5 DEF IsSized
  <2>7. \A p \in 1 .. Len(c) : c[p] = At(t, p)
    <3> SUFFICES ASSUME NEW p \in 1 .. n PROVE c[p] = At(t, p)
      BY <1>5
    <3>1. p \in Nat \ {0}
      OBVIOUS
    <3> QED BY <1>3, <1>5, <2>6, <3>1
  <2>8. FlattenSeq(t) = c
    BY <1>5, <2>6, <2>7, WholeEqual
  <2>9. Cut' /\ Len(vols') <= MaxVolumes
    <3>1. vols' \in Seq(Seq(Nat)) /\ Full(t) /\ Len(vols') = count
      BY <2>3, <2>5, <2>6
    <3>2. Cut'
      BY <2>3, <3>1 DEF Cut, Full
    <3> QED BY <2>2, <3>1, <3>2
  <2> QED BY <1>2, <1>4, <2>3, <2>8, <2>9 DEF Becomes
<1> QED BY <1>6, <1>7

LEMMA SetLenWhole ==
  ASSUME TypeOK, Cut, SetLen
  PROVE  \E n \in 0 .. MaxLen : Becomes(F!Resized(FlattenSeq(vols), n))
<1>1. split' = split /\ split \in BOOLEAN
  BY DEF SetLen, Writing, TypeOK
<1>2. PICK n \in 0 .. MaxLen :
         vols' = IF ~split THEN << F!Resized(vols[1], n) >>
                 ELSE IF n = 0 THEN <<>> ELSE Sized(VolumesFor(n), n)
  BY DEF SetLen, Sized
<1>3. CASE split = TRUE
  <2>1. vols' = IF n = 0 THEN <<>> ELSE Sized(VolumesFor(n), n)
    BY <1>2, <1>3
  <2> QED BY <1>1, <1>3, <2>1, SetLenSplit
<1>4. CASE ~split
  <2>1. PICK w \in Seq(Nat) : w = vols[1] /\ FlattenSeq(vols) = w
    BY <1>4, WholeIs
  <2>2. PICK c : c = F!Resized(w, n)
    OBVIOUS
  <2>3. c \in Seq(Nat)
    <3>1. IsResized(c, w, n)
      BY <2>2, ResizedTo
    <3> QED BY <3>1 DEF IsResized
  <2>4. PICK t : t = vols'
    OBVIOUS
  <2>5. t = <<c>>
    BY <1>2, <1>4, <2>1, <2>2, <2>4
  <2>6. t \in Seq(Seq(Nat)) /\ Len(t) = 1 /\ t[1] = c
    BY <2>3, <2>5
  <2>7. FlattenSeq(t) = c
    BY <2>6, FlattenOne
  <2>8. Cut' /\ Len(t) <= MaxVolumes
    <3>1. vols' \in Seq(Seq(Nat)) /\ Len(vols') = 1 /\ ~split'
      BY <1>1, <1>4, <2>4, <2>6
    <3>2. Cut'
      BY <3>1 DEF Cut
    <3> QED BY <2>6, <3>2, VolumeAssumption
  <2> QED BY <2>1, <2>2, <2>4, <2>7, <2>8 DEF Becomes
<1> QED BY <1>1, <1>3, <1>4

\* Volumes of which only some could be prepared are cut evenly too.
LEMMA FailCut ==
  ASSUME TypeOK, Cut, Fail
  PROVE  Cut' /\ Len(vols') <= MaxVolumes
<1>1. split' = split /\ split \in BOOLEAN /\ vols \in Seq(Seq(Nat)) /\ Len(vols) <= MaxVolumes
  BY DEF Fail, Writing, TypeOK, Cut
<1>2. PICK n : n \in 0 .. (IF split THEN MaxVolumes ELSE 1) /\ vols' = Ensured(n)
  BY DEF Fail
<1>3. CASE split = TRUE
  <2>1. n \in Nat /\ n <= MaxVolumes /\ Full(vols)
    BY <1>2, <1>3, VolumeAssumption DEF Cut
  <2>2. PICK t : t = vols'
    OBVIOUS
  <2>3. IsExtended(t, n)
    BY <1>1, <1>2, <2>1, <2>2, EnsuredSame
  <2>4. t \in Seq(Seq(Nat)) /\ Full(t) /\ Len(t) = IF n < Len(vols) THEN Len(vols) ELSE n
    BY <2>3 DEF IsExtended
  <2>5. Len(t) <= MaxVolumes
    BY <1>1, <2>1, <2>4
  <2>6. Cut'
    BY <1>1, <1>3, <2>2, <2>4 DEF Cut, Full
  <2> QED BY <2>2, <2>5, <2>6
<1>4. CASE ~split
  <2>1. n \in 0 .. 1 /\ Len(vols) = 1
    BY <1>2, <1>4 DEF Cut
  <2>2. vols' = vols
    BY <1>1, <1>2, <2>1, EnsuredOne
  <2> QED BY <1>1, <2>2 DEF Cut, Full
<1> QED BY <1>1, <1>3, <1>4

-----------------------------------------------------------------------------
(***************************************************************************)
(* The names, and the invariant: one lemma for every way of going on.      *)
(***************************************************************************)
\* A step of writing leaves the archive whole, with its files listed.
LEMMA WritingKeeps ==
  ASSUME IInv, Writing, Cut', Len(vols') <= MaxVolumes, pos' \in 0 .. MaxLen, broken' \in BOOLEAN,
         tmp' = DOMAIN vols', live' = DOMAIN vols', litter' \in BOOLEAN, litter' => litter \/ split
  PROVE  IInv'
<1> USE DEF Writing, commitVars
<1>1. phase = "writing" /\ TypeOK /\ WritingWhere /\ WholeSet /\ NothingLeft
  BY DEF IInv
<1>2. DOMAIN vols' \subseteq Volumes
  <2>1. DOMAIN vols' = 1 .. Len(vols') /\ Len(vols') \in Nat
    BY DEF Cut
  <2> QED BY <2>1, VolumeAssumption DEF Volumes
<1>3. TypeOK'
  BY <1>1, <1>2 DEF TypeOK
<1>4. WritingWhere'
  BY <1>1 DEF WritingWhere
<1>5. MovingWhere' /\ UndoingWhere' /\ DroppingWhere'
  BY <1>1 DEF MovingWhere, UndoingWhere, DroppingWhere
<1>6. WholeSet'
  BY <1>1 DEF WritingWhere, WholeSet
<1>7. NothingLeft'
  BY <1>1 DEF NothingLeft, TempsListed, EndsClean, LitterOfGivenUp
<1> QED BY <1>3, <1>4, <1>5, <1>6, <1>7 DEF IInv

\* No volume of a single file is dropped while it is written.
LEMMA OneStays ==
  ASSUME Cut, Cut', split' = split, GiveUp(DOMAIN vols \ DOMAIN vols')
  PROVE  litter' => litter \/ split
<1>1. ASSUME ~split PROVE DOMAIN vols \ DOMAIN vols' = {}
  <2>1. DOMAIN vols = 1 .. 1 /\ DOMAIN vols' = 1 .. 1
    BY <1>1 DEF Cut
  <2> QED BY <2>1
<1> QED BY <1>1 DEF GiveUp

LEMMA WriteInv == IInv /\ Write => IInv'
<1> SUFFICES ASSUME IInv, Write PROVE IInv'
  OBVIOUS
<1>1. TypeOK /\ Cut
  BY DEF IInv
<1>2. Cut' /\ Len(vols') <= MaxVolumes /\ pos' \in 0 .. MaxLen
  BY <1>1, WriteWhole DEF Becomes
<1>3. Writing /\ tmp' = DOMAIN vols' /\ live' = DOMAIN vols' /\ litter' \in BOOLEAN /\ broken' \in BOOLEAN
  BY <1>1 DEF Write, Track, GiveUp, TypeOK
<1>4. litter' => litter \/ split
  BY <1>1, <1>2, <1>3, OneStays DEF Write, Track, Writing
<1> QED BY <1>2, <1>3, <1>4, WritingKeeps

LEMMA SetLenInv == IInv /\ SetLen => IInv'
<1> SUFFICES ASSUME IInv, SetLen PROVE IInv'
  OBVIOUS
<1>1. TypeOK /\ Cut
  BY DEF IInv
<1>2. Cut' /\ Len(vols') <= MaxVolumes
  BY <1>1, SetLenWhole DEF Becomes
<1>3. /\ Writing /\ tmp' = DOMAIN vols' /\ live' = DOMAIN vols'
      /\ litter' \in BOOLEAN /\ broken' \in BOOLEAN /\ pos' \in 0 .. MaxLen
  BY <1>1 DEF SetLen, Track, GiveUp, TypeOK
<1>4. litter' => litter \/ split
  BY <1>1, <1>2, <1>3, OneStays DEF SetLen, Track, Writing
<1> QED BY <1>2, <1>3, <1>4, WritingKeeps

LEMMA FailInv == IInv /\ Fail => IInv'
<1> SUFFICES ASSUME IInv, Fail PROVE IInv'
  OBVIOUS
<1>1. TypeOK /\ Cut
  BY DEF IInv
<1>2. Cut' /\ Len(vols') <= MaxVolumes
  BY <1>1, FailCut
<1>3. /\ Writing /\ tmp' = DOMAIN vols' /\ live' = DOMAIN vols'
      /\ litter' \in BOOLEAN /\ broken' \in BOOLEAN /\ pos' \in 0 .. MaxLen
  BY <1>1 DEF Fail, GiveUp, TypeOK
<1>4. litter' => litter \/ split
  BY DEF Fail, GiveUp
<1> QED BY <1>2, <1>3, <1>4, WritingKeeps

LEMMA SeekInv == IInv /\ Seek => IInv'
<1> SUFFICES ASSUME IInv, Seek PROVE IInv'
  OBVIOUS
<1>1. TypeOK /\ Cut /\ WritingWhere
  BY DEF IInv
<1>2. Writing /\ UNCHANGED <<vols, broken, tmp, live, litter>> /\ pos' \in 0 .. MaxLen
  BY DEF Seek
<1>3. Cut' /\ Len(vols') <= MaxVolumes
  BY <1>1, <1>2 DEF Cut, Full, TypeOK, Writing
<1>4. tmp' = DOMAIN vols' /\ live' = DOMAIN vols' /\ litter' \in BOOLEAN /\ broken' \in BOOLEAN
  BY <1>1, <1>2 DEF WritingWhere, Writing, TypeOK
<1>5. litter' => litter \/ split
  BY <1>2
<1> QED BY <1>2, <1>3, <1>4, <1>5, WritingKeeps

\* Nothing and an old file are not volumes, and are two different things.
LEMMA NotVolumes == Nothing \notin Volumes /\ Old \notin Volumes /\ Nothing # Old
BY VolumeAssumption DEF Nothing, Old, Volumes

LEMMA WasIs == \A n : Was(n) \notin Volumes /\ (Was(n) = Old <=> n \in before)
BY NotVolumes DEF Was

\* No two volumes have the same name.
LEMMA FinalIs ==
  ASSUME TypeOK, Cut, NEW i \in DOMAIN vols
  PROVE  /\ Final(i) \in Names /\ i \in Volumes /\ i \in Nat \ {0}
         /\ \A j \in DOMAIN vols : Final(i) = Final(j) => i = j
<1>1. PICK n \in Nat : n = Len(vols) /\ DOMAIN vols = 1 .. n /\ n <= MaxVolumes
  BY DEF TypeOK, Cut
<1>2. i \in 1 .. n /\ i \in Volumes /\ i \in Names /\ i \in Nat \ {0} /\ Target \in Names
  BY <1>1, VolumeAssumption DEF Names, Volumes, Target
<1>3. Final(i) = IF n = 1 THEN Target ELSE i
  BY <1>1 DEF Final
<1>4. \A j \in DOMAIN vols : Final(i) = Final(j) => i = j
  <2> SUFFICES ASSUME NEW j \in 1 .. n, Final(i) = Final(j) PROVE i = j
    BY <1>1
  <2>1. CASE n = 1
    BY <1>2, <2>1
  <2>2. CASE n # 1
    BY <1>1, <1>3, <2>2 DEF Final
  <2> QED BY <2>1, <2>2
<1>5. Final(i) \in Names
  BY <1>2, <1>3
<1> QED BY <1>2, <1>4, <1>5

\* The step leaves the volumes as they are.
LEMMA CutSame == Cut /\ UNCHANGED <<split, vols>> => Cut'
BY DEF Cut, Full

LEMMA CommitInv == IInv /\ Commit => IInv'
<1> SUFFICES ASSUME IInv, Commit PROVE IInv'
  OBVIOUS
<1>1. phase = "writing" /\ TypeOK /\ Cut /\ WritingWhere /\ WholeSet /\ NothingLeft
  BY DEF IInv, Commit
<1>2. UNCHANGED <<split, vols, broken, moved, committed, tmp, live, litter>> /\ pos' = 0
  BY DEF Commit
<1>3. PICK b \in SUBSET Names :
         /\ before' = b
         /\ disk' = [n \in Names |-> IF n \in b THEN Old ELSE Nothing]
         /\ \/ vols = <<>> /\ phase' = "dropping" /\ outcome' = "failed"
            \/ vols # <<>> /\ Stale(b) /\ phase' = "dropping" /\ outcome' = "stale"
            \/ vols # <<>> /\ ~Stale(b) /\ phase' = "moving" /\ UNCHANGED outcome
  BY DEF Commit
<1>4. \A n \in Names : disk'[n] = IF n \in before' THEN Old ELSE Nothing
  BY <1>3
<1>5. TypeOK'
  <2>1. 0 \in 0 .. MaxLen
    <3>1. MaxLen \in Nat
      BY Times, VolumeAssumption DEF MaxLen
    <3> QED BY <3>1
  <2>2. disk' \in [Names -> Volumes \cup {Nothing, Old}] /\ before' \subseteq Names
    BY <1>3
  <2>3. phase' \in Phases /\ outcome' \in Outcomes
    BY <1>1, <1>3 DEF Phases, Outcomes, TypeOK
  <2> QED BY <1>1, <1>2, <2>1, <2>2, <2>3 DEF TypeOK
<1>6. Cut'
  BY <1>1, <1>2, CutSame
<1>7. MovingWhere'
  <2> SUFFICES ASSUME phase' = "moving" PROVE MovingWhere'
    BY DEF MovingWhere
  <2>1. outcome' = "none" /\ vols' # <<>> /\ committed' = {} /\ moved' = {}
    BY <1>1, <1>2, <1>3 DEF WritingWhere
  <2>2. ~Stale(before)'
    BY <1>2, <1>3 DEF Stale
  <2>3. live' = DOMAIN vols' /\ tmp' = DOMAIN vols' \ moved'
    BY <1>1, <1>2, <2>1 DEF WritingWhere
  <2>4. Cardinality(moved') = 0 /\ moved' = 1 .. 0 /\ 0 <= Len(vols')
    BY <1>1, <1>2, <2>1, FS_EmptySet DEF Cut
  <2>5. \A n \in Names : disk'[n] = Was(n)'
    BY <1>4 DEF Was
  <2> QED BY <2>1, <2>2, <2>3, <2>4, <2>5 DEF MovingWhere
<1>8. DroppingWhere'
  <2> SUFFICES ASSUME phase' = "dropping" PROVE DroppingWhere'
    BY DEF DroppingWhere
  <2>1. \A n \in Names : disk'[n] = Was(n)' /\ disk'[n] \notin Volumes
    BY <1>4, NotVolumes DEF Was
  <2>2. outcome' \in {"failed", "stale"} /\ tmp' \subseteq live'
    BY <1>1, <1>2, <1>3 DEF WritingWhere
  <2> QED BY <2>1, <2>2 DEF DroppingWhere
<1>9. WritingWhere' /\ UndoingWhere' /\ WholeSet'
  BY <1>1, <1>3 DEF WritingWhere, UndoingWhere, WholeSet
<1>10. NothingLeft'
  BY <1>1, <1>2, <1>3 DEF NothingLeft, TempsListed, EndsClean, LitterOfGivenUp, WritingWhere
<1> QED BY <1>5, <1>6, <1>7, <1>8, <1>9, <1>10 DEF IInv

LEMMA AbandonInv == IInv /\ Abandon => IInv'
<1> SUFFICES ASSUME IInv, Abandon PROVE IInv'
  OBVIOUS
<1>1. phase = "writing" /\ TypeOK /\ Cut /\ WritingWhere /\ WholeSet /\ NothingLeft
  BY DEF IInv, Abandon
<1>2. /\ UNCHANGED <<split, vols, broken, before, disk, moved, committed, tmp, live, litter>>
      /\ pos' = 0 /\ phase' = "dropping" /\ outcome' = "abandoned"
  BY DEF Abandon
<1>3. TypeOK'
  <2>1. 0 \in 0 .. MaxLen
    <3>1. MaxLen \in Nat
      BY Times, VolumeAssumption DEF MaxLen
    <3> QED BY <3>1
  <2> QED BY <1>1, <1>2, <2>1 DEF TypeOK, Phases, Outcomes
<1>4. Cut'
  BY <1>1, <1>2, CutSame
<1>5. DroppingWhere'
  <2>1. \A n \in Names : disk'[n] = Was(n)' /\ disk'[n] \notin Volumes
    BY <1>1, <1>2, NotVolumes DEF Was, WritingWhere
  <2> QED BY <1>1, <1>2, <2>1 DEF DroppingWhere, WritingWhere
<1>6. WritingWhere' /\ MovingWhere' /\ UndoingWhere' /\ WholeSet'
  BY <1>2 DEF WritingWhere, MovingWhere, UndoingWhere, WholeSet
<1>7. NothingLeft'
  BY <1>1, <1>2 DEF NothingLeft, TempsListed, EndsClean, LitterOfGivenUp
<1> QED BY <1>3, <1>4, <1>5, <1>6, <1>7 DEF IInv

\* The next volume that gets its name.
LEMMA NextIs ==
  ASSUME TypeOK, Cut, MovingWhere, phase = "moving"
  PROVE  /\ Cardinality(moved) \in Nat /\ moved = 1 .. Cardinality(moved)
         /\ Next1 \in Nat \ {0} /\ Next1 \notin moved /\ moved \subseteq DOMAIN vols
         /\ moved \cup {Next1} = 1 .. Next1 /\ Cardinality(moved \cup {Next1}) = Next1
         /\ Next1 <= Len(vols) => Next1 \in DOMAIN vols
         /\ Next1 > Len(vols) => moved = DOMAIN vols
<1>1. IsFiniteSet(moved)
  <2>1. IsFiniteSet(Volumes)
    BY FS_Interval, VolumeAssumption DEF Volumes
  <2> QED BY <2>1, FS_Subset DEF TypeOK
<1>2. PICK k \in Nat : k = Cardinality(moved)
  BY <1>1, FS_CardinalityType
<1>3. moved = 1 .. k /\ Next1 = k + 1 /\ k <= Len(vols)
  BY <1>2 DEF MovingWhere, Next1
<1>4. DOMAIN vols = 1 .. Len(vols) /\ Len(vols) \in Nat
  BY DEF Cut
<1>5. moved \cup {Next1} = 1 .. (k + 1)
  BY <1>3
<1>6. Cardinality(1 .. (k + 1)) = k + 1
  <2>1. 1 \in Int /\ k + 1 \in Int /\ ~(1 > k + 1)
    OBVIOUS
  <2>2. Cardinality(1 .. (k + 1)) = (k + 1) - 1 + 1
    BY <2>1, FS_Interval
  <2> QED BY <2>2
<1>7. Next1 <= Len(vols) => Next1 \in DOMAIN vols
  BY <1>3, <1>4
<1>8. Next1 > Len(vols) => moved = DOMAIN vols
  <2>1. Next1 > Len(vols) => k = Len(vols)
    <3>1. PICK l \in Nat : l = Len(vols)
      BY <1>4
    <3> QED BY <1>3, <3>1
  <2> QED BY <1>3, <1>4, <2>1
<1>9. moved \subseteq DOMAIN vols /\ Next1 \notin moved /\ Next1 \in Nat \ {0}
  BY <1>3, <1>4
<1> QED BY <1>2, <1>3, <1>5, <1>6, <1>7, <1>8, <1>9

LEMMA MoveInv == IInv /\ Move => IInv'
<1> SUFFICES ASSUME IInv, Move PROVE IInv'
  OBVIOUS
<1>1. phase = "moving" /\ TypeOK /\ Cut /\ MovingWhere /\ NothingLeft
  BY DEF IInv, Move
<1>2. PICK m : m = Next1
  OBVIOUS
<1>3. /\ m <= Len(vols) /\ disk' = [disk EXCEPT ![Final(m)] = m]
      /\ tmp' = tmp \ {m} /\ moved' = moved \cup {m}
      /\ UNCHANGED <<phase, outcome, split, vols, pos, broken, before, committed, live, litter>>
  BY <1>2 DEF Move, writeVars
<1>4. /\ m \in Nat \ {0} /\ m \notin moved /\ m \in DOMAIN vols /\ moved \subseteq DOMAIN vols
      /\ moved' = 1 .. m /\ Cardinality(moved') = m
  BY <1>1, <1>2, <1>3, NextIs
<1>5. Final(m) \in Names /\ m \in Volumes /\ \A j \in DOMAIN vols : Final(m) = Final(j) => m = j
  BY <1>1, <1>4, FinalIs
<1>6. disk \in [Names -> Volumes \cup {Nothing, Old}]
  BY <1>1 DEF TypeOK
<1>7. disk'[Final(m)] = m /\ \A n \in Names : n # Final(m) => disk'[n] = disk[n]
  BY <1>3, <1>5, <1>6
<1>8. TypeOK'
  <2>1. disk' \in [Names -> Volumes \cup {Nothing, Old}]
    BY <1>3, <1>5, <1>6
  <2> QED BY <1>1, <1>3, <1>5, <2>1 DEF TypeOK
<1>9. Cut'
  BY <1>1, <1>3, CutSame
<1>10. \A i : Final(i)' = Final(i) /\ Was(i)' = Was(i)
  BY <1>3 DEF Final, Was
<1>11. MovingWhere'
  <2>1. outcome' = "none" /\ vols' # <<>> /\ committed' = {} /\ live' = DOMAIN vols'
    BY <1>1, <1>3 DEF MovingWhere
  <2>2. ~Stale(before)'
    BY <1>1, <1>3 DEF MovingWhere, Stale
  <2>3. tmp' = DOMAIN vols' \ moved'
    BY <1>1, <1>3 DEF MovingWhere
  <2>4. \A i \in moved' : disk'[Final(i)'] = i
    <3> SUFFICES ASSUME NEW i \in moved' PROVE disk'[Final(i)] = i
      BY <1>10
    <3>1. CASE i = m
      BY <1>7, <3>1
    <3>2. CASE i # m
      <4>1. i \in moved /\ i \in DOMAIN vols
        BY <1>3, <1>4, <3>2
      <4>2. Final(i) \in Names /\ Final(i) # Final(m)
        BY <1>1, <1>5, <3>2, <4>1, FinalIs
      <4> QED BY <1>1, <1>7, <4>1, <4>2 DEF MovingWhere
    <3> QED BY <3>1, <3>2
  <2>5. \A n \in Names : (\A i \in moved' : n # Final(i)') => disk'[n] = Was(n)'
    <3> SUFFICES ASSUME NEW n \in Names, \A i \in moved' : n # Final(i) PROVE disk'[n] = Was(n)
      BY <1>10
    <3>1. n # Final(m) /\ \A i \in moved : n # Final(i)
      BY <1>3
    <3> QED BY <1>1, <1>7, <3>1 DEF MovingWhere
  <2>6. Cardinality(moved') <= Len(vols') /\ moved' = 1 .. Cardinality(moved')
    BY <1>3, <1>4
  <2> QED BY <2>1, <2>2, <2>3, <2>4, <2>5, <2>6 DEF MovingWhere
<1>12. WritingWhere' /\ UndoingWhere' /\ DroppingWhere' /\ WholeSet'
  BY <1>1, <1>3 DEF WritingWhere, UndoingWhere, DroppingWhere, WholeSet, MovingWhere
<1>13. NothingLeft'
  BY <1>1, <1>3 DEF NothingLeft, TempsListed, EndsClean, LitterOfGivenUp
<1> QED BY <1>8, <1>9, <1>11, <1>12, <1>13 DEF IInv

LEMMA MoveFailsInv == IInv /\ MoveFails => IInv'
<1> SUFFICES ASSUME IInv, MoveFails PROVE IInv'
  OBVIOUS
<1>1. phase = "moving" /\ TypeOK /\ Cut /\ MovingWhere /\ NothingLeft
  BY DEF IInv, MoveFails
<1>2. /\ phase' = "undoing" /\ outcome' = "failed" /\ Next1 <= Len(vols)
      /\ UNCHANGED <<split, vols, pos, broken, before, disk, moved, committed, tmp, live, litter>>
  BY DEF MoveFails, writeVars
<1>3. moved \subseteq DOMAIN vols /\ moved = 1 .. Cardinality(moved) /\ Cardinality(moved) \in Nat
  BY <1>1, NextIs
<1>4. TypeOK'
  BY <1>1, <1>2 DEF TypeOK, Phases, Outcomes
<1>5. Cut'
  BY <1>1, <1>2, CutSame
<1>6. \A i : Final(i)' = Final(i) /\ Was(i)' = Was(i)
  BY <1>2 DEF Final, Was
<1>7. UndoingWhere'
  <2>1. outcome' = "failed" /\ vols' # <<>> /\ moved' \subseteq DOMAIN vols' /\ moved' \cap committed' = {}
    BY <1>1, <1>2, <1>3 DEF MovingWhere
  <2>2. live' = DOMAIN vols' \ committed' /\ tmp' = live' \ moved'
    BY <1>1, <1>2 DEF MovingWhere
  <2>3. ASSUME NEW n \in Names, disk[n] \in Volumes
        PROVE  disk[n] \in moved /\ n = Final(disk[n])
    <3>1. ~(\A i \in moved : n # Final(i))
      BY <1>1, <2>3, WasIs DEF MovingWhere
    <3>2. PICK i \in moved : n = Final(i)
      BY <3>1
    <3> QED BY <1>1, <3>2 DEF MovingWhere
  <2>4. ASSUME Len(vols) = 1 PROVE moved = {} /\ \A n \in Names : disk[n] = Was(n)
    <3>1. Cardinality(moved) = 0
      BY <1>2, <1>3, <2>4 DEF Next1
    <3>2. moved = {}
      BY <1>3, <3>1
    <3> QED BY <1>1, <3>2 DEF MovingWhere
  <2> QED BY <1>2, <1>6, <2>1, <2>2, <2>3, <2>4 DEF UndoingWhere
<1>8. WritingWhere' /\ MovingWhere' /\ DroppingWhere' /\ WholeSet'
  BY <1>2 DEF WritingWhere, MovingWhere, DroppingWhere, WholeSet
<1>9. NothingLeft'
  BY <1>1, <1>2 DEF NothingLeft, TempsListed, EndsClean, LitterOfGivenUp
<1> QED BY <1>4, <1>5, <1>7, <1>8, <1>9 DEF IInv

\* When all have their names, the new volumes are together and none follows.
LEMMA AcceptInv == IInv /\ Accept => IInv'
<1> SUFFICES ASSUME IInv, Accept PROVE IInv'
  OBVIOUS
<1>1. phase = "moving" /\ TypeOK /\ Cut /\ MovingWhere /\ NothingLeft
  BY DEF IInv, Accept
<1>2. /\ phase' = "end" /\ outcome' = "ok" /\ committed' = DOMAIN vols /\ live' = {}
      /\ UNCHANGED <<split, vols, pos, broken, before, disk, moved, tmp, litter>>
  BY DEF Accept, writeVars
<1>3. moved = DOMAIN vols
  BY <1>1, NextIs DEF Accept
<1>4. PICK n \in Nat \ {0} : n = Len(vols) /\ DOMAIN vols = 1 .. n /\ n <= MaxVolumes
  <2>1. Len(vols) \in Nat /\ DOMAIN vols = 1 .. Len(vols) /\ vols # <<>> /\ Len(vols) <= MaxVolumes
    BY <1>1 DEF Cut, MovingWhere, TypeOK
  <2>2. Len(vols) # 0
    BY <1>1, <2>1 DEF Cut
  <2> QED BY <2>1, <2>2
<1>5. DOMAIN vols \subseteq Volumes /\ Nothing \notin Volumes
  BY <1>4, NotVolumes, VolumeAssumption DEF Volumes
<1>6. TypeOK'
  BY <1>1, <1>2, <1>5 DEF TypeOK, Phases, Outcomes
<1>7. Cut'
  BY <1>1, <1>2, CutSame
<1>8. ASSUME n = 1 PROVE WholeSet'
  <2>1. disk[Target] = 1
    BY <1>1, <1>3, <1>4, <1>8 DEF MovingWhere, Final
  <2>2. ASSUME split = TRUE PROVE Consecutive = {}
    <3>1. 1 \notin before
      BY <1>1, <1>4, <1>8, <2>2 DEF MovingWhere, Stale
    <3>2. 1 \in Names /\ Target # 1
      BY VolumeAssumption DEF Names, Target
    <3>3. disk[1] = Nothing
      BY <1>1, <1>3, <1>4, <1>8, <3>1, <3>2 DEF MovingWhere, Final, Was
    <3>4. \A i \in Names \ {Target} : 1 \in 1 .. i
      BY VolumeAssumption DEF Names, Target
    <3> QED BY <3>3, <3>4 DEF Consecutive
  <2>3. split' => Consecutive' = {}
    BY <1>1, <1>2, <2>2 DEF TypeOK, Consecutive
  <2> QED BY <1>2, <1>4, <1>8, <2>1, <2>3 DEF WholeSet
<1>9. ASSUME n # 1 PROVE WholeSet'
  <2>1. \A i \in 1 .. n : disk[i] = i
    BY <1>1, <1>3, <1>4, <1>9 DEF MovingWhere, Final
  <2>2. split = TRUE
    BY <1>1, <1>4, <1>9 DEF Cut, TypeOK
  <2>3. n + 1 \notin before
    BY <1>1, <1>4, <1>9, <2>2 DEF MovingWhere, Stale
  <2>4. n + 1 \in Names /\ \A i \in 1 .. n : n + 1 # i
    BY <1>4, VolumeAssumption DEF Names
  <2>5. disk[n + 1] = Nothing
    BY <1>1, <1>3, <1>4, <1>9, <2>3, <2>4 DEF MovingWhere, Final, Was
  <2>6. ASSUME NEW i \in 1 .. n PROVE i \in Consecutive
    <3>1. i \in Names \ {Target}
      BY <1>4, VolumeAssumption DEF Names, Target
    <3>2. \A k \in 1 .. i : k \in 1 .. n /\ k \in Volumes
      BY <1>4, <1>5
    <3> QED BY <1>5, <2>1, <3>1, <3>2 DEF Consecutive
  <2>7. ASSUME NEW i \in Consecutive PROVE i \in 1 .. n
    <3>1. i \in Nat \ {0} /\ \A k \in 1 .. i : disk[k] # Nothing
      BY VolumeAssumption DEF Consecutive, Names, Target
    <3>2. n + 1 \notin 1 .. i
      BY <2>5, <3>1
    <3> QED BY <3>1, <3>2
  <2>8. Consecutive = 1 .. n
    BY <2>6, <2>7
  <2>9. Consecutive' = Consecutive
    BY <1>2 DEF Consecutive
  <2> QED BY <1>2, <1>4, <1>9, <2>1, <2>8, <2>9 DEF WholeSet
<1>10. WholeSet'
  BY <1>8, <1>9
<1>11. WritingWhere' /\ MovingWhere' /\ UndoingWhere' /\ DroppingWhere'
  BY <1>2 DEF WritingWhere, MovingWhere, UndoingWhere, DroppingWhere
<1>12. NothingLeft'
  <2>1. tmp' = {} /\ live' = {} /\ outcome' = "ok"
    BY <1>1, <1>2, <1>3 DEF MovingWhere
  <2>2. litter' => split'
    BY <1>1, <1>2 DEF NothingLeft, LitterOfGivenUp
  <2> QED BY <1>2, <2>1, <2>2 DEF NothingLeft, TempsListed, EndsClean, LitterOfGivenUp
<1> QED BY <1>6, <1>7, <1>10, <1>11, <1>12 DEF IInv

\* A set of numbers that is not empty has a least one.
LEMMA LeastIs ==
  ASSUME NEW S, NEW n \in Nat, S \subseteq 1 .. n, S # {}
  PROVE  Min(S) \in S
<1>1. ASSUME \A x \in S : ~(\A y \in S : x <= y) PROVE FALSE
  <2> DEFINE Q == {i \in 1 .. n : \A j \in 1 .. i : j \notin S}
  <2>1. PICK k \in 1 .. n : k \in S
    OBVIOUS
  <2>2. 1 \in Q
    <3>1. 1 \notin S
      BY <1>1
    <3>2. 1 \in 1 .. n /\ \A j \in 1 .. 1 : j = 1
      BY <2>1
    <3> QED BY <3>1, <3>2
  <2>3. \A i \in 2 .. n : i - 1 \in Q => i \in Q
    <3> SUFFICES ASSUME NEW i \in 2 .. n, i - 1 \in Q PROVE i \in Q
      OBVIOUS
    <3>1. \A j \in 1 .. (i - 1) : j \notin S
      OBVIOUS
    <3>2. \A y \in S : i <= y
      BY <3>1
    <3>3. i \notin S
      BY <1>1, <3>2
    <3>4. \A j \in 1 .. i : j = i \/ j \in 1 .. (i - 1)
      OBVIOUS
    <3> QED BY <3>1, <3>3, <3>4
  <2> HIDE DEF Q
  <2>4. \A i \in 1 .. n : i \in Q
    BY <2>2, <2>3, NumberInduction
  <2>5. k \in Q /\ k \in 1 .. k
    BY <2>4
  <2> QED BY <2>1, <2>5 DEF Q
<1> QED BY <1>1 DEF Min

LEMMA UndoInv == IInv /\ Undo => IInv'
<1> SUFFICES ASSUME IInv, Undo PROVE IInv'
  OBVIOUS
<1>1. phase = "undoing" /\ TypeOK /\ Cut /\ UndoingWhere /\ NothingLeft
  BY DEF IInv, Undo
<1>2. PICK i : i = Min(moved)
  OBVIOUS
<1>3. /\ moved' = moved \ {i}
      /\ \/ /\ disk' = [disk EXCEPT ![Final(i)] = Nothing]
            /\ tmp' = tmp \cup {i} /\ committed' = committed /\ live' = live
         \/ /\ committed' = committed \cup {i} /\ live' = live \ {i}
            /\ disk' = disk /\ tmp' = tmp
      /\ UNCHANGED <<phase, outcome, split, vols, pos, broken, before, litter>>
  BY <1>2 DEF Undo, writeVars
<1>4. i \in moved
  <2>1. moved \subseteq 1 .. MaxVolumes /\ moved # {} /\ MaxVolumes \in Nat
    BY <1>1, VolumeAssumption DEF TypeOK, Volumes, Undo
  <2> QED BY <1>2, <2>1, LeastIs
<1>5. i \in DOMAIN vols /\ i \notin committed /\ i \in live
  BY <1>1, <1>4 DEF UndoingWhere
<1>6. Final(i) \in Names /\ i \in Volumes
  BY <1>1, <1>5, FinalIs
<1>7. disk \in [Names -> Volumes \cup {Nothing, Old}]
  BY <1>1 DEF TypeOK
<1>8. TypeOK'
  <2>1. disk' \in [Names -> Volumes \cup {Nothing, Old}]
    BY <1>3, <1>7
  <2> QED BY <1>1, <1>3, <1>6, <2>1 DEF TypeOK
<1>9. Cut'
  BY <1>1, <1>3, CutSame
<1>10. \A j : Final(j)' = Final(j)
  BY <1>3 DEF Final
<1>11. UndoingWhere'
  <2>1. outcome' = "failed" /\ vols' # <<>> /\ moved' \subseteq DOMAIN vols' /\ moved' \cap committed' = {}
    BY <1>1, <1>3 DEF UndoingWhere
  <2>2. live' = DOMAIN vols' \ committed' /\ tmp' = live' \ moved'
    BY <1>1, <1>3, <1>4, <1>5 DEF UndoingWhere
  <2>3. ASSUME NEW n \in Names, disk'[n] \in Volumes
        PROVE  disk'[n] \in moved' \cup committed' /\ n = Final(disk'[n])
    <3>1. CASE disk' = disk /\ committed' = committed \cup {i}
      BY <1>1, <1>3, <2>3, <3>1 DEF UndoingWhere
    <3>2. CASE disk' = [disk EXCEPT ![Final(i)] = Nothing] /\ committed' = committed
      <4>1. n # Final(i) /\ disk'[n] = disk[n]
        BY <1>6, <1>7, <2>3, <3>2, NotVolumes
      <4>2. disk[n] \in moved \cup committed /\ n = Final(disk[n])
        BY <1>1, <2>3, <4>1 DEF UndoingWhere
      <4> QED BY <1>3, <3>2, <4>1, <4>2
    <3> QED BY <1>3, <3>1, <3>2
  <2>4. Len(vols) # 1
    BY <1>1, <1>4 DEF UndoingWhere
  <2> QED BY <1>3, <1>10, <2>1, <2>2, <2>3, <2>4 DEF UndoingWhere
<1>12. WritingWhere' /\ MovingWhere' /\ DroppingWhere' /\ WholeSet'
  BY <1>1, <1>3 DEF WritingWhere, MovingWhere, DroppingWhere, WholeSet, UndoingWhere
<1>13. NothingLeft'
  BY <1>1, <1>3, <1>11 DEF NothingLeft, TempsListed, EndsClean, LitterOfGivenUp, UndoingWhere
<1> QED BY <1>8, <1>9, <1>11, <1>12, <1>13 DEF IInv

LEMMA UndoneInv == IInv /\ Undone => IInv'
<1> SUFFICES ASSUME IInv, Undone PROVE IInv'
  OBVIOUS
<1>1. phase = "undoing" /\ moved = {} /\ TypeOK /\ Cut /\ UndoingWhere /\ NothingLeft
  BY DEF IInv, Undone
<1>2. /\ phase' = "dropping"
      /\ UNCHANGED <<split, vols, pos, broken, before, disk, moved, committed, outcome, tmp, live, litter>>
  BY DEF Undone, writeVars, commitVars
<1>3. TypeOK'
  BY <1>1, <1>2 DEF TypeOK, Phases
<1>4. Cut'
  BY <1>1, <1>2, CutSame
<1>5. \A n : Was(n)' = Was(n)
  BY <1>2 DEF Was
<1>6. DroppingWhere'
  BY <1>1, <1>2, <1>5 DEF DroppingWhere, UndoingWhere
<1>7. WritingWhere' /\ MovingWhere' /\ UndoingWhere' /\ WholeSet'
  BY <1>1, <1>2 DEF WritingWhere, MovingWhere, UndoingWhere, WholeSet
<1>8. NothingLeft'
  BY <1>1, <1>2 DEF NothingLeft, TempsListed, EndsClean, LitterOfGivenUp
<1> QED BY <1>3, <1>4, <1>6, <1>7, <1>8 DEF IInv

LEMMA DropInv == IInv /\ Drop => IInv'
<1> SUFFICES ASSUME IInv, Drop PROVE IInv'
  OBVIOUS
<1>1. phase = "dropping" /\ TypeOK /\ Cut /\ DroppingWhere
  BY DEF IInv, Drop
<1>2. /\ phase' = "end" /\ tmp' = {} /\ live' = {} /\ litter' \in BOOLEAN
      /\ UNCHANGED <<split, vols, pos, broken, before, disk, moved, committed, outcome>>
  BY <1>1 DEF Drop, GiveUp, writeVars, commitVars, TypeOK
<1>3. TypeOK'
  BY <1>1, <1>2 DEF TypeOK, Phases
<1>4. Cut'
  BY <1>1, <1>2, CutSame
<1>5. WritingWhere' /\ MovingWhere' /\ UndoingWhere' /\ DroppingWhere' /\ WholeSet'
  BY <1>1, <1>2 DEF WritingWhere, MovingWhere, UndoingWhere, DroppingWhere, WholeSet
<1>6. NothingLeft'
  <2>1. ASSUME outcome = "stale" \/ Len(vols) = 1 PROVE before = {n \in Names : disk[n] = Old}
    BY <1>1, <2>1, WasIs DEF DroppingWhere, TypeOK
  <2>2. \A n \in Names : disk[n] \in Volumes => disk[n] \in committed
    BY <1>1 DEF DroppingWhere
  <2>3. phase' = "end" /\ outcome' # "ok"
    BY <1>1, <1>2 DEF DroppingWhere
  <2> QED BY <1>2, <2>1, <2>2, <2>3 DEF NothingLeft, TempsListed, EndsClean, LitterOfGivenUp
<1> QED BY <1>3, <1>4, <1>5, <1>6 DEF IInv

LEMMA InitInv == Init => IInv
<1> SUFFICES ASSUME Init PROVE IInv
  OBVIOUS
<1>1. vols \in Seq(Seq(Nat)) /\ (split => Len(vols) = 0) /\ (~split => Len(vols) = 1)
  <2>1. <<>> \in Seq(Seq(Nat)) /\ << <<>> >> \in Seq(Seq(Nat)) /\ Len(<<>>) = 0 /\ Len(<< <<>> >>) = 1
    <3>1. \A s \in Seq(Nat) : <<s>> \in Seq(Seq(Nat)) /\ Len(<<s>>) = 1
      OBVIOUS
    <3>2. <<>> \in Seq(Nat)
      BY EmptySeq
    <3> QED BY <3>1, <3>2, NoVolumes
  <2> QED BY <2>1 DEF Init
<1>2. Cut
  BY <1>1 DEF Cut, Full
<1>3. Len(vols) <= MaxVolumes /\ DOMAIN vols \subseteq Volumes
  <2>1. PICK n \in Nat : n = Len(vols) /\ DOMAIN vols = 1 .. n
    BY <1>1
  <2>2. n = 0 \/ n = 1
    BY <1>1, <2>1
  <2> QED BY <2>1, <2>2, VolumeAssumption DEF Volumes
<1>4. 0 \in 0 .. MaxLen
  <2>1. MaxLen \in Nat
    BY Times, VolumeAssumption DEF MaxLen
  <2> QED BY <2>1
<1>5. TypeOK
  BY <1>3, <1>4 DEF Init, TypeOK, Phases, Outcomes
<1>6. WritingWhere /\ MovingWhere /\ UndoingWhere /\ DroppingWhere /\ WholeSet /\ NothingLeft
  BY DEF Init, WritingWhere, MovingWhere, UndoingWhere, DroppingWhere, WholeSet, NothingLeft,
         TempsListed, EndsClean, LitterOfGivenUp
<1> QED BY <1>2, <1>5, <1>6 DEF IInv

LEMMA StutterInv == IInv /\ UNCHANGED vars => IInv'
<1> SUFFICES ASSUME IInv, UNCHANGED vars PROVE IInv'
  OBVIOUS
<1> USE DEF vars, writeVars, commitVars
<1>1. TypeOK' /\ Cut'
  BY CutSame DEF IInv, TypeOK
<1>2. \A i : Final(i)' = Final(i) /\ Was(i)' = Was(i)
  BY DEF Final, Was
<1>3. WritingWhere' /\ DroppingWhere' /\ UndoingWhere'
  BY <1>2 DEF IInv, WritingWhere, DroppingWhere, UndoingWhere
<1>4. MovingWhere'
  BY <1>2 DEF IInv, MovingWhere, Stale
<1>5. WholeSet' /\ NothingLeft'
  BY DEF IInv, WholeSet, Consecutive, NothingLeft, TempsListed, EndsClean, LitterOfGivenUp
<1> QED BY <1>1, <1>3, <1>4, <1>5 DEF IInv

\* Every step keeps the invariant.
THEOREM Invariance == Spec => []IInv
<1>1. IInv /\ [Next]_vars => IInv'
  BY WriteInv, SeekInv, SetLenInv, FailInv, CommitInv, AbandonInv, MoveInv, MoveFailsInv,
     AcceptInv, UndoInv, UndoneInv, DropInv, StutterInv DEF Next
<1> QED BY InitInv, <1>1, PTL DEF Spec

\* The types of TypeOK hold for any volume size, any number of volumes and any buffers.
THEOREM TypeCorrect == Spec => []TypeOK
<1>1. IInv => TypeOK
  BY DEF IInv
<1> QED BY <1>1, Invariance, PTL

\* However the writer jumps about and changes the length, the volumes are cut
\* where they have to be and their length is known; a set that is told to be
\* done is the new one, all of it, with no old volume behind it.
THEOREM CutIsWhole == Spec => []CutWhole
<1>1. IInv => CutWhole
  BY CutIsEven DEF IInv, CutWhole
<1> QED BY <1>1, Invariance, PTL

\* A temporary file can be named to the user until somebody has tried to remove
\* it; what is given up leaves nothing but volumes that could not be renamed back
\* and files that could not be removed, and what is complete leaves nothing unless
\* a volume was dropped on the way.
THEOREM NothingIsLeft == Spec => []NothingLeft
<1>1. IInv => NothingLeft
  BY DEF IInv
<1> QED BY <1>1, Invariance, PTL

-----------------------------------------------------------------------------
(***************************************************************************)
(* The refinement: the writer sees a file.                                 *)
(***************************************************************************)
flatVars == <<FlattenSeq(vols), pos, broken>>

LEMMA FlatFirst == Init => F!FlatInit
<1> SUFFICES ASSUME Init PROVE FlattenSeq(vols) = <<>>
  BY DEF Init, F!FlatInit
<1>1. CASE vols = <<>>
  BY <1>1, FlattenNone
<1>2. CASE vols = << <<>> >>
  <2>1. \A s \in Seq(Nat) : <<s>> \in Seq(Seq(Nat)) /\ Len(<<s>>) = 1 /\ <<s>>[1] = s
    OBVIOUS
  <2>2. <<>> \in Seq(Nat)
    BY EmptySeq
  <2>3. vols \in Seq(Seq(Nat)) /\ Len(vols) = 1 /\ vols[1] = <<>>
    BY <1>2, <2>1, <2>2
  <2> QED BY <2>3, FlattenOne
<1> QED BY <1>1, <1>2 DEF Init

\* What has failed stays so: nothing is promised any more.
LEMMA BrokenStays ==
  ASSUME IInv, Next, broken = TRUE
  PROVE  F!FlatNext
<1>1. broken' = TRUE
  BY DEF Next, Write, Seek, SetLen, Fail, Commit, Abandon, Move, MoveFails, Accept, Undo, Undone, Drop,
         writeVars
<1> QED BY <1>1 DEF F!FlatNext, F!FlatFail

LEMMA FlatWrites ==
  ASSUME IInv, Write, broken # TRUE
  PROVE  F!FlatNext
<1>1. TypeOK /\ Cut
  BY DEF IInv
<1>2. PICK buf \in Buffers : \E n \in 1 .. Len(buf) :
         /\ Becomes(F!Patched(FlattenSeq(vols), pos, SubSeq(buf, 1, n)))
         /\ pos' = pos + n
  BY <1>1, WriteWhole
<1>3. PICK n \in 1 .. Len(buf) :
         /\ Becomes(F!Patched(FlattenSeq(vols), pos, SubSeq(buf, 1, n)))
         /\ pos' = pos + n
  BY <1>2
<1>4. FlattenSeq(vols)' = F!Patched(FlattenSeq(vols), pos, SubSeq(buf, 1, n))
  BY <1>3 DEF Becomes
<1>5. broken' = broken /\ ~broken
  BY <1>1 DEF Write, TypeOK
<1>6. F!FlatWrite
  BY <1>3, <1>4, <1>5 DEF F!FlatWrite
<1> QED BY <1>5, <1>6 DEF F!FlatNext

LEMMA FlatSetsLen ==
  ASSUME IInv, SetLen, broken # TRUE
  PROVE  F!FlatNext
<1>1. TypeOK /\ Cut
  BY DEF IInv
<1>2. PICK n \in 0 .. MaxLen : Becomes(F!Resized(FlattenSeq(vols), n))
  BY <1>1, SetLenWhole
<1>3. FlattenSeq(vols)' = F!Resized(FlattenSeq(vols), n)
  BY <1>2 DEF Becomes
<1>4. Len(FlattenSeq(vols)') = n
  <2>1. PICK w \in Seq(Nat) : w = FlattenSeq(vols)
    BY <1>1, WholeIs
  <2>2. PICK c : c = F!Resized(w, n)
    OBVIOUS
  <2>3. IsResized(c, w, n)
    BY <2>2, ResizedTo
  <2> QED BY <1>3, <2>1, <2>2, <2>3 DEF IsResized
<1>5. broken' = broken /\ pos' = pos /\ ~broken
  BY <1>1 DEF SetLen, TypeOK
<1>6. F!FlatSetLen
  BY <1>3, <1>4, <1>5 DEF F!FlatSetLen
<1> QED BY <1>5, <1>6 DEF F!FlatNext

LEMMA FlatSeeks ==
  ASSUME TypeOK, UNCHANGED <<vols, broken>>, pos' \in Nat, broken # TRUE
  PROVE  F!FlatNext
<1>1. F!FlatSeek
  BY DEF F!FlatSeek
<1>2. ~broken
  BY DEF TypeOK
<1> QED BY <1>1, <1>2 DEF F!FlatNext

LEMMA FlatStep ==
  ASSUME IInv, [Next]_vars
  PROVE  [F!FlatNext]_flatVars
<1>1. TypeOK
  BY DEF IInv
<1>2. CASE UNCHANGED <<vols, pos, broken>>
  BY <1>2 DEF flatVars
<1>3. CASE broken = TRUE /\ Next
  BY <1>3, BrokenStays
<1>4. CASE broken # TRUE /\ Next
  <2>1. CASE Write
    BY <1>4, <2>1, FlatWrites
  <2>2. CASE SetLen
    BY <1>4, <2>2, FlatSetsLen
  <2>3. CASE Fail
    BY <2>3 DEF Fail, F!FlatNext, F!FlatFail
  <2>4. CASE Seek
    <3>1. pos' \in Nat /\ UNCHANGED <<vols, broken>>
      BY <2>4 DEF Seek
    <3> QED BY <1>1, <1>4, <3>1, FlatSeeks
  <2>5. CASE Commit \/ Abandon
    <3>1. pos' = 0 /\ UNCHANGED <<vols, broken>>
      BY <2>5 DEF Commit, Abandon
    <3> QED BY <1>1, <1>4, <3>1, FlatSeeks
  <2>6. CASE Move \/ MoveFails \/ Accept \/ Undo \/ Undone \/ Drop
    <3>1. UNCHANGED <<vols, pos, broken>>
      BY <2>6 DEF Move, MoveFails, Accept, Undo, Undone, Drop, writeVars
    <3> QED BY <1>2, <3>1
  <2> QED BY <1>4, <2>1, <2>2, <2>3, <2>4, <2>5, <2>6 DEF Next
<1> QED BY <1>2, <1>3, <1>4 DEF vars, writeVars

\* Cut into volumes or not, what is written is what a file would hold: each
\* write, each seek and each change of length does to the bytes of all volumes
\* together what it does to those of a file.
THEOREM SeenAsFile == Spec => SameAsFile
<1>1. IInv /\ [Next]_vars => [F!FlatNext]_flatVars
  BY FlatStep
<1> QED BY FlatFirst, <1>1, Invariance, PTL DEF Spec, SameAsFile, F!FlatSpec, flatVars

=============================================================================
