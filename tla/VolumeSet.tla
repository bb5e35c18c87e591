------------------------------ MODULE VolumeSet ------------------------------
(***************************************************************************)
(* The place an archive is written to and the way it gets its name:        *)
(* VolumeSet, TmpPath, OutSink and commit_replace of                       *)
(* crates/zipmania-archive/src/outfile.rs, and the names of volumes.rs.    *)
(*                                                                         *)
(* An archive is written into temporary files beside the target, into one  *)
(* or, if it is split, into one for every volume; when it is complete they *)
(* are renamed one after the other, and renamed back when one of them      *)
(* cannot be.  Each call of the file system may fail.  What other programs *)
(* have put beside the target matters from commit on: it is chosen there.  *)
(***************************************************************************)
EXTENDS Naturals, Sequences, FiniteSets, SequencesExt, FiniteSetsExt

CONSTANTS
    Size,        \* VolumeSet.size, in bytes
    MaxVolumes,  \* bound: how many volumes an archive has
    Buffers      \* the byte strings that are handed over for writing

ASSUME VolumeAssumption ==
    /\ Size \in Nat \ {0}
    /\ MaxVolumes \in Nat \ {0}
    /\ Buffers \subseteq Seq(Nat) \ {<<>>}    \* write() of nothing does nothing

Volumes == 1 .. MaxVolumes
MaxLen  == Size * MaxVolumes

\* The names of finished files: the target itself is 0, volume_name(target, i) is i.
Target == 0
Names  == 0 .. MaxVolumes + 1

\* What a name stands for, if not for one of our volumes.
Nothing == 0
Old     == MaxVolumes + 1

VARIABLES
    split,      \* OutSink::Volumes, otherwise OutSink::File
    vols,       \* the bytes of the temporary files
    pos,        \* VolumeSet.pos, or the position of the file
    broken,     \* an operation has failed: the archive is going to be given up
    phase,      \* how far the archive is
    before,     \* the names that exist before anything is renamed
    disk,       \* what each name stands for: nothing, an old file or a volume
    moved,      \* the volumes that have been renamed and not been renamed back
    tmp,        \* the volumes whose temporary file exists
    live,       \* LIVE_TMP: the volumes whose temporary file is listed
    committed,  \* TmpPath.committed
    litter,     \* a temporary file exists that nothing lists any more
    outcome     \* what the writer of the archive is told

writeVars  == <<split, vols, pos, broken>>
commitVars == <<before, disk, moved, committed, outcome>>
vars == <<writeVars, phase, commitVars, tmp, live, litter>>

Phases   == {"writing", "moving", "undoing", "dropping", "end"}
Outcomes == {"none", "ok", "stale", "failed", "abandoned"}

Init ==
    /\ split \in BOOLEAN
    /\ vols = IF split THEN <<>> ELSE << <<>> >>
    /\ pos = 0 /\ broken = FALSE
    /\ phase = "writing"
    /\ before = {} /\ disk = [n \in Names |-> Nothing]
    /\ moved = {} /\ committed = {} /\ outcome = "none"
    /\ tmp = DOMAIN vols /\ live = DOMAIN vols /\ litter = FALSE

-----------------------------------------------------------------------------
(* Writing. *)

F == INSTANCE FlatFile WITH content <- FlattenSeq(vols)

\* len(): only the last file is asked for its length.
Length ==
    IF vols = <<>> THEN 0
    ELSE (IF split THEN (Len(vols) - 1) * Size ELSE 0) + Len(vols[Len(vols)])

\* Mutant of Ensured: the volume that was the last one is not filled up.
EnsuredUnfilled(n) ==
    [i \in 1 .. Max({n, Len(vols)}) |->
        IF i <= Len(vols) THEN vols[i] ELSE F!Resized(<<>>, IF i < n THEN Size ELSE 0)]

\* ensure(): at least n volumes, all but the last one filled up with zeros.
Ensured(n) ==
    [i \in 1 .. Max({n, Len(vols)}) |->
        IF i < Len(vols) \/ n <= Len(vols) THEN vols[i]
        ELSE F!Resized(IF i = Len(vols) THEN vols[i] ELSE <<>>, IF i < n THEN Size ELSE 0)]

\* TmpPath::drop of some volumes: it does not ask whether the file could be
\* removed and takes it off the list in any case.
GiveUp(given) ==
    \/ UNCHANGED litter
    \/ given # {} /\ litter' = TRUE

\* The temporary files of the volumes there are; a volume that is dropped is
\* given up, and one that is there again later has a new file.
Track ==
    /\ tmp' = DOMAIN vols' /\ live' = DOMAIN vols'
    /\ GiveUp(DOMAIN vols \ DOMAIN vols')

Writing == phase = "writing" /\ UNCHANGED <<split, phase, commitVars>>

\* Mutant of Room: a write may go beyond its volume by a byte.
RoomAndOne == IF split THEN Size - (pos % Size) + 1 ELSE MaxLen

\* How much of a buffer a write takes: up to the end of the volume.
Room == IF split THEN Size - (pos % Size) ELSE MaxLen

\* write(): into the volume the position is in.
Write ==
    /\ Writing
    /\ \E buf \in Buffers :
          LET idx  == IF split THEN pos \div Size + 1 ELSE 1
              off  == IF split THEN pos % Size ELSE pos
              data == SubSeq(buf, 1, Min({Len(buf), Room}))
          IN
          /\ pos + Len(data) <= MaxLen
          /\ vols' = [Ensured(idx) EXCEPT ![idx] = F!Patched(@, off, data)]
          /\ pos' = pos + Len(data)
    /\ Track
    /\ UNCHANGED broken

\* seek(): counted from the start, from the position, from the end.
Seek ==
    /\ Writing
    /\ \E base \in {0, pos, Length} : \E p \in 0 .. MaxLen :
          p \in {base, base - 1, base + 1} /\ pos' = p
    /\ UNCHANGED <<vols, broken, tmp, live, litter>>

\* Mutant of VolumesFor: a volume more when the last one is exactly full.
VolumesForAndOne(n) == n \div Size + 1

\* How many volumes n bytes take: div_ceil.
VolumesFor(n) == (n + Size - 1) \div Size

\* set_len(): volumes that are too many are dropped, the last one gets its length.
SetLen ==
    /\ Writing
    /\ \E n \in 0 .. MaxLen :
          LET count == VolumesFor(n) IN
          vols' = IF ~split THEN << F!Resized(vols[1], n) >>
                  ELSE IF n = 0 THEN <<>>
                  ELSE [SubSeq(Ensured(count), 1, count) EXCEPT
                           ![count] = F!Resized(@, n - (count - 1) * Size)]
    /\ Track
    /\ UNCHANGED <<pos, broken>>

\* An operation fails on its way; some of the volumes it needs may be there, and
\* ensure() may have to give up the file it has made for the next one.
Fail ==
    /\ Writing
    /\ broken' = TRUE
    /\ \E n \in 0 .. (IF split THEN MaxVolumes ELSE 1) : vols' = Ensured(n)
    /\ tmp' = DOMAIN vols' /\ live' = DOMAIN vols'
    /\ GiveUp(IF split THEN {Len(vols') + 1} \cap Volumes ELSE {})
    /\ UNCHANGED pos

-----------------------------------------------------------------------------
(* Giving the archive its name. *)

\* The final name of volume i: a single volume gets the name of the target.
Final(i) == IF Len(vols) = 1 THEN Target ELSE i

\* Mutant of Stale: looks for the last name that is going to be used.
StaleLast(b) == split /\ (IF Len(vols) = 1 THEN 1 ELSE Len(vols)) \in b

\* An old set of volumes would be taken for the rest of the new one.
Stale(b) == split /\ (IF Len(vols) = 1 THEN 1 ELSE Len(vols) + 1) \in b

\* commit(): refuses an archive without a volume and one beside an old set.
Commit ==
    /\ phase = "writing" /\ ~broken
    /\ \E b \in SUBSET Names :
          /\ before' = b
          /\ disk' = [n \in Names |-> IF n \in b THEN Old ELSE Nothing]
          /\ \/ vols = <<>> /\ phase' = "dropping" /\ outcome' = "failed"
             \/ /\ vols # <<>> /\ Stale(b)
                /\ phase' = "dropping" /\ outcome' = "stale"
             \/ /\ vols # <<>> /\ ~Stale(b)
                /\ phase' = "moving" /\ UNCHANGED outcome
    /\ pos' = 0
    /\ UNCHANGED <<split, vols, broken, moved, committed, tmp, live, litter>>

\* The writer gives up: an operation has failed, or the user cancels.
Abandon ==
    /\ phase = "writing"
    /\ phase' = "dropping" /\ outcome' = "abandoned" /\ pos' = 0
    /\ UNCHANGED <<split, vols, broken, before, disk, moved, committed, tmp, live, litter>>

Next1 == Cardinality(moved) + 1

\* Mutant of Move: a file that has been renamed leaves the list at once.
MoveUnlisting ==
    /\ phase = "moving" /\ Next1 <= Len(vols)
    /\ disk' = [disk EXCEPT ![Final(Next1)] = Next1]
    /\ tmp' = tmp \ {Next1} /\ live' = live \ {Next1}
    /\ moved' = moved \cup {Next1}
    /\ UNCHANGED <<phase, outcome, writeVars, before, committed, litter>>

\* commit_replace() of the next volume: what is under its name is replaced.
Move ==
    /\ phase = "moving" /\ Next1 <= Len(vols)
    /\ disk' = [disk EXCEPT ![Final(Next1)] = Next1]
    /\ tmp' = tmp \ {Next1}
    /\ moved' = moved \cup {Next1}
    /\ UNCHANGED <<phase, outcome, writeVars, before, committed, live, litter>>

MoveFails ==
    /\ phase = "moving" /\ Next1 <= Len(vols)
    /\ phase' = "undoing" /\ outcome' = "failed"
    /\ UNCHANGED <<writeVars, before, disk, moved, committed, tmp, live, litter>>

\* All volumes have been renamed.
Accept ==
    /\ phase = "moving" /\ Next1 > Len(vols)
    /\ committed' = DOMAIN vols /\ live' = {}
    /\ phase' = "end" /\ outcome' = "ok"
    /\ UNCHANGED <<writeVars, before, disk, moved, tmp, litter>>

\* Mutant of Undo: what has been renamed stays where it is.
UndoNot ==
    /\ phase = "undoing" /\ moved # {}
    /\ moved' = moved \ {Min(moved)}
    /\ UNCHANGED <<phase, outcome, writeVars, before, disk, committed, tmp, live, litter>>

\* The volumes renamed so far are renamed back; one that cannot be keeps its name.
Undo ==
    /\ phase = "undoing" /\ moved # {}
    /\ LET i == Min(moved) IN
          /\ moved' = moved \ {i}
          /\ \/ /\ disk' = [disk EXCEPT ![Final(i)] = Nothing]
                /\ tmp' = tmp \cup {i}
                /\ UNCHANGED <<committed, live>>
             \/ /\ committed' = committed \cup {i} /\ live' = live \ {i}
                /\ UNCHANGED <<disk, tmp>>
    /\ UNCHANGED <<phase, outcome, writeVars, before, litter>>

Undone ==
    /\ phase = "undoing" /\ moved = {}
    /\ phase' = "dropping"
    /\ UNCHANGED <<writeVars, commitVars, tmp, live, litter>>

\* Mutant of Drop: only the last file is given up, the others are forgotten.
DropLast ==
    /\ phase = "dropping"
    /\ phase' = "end"
    /\ tmp' = tmp \ {Len(vols)} /\ live' = {}
    /\ GiveUp(tmp \cap {Len(vols)})
    /\ UNCHANGED <<writeVars, commitVars>>

\* TmpPath::drop of every volume: it is given up unless it is committed.
Drop ==
    /\ phase = "dropping"
    /\ phase' = "end"
    /\ tmp' = {} /\ live' = {}
    /\ GiveUp(tmp)
    /\ UNCHANGED <<writeVars, commitVars>>

-----------------------------------------------------------------------------
Next ==
    \/ Write \/ Seek \/ SetLen \/ Fail
    \/ Commit \/ Abandon
    \/ Move \/ MoveFails \/ Accept \/ Undo \/ Undone \/ Drop

Spec == Init /\ [][Next]_vars

-----------------------------------------------------------------------------
(* What the writer of an archive, and who lives beside it, can rely on. *)

TypeOK ==
    /\ split \in BOOLEAN /\ broken \in BOOLEAN
    /\ Len(vols) <= MaxVolumes /\ pos \in 0 .. MaxLen
    /\ phase \in Phases /\ outcome \in Outcomes
    /\ before \subseteq Names /\ disk \in [Names -> Volumes \cup {Nothing, Old}]
    /\ moved \subseteq Volumes /\ committed \subseteq Volumes
    /\ tmp \subseteq Volumes /\ live \subseteq Volumes /\ litter \in BOOLEAN

\* The volumes are cut at the same places however the writer jumps about and
\* changes the length: all but the last one are full, none is longer, and the
\* length that is computed from the last one is the length of all.
CutEvenly ==
    /\ Length = Len(FlattenSeq(vols))
    /\ split => \A i \in DOMAIN vols :
                   /\ Len(vols[i]) <= Size
                   /\ i < Len(vols) => Len(vols[i]) = Size

\* Volumes or not, the writer sees a file: the same bytes at the same places.
SameAsFile == F!FlatSpec

\* VolumeReader::open: the volumes up to the first number that is missing.
Consecutive == {i \in Names \ {Target} : \A k \in 1 .. i : disk[k] # Nothing}

\* After "ok" the archive can be read: the single file is there, or the volumes
\* that belong together are the new ones, all of them and no old one behind.
WholeSet ==
    outcome = "ok" =>
        IF Len(vols) = 1
           THEN disk[Target] = 1 /\ (split => Consecutive = {})
           ELSE Consecutive = DOMAIN vols /\ \A i \in DOMAIN vols : disk[i] = i

\* A temporary file can be named to the user at any moment, also while the files
\* are renamed and renamed back, until somebody has tried to remove it.
TempsListed == tmp \subseteq live

\* What cannot be removed comes from a volume that was dropped on the way, or from
\* an archive that was given up: a single file that is complete leaves nothing.
LitterOfGivenUp == litter => split \/ (phase = "end" /\ outcome # "ok")

\* In the end no file waits to be removed.  A commit that failed leaves no part of
\* the new archive behind, except for a volume that could not be renamed back and
\* a temporary file that could not be removed; one that was refused changes
\* nothing, and neither does one of a single file.
EndsClean ==
    phase = "end" =>
        /\ tmp = {} /\ live = {}
        /\ outcome # "ok" =>
              /\ \A n \in Names : disk[n] \in Volumes => disk[n] \in committed
              /\ outcome = "stale" \/ Len(vols) = 1 => before = {n \in Names : disk[n] = Old}

\* The volumes are cut at the right places and a set that is done is complete.
CutWhole == TypeOK /\ CutEvenly /\ WholeSet

\* What is unfinished can be named at any time, and in the end it is gone, or its
\* removal has failed (TmpPath::drop).
NothingLeft == TempsListed /\ LitterOfGivenUp /\ EndsClean

\* The list is exactly what is left (main.rs, RunEvent::Exit, prints it as such).
\* Violated: a file that could not be removed leaves the list all the same.
ListIsLeft == tmp \subseteq live /\ ~litter

\* Who is told of a failure still has the files there were.  Violated: the
\* volumes of an old set that were replaced before the failure are gone.
KeepsOld ==
    phase = "end" /\ outcome # "ok" => \A n \in before : disk[n] = Old

=============================================================================
