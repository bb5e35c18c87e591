------------------------------ MODULE FlatFile ------------------------------
(***************************************************************************)
(* What a writer of archives is promised by the place it writes to, cut    *)
(* into volumes or not: one run of bytes with a position.  A write replaces*)
(* the bytes at the position and moves it, what was never written is zero, *)
(* and after a failure nothing is promised any more.                       *)
(***************************************************************************)
EXTENDS Naturals, Sequences

CONSTANT Buffers    \* the byte strings that are handed over for writing

\* File::set_len: cut off, or filled up with zeros.
Resized(bytes, n) == [i \in 1 .. n |-> IF i <= Len(bytes) THEN bytes[i] ELSE 0]

\* File::seek and File::write_all: data behind the first off bytes.
Patched(bytes, off, data) ==
    LET end == off + Len(data) IN
    [i \in 1 .. (IF end > Len(bytes) THEN end ELSE Len(bytes)) |->
        IF i \in off + 1 .. end THEN data[i - off]
        ELSE IF i <= Len(bytes) THEN bytes[i] ELSE 0]

VARIABLES
    content,  \* the bytes
    pos,      \* where the next write goes
    broken    \* an operation has failed

FlatInit == content = <<>> /\ pos = 0 /\ broken = FALSE

\* A write takes what it is given or a part of it from the front.
FlatWrite ==
    \E buf \in Buffers : \E n \in 1 .. Len(buf) :
        /\ content' = Patched(content, pos, SubSeq(buf, 1, n))
        /\ pos' = pos + n
        /\ UNCHANGED broken

\* The position goes anywhere.
FlatSeek == pos' \in Nat /\ UNCHANGED <<content, broken>>

FlatSetLen == content' = Resized(content, Len(content')) /\ UNCHANGED <<pos, broken>>

FlatFail == broken' = TRUE

FlatNext == (~broken /\ (FlatWrite \/ FlatSeek \/ FlatSetLen)) \/ FlatFail

FlatSpec == FlatInit /\ [][FlatNext]_<<content, pos, broken>>

=============================================================================
