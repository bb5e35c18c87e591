--------------------------- MODULE ArchiveCreation ---------------------------
(***************************************************************************)
(* What creating an archive promises, with threads or without: the items   *)
(* are added one by one in the order in which they were collected, "ok"    *)
(* comes only when all of them are in, and "canceled" only to a user who   *)
(* asked for it.  Once there is an outcome nothing is added any more.      *)
(***************************************************************************)
EXTENDS Naturals, Sequences

CONSTANT NItems     \* how many items have been collected

VARIABLES
    archive,   \* the items that are in the archive, in their order there
    asked,     \* the user has asked to cancel
    outcome    \* "none" as long as there is none

Outcomes == {"none", "ok", "canceled", "failed"}

CreationInit == archive = <<>> /\ asked = FALSE /\ outcome = "none"

Add ==
    /\ outcome = "none" /\ Len(archive) < NItems
    /\ archive' = Append(archive, Len(archive) + 1)
    /\ UNCHANGED <<asked, outcome>>

Ask == asked' = TRUE /\ UNCHANGED <<archive, outcome>>

Succeed ==
    /\ outcome = "none" /\ Len(archive) = NItems
    /\ outcome' = "ok"
    /\ UNCHANGED <<archive, asked>>

GiveUp ==
    /\ outcome = "none" /\ asked
    /\ outcome' = "canceled"
    /\ UNCHANGED <<archive, asked>>

Fail ==
    /\ outcome = "none"
    /\ outcome' = "failed"
    /\ UNCHANGED <<archive, asked>>

CreationNext == Add \/ Ask \/ Succeed \/ GiveUp \/ Fail

CreationSpec == CreationInit /\ [][CreationNext]_<<archive, asked, outcome>>

=============================================================================
