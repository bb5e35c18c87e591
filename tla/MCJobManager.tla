---------------------------- MODULE MCJobManager ----------------------------
(***************************************************************************)
(* The instance of JobManager that TLC checks: two job windows and the     *)
(* main window start two jobs.  With two jobs one can be refused because   *)
(* of the other, follow it, or arrive after its window has died; with two  *)
(* sessions a reopening, another one and the shutdown may wait together.   *)
(***************************************************************************)
EXTENDS JobManager

CONSTANTS compress, extract, main

MCSessions == {compress, extract}

=============================================================================
