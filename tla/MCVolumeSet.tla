----------------------------- MODULE MCVolumeSet -----------------------------
(***************************************************************************)
(* Instances of VolumeSet: up to three volumes of two bytes.  One buffer   *)
(* fits into a volume, one fills it, one crosses its end.                  *)
(***************************************************************************)
EXTENDS VolumeSet

MCBuffers == {<<1>>, <<1, 2>>, <<2, 1, 2>>}

=============================================================================
