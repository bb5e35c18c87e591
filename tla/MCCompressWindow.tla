-------------------------- MODULE MCCompressWindow --------------------------
(***************************************************************************)
(* An instance of CompressWindow: a request for the form, one with a job   *)
(* of its own and a batch of two, a job of another window, and a memory    *)
(* for one event (64 in the code).  MCOne is one request with a job.       *)
(***************************************************************************)
EXTENDS CompressWindow

MCKind == <<"form", "auto", "batch">>
MCOne  == <<"auto">>

=============================================================================
