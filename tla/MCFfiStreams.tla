---------------------------- MODULE MCFfiStreams ----------------------------
(***************************************************************************)
(* FfiStreams with two caller threads.  They are interchangeable, but      *)
(* symmetry is not sound for liveness, so the run does without it.         *)
(***************************************************************************)
EXTENDS FfiStreams
=============================================================================
