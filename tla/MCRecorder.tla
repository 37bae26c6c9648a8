----------------------------- MODULE MCRecorder ------------------------------
(* One node for Recorder: its lines come in every order. *)
EXTENDS Recorder
=============================================================================
