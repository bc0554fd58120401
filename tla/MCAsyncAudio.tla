---------------------------- MODULE MCAsyncAudio ----------------------------
(* Instances of AsyncAudio for TLC. *)
EXTENDS AsyncAudio
=============================================================================
