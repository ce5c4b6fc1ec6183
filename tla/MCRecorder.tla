----------------------------- MODULE MCRecorder ------------------------------
(***************************************************************************)
(* Recorder for TLC: two runners that share a Batcher, or one with a       *)
(* Batcher and one, in another process, without.                           *)
(***************************************************************************)
EXTENDS Recorder

CONSTANTS r1, r2

Deployed == {{r1, r2}, {r1}}

==============================================================================
