-------------------------- MODULE MCContentUpload --------------------------
(* ContentUpload for TLC: one transcript identity carrying two transcripts *)
(* in turn, one of them named after its session.                           *)
EXTENDS ContentUpload
CONSTANT i1
MCIds == {i1}
MCNamed == {1}
============================================================================
