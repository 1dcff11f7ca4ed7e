---------------------------- MODULE MCStreamPipe ----------------------------
(* Small instances of StreamPipe. *)
EXTENDS StreamPipe

=============================================================================
