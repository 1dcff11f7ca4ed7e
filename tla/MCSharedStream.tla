--------------------------- MODULE MCSharedStream ---------------------------
(* Small instances of SharedStream. *)
EXTENDS SharedStream

Failing == <<"ok", "ok", "err", "ok">>

=============================================================================
