--------------------------- MODULE MCNodeStreams ---------------------------
(* Small instances of NodeStreams. *)
EXTENDS NodeStreams
=============================================================================
