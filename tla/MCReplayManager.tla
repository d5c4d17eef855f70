-------------------------- MODULE MCReplayManager --------------------------
(* Small instances of ReplayManager for TLC.                                 *)
EXTENDS ReplayManager

\* Model values: the UI thread, a background thread, a tag and no tag.
CONSTANTS ui, worker, pick

=============================================================================
