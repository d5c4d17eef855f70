-------------------------- MODULE MCTargetControl --------------------------
(* Small instances of TargetControl for TLC.                                 *)
EXTENDS TargetControl

\* Model values for connections, the empty name and a driver.
CONSTANTS c1, c2, d3d11

=============================================================================
