---------------------------- MODULE MCJobSystem ----------------------------
(* Small instances of JobSystem for TLC.                                     *)
EXTENDS JobSystem

CONSTANTS a, b, c

\* No job names a parent.
Unrelated == [j \in Jobs |-> {}]

\* b waits for a, and c for both.
Chain == [j \in Jobs |-> IF j = a THEN {} ELSE IF j = b THEN {a} ELSE {a, b}]

=============================================================================
