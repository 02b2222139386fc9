----------------------------- MODULE MCDsSpawn -----------------------------
(* Small instances of DsSpawn for TLC. *)
EXTENDS DsSpawn

\* A chosen spawn that is past at the end of a run, and one that is not.
TwoChosen == {1, MaxClock + 1}
=============================================================================
