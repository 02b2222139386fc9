------------------------------ MODULE MCDsCamp ------------------------------
(* Small instances of DsCamp for TLC. *)
EXTENDS DsCamp, TLC

\* Campers are interchangeable.
CamperSymmetry == Permutations(Camper)
=============================================================================
