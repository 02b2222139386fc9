--------------------------- MODULE MCAccountSync ---------------------------
(* Small instances of AccountSync for TLC. *)
EXTENDS AccountSync, TLC

\* Connections and push slots are interchangeable: sound for the invariants,
\* never used with a liveness property.
Symmetry == Permutations(Conn) \cup Permutations(Push)
=============================================================================
