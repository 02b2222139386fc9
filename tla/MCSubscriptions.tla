-------------------------- MODULE MCSubscriptions --------------------------
(* Small instances of Subscriptions for TLC. *)
EXTENDS Subscriptions, TLC

\* Subscriptions are interchangeable.
SubSymmetry == Permutations(Sub)
=============================================================================
