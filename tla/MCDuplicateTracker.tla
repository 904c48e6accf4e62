-------------------------- MODULE MCDuplicateTracker ------------------------
(* Deliveries are interchangeable, and so are keys.                         *)
EXTENDS DuplicateTracker, TLC

MCSymmetry == Permutations(Deliveries) \cup Permutations(Keys)
=============================================================================
