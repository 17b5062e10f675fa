------------------------------- MODULE MCStore -------------------------------
(***************************************************************************)
(* Store for TLC.  Keys, values and goroutines are interchangeable.        *)
(***************************************************************************)
EXTENDS Store, TLC

Symmetry == Permutations(Key) \cup Permutations(Value) \cup Permutations(Writer)

=============================================================================
