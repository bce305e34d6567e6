---------------------------- MODULE MCServerPower ----------------------------
(* Symmetric sets for TLC; each .cfg picks the goroutines of its instance.  *)
EXTENDS ServerPower, TLC

Symmetry == Permutations(Users) \cup Permutations(Handlers)
            \cup Permutations(Procs) \cup Permutations(Jobs)

=============================================================================
