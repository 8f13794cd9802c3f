----------------------------- MODULE MCAppCore -----------------------------
(***************************************************************************)
(* Instances of AppCore for TLC.  Pids are numbers, as -1 stands for none; *)
(* packages are model values and may be permuted in runs without liveness. *)
(***************************************************************************)
EXTENDS AppCore, TLC

CONSTANTS p1, p2

PackageSymmetry == Permutations(Packages)
=============================================================================
