---------------------------- MODULE MCWorkerCall ----------------------------
(***************************************************************************)
(* WorkerCall for TLC.                                                     *)
(***************************************************************************)
EXTENDS WorkerCall, TLC

\* The packages are interchangeable; used by the safety runs only.
PackageSymmetry == Permutations(Packages)
=============================================================================
