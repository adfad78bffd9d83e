--------------------------- MODULE MCCommitReport ---------------------------
(***************************************************************************)
(* CommitReport for TLC: one package to install, one to remove.            *)
(***************************************************************************)
EXTENDS CommitReport, TLC

CONSTANTS foo, bar

TwoSteps    == {foo, bar}
TwoKinds    == foo :> "install" @@ bar :> "erase"
=============================================================================
