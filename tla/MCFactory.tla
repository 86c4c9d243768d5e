------------------------------- MODULE MCFactory -------------------------------
(***************************************************************************)
(* Two directories with up to two protocols each, in two versions or in a  *)
(* file that cannot be loaded.                                             *)
(***************************************************************************)
EXTENDS StateMachineFactory, TLC

CONSTANTS d1, d2, p1, p2, v1, v2

MCDirs == {d1, d2}
MCProtocols == {p1, p2}
MCMachines == {v1, v2}

(* Directories and versions are exchangeable.                              *)
MCSymmetry ==
  Permutations(MCDirs) \cup Permutations(MCProtocols) \cup Permutations(MCMachines)

==============================================================================
