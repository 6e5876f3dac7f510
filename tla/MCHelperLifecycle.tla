-------------------------- MODULE MCHelperLifecycle --------------------------
(***************************************************************************)
(* Devices and commands are interchangeable: everything checked here is a  *)
(* safety property, so the symmetry is sound.                              *)
(***************************************************************************)
EXTENDS HelperLifecycle, TLC

Symmetry == Permutations(Devices) \cup Permutations(Commands)
=============================================================================
