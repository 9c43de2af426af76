---------------------------- MODULE MCThreadHost ----------------------------
(* Instances of the thread host for TLC. *)
EXTENDS ThreadHostProperties, TLC

HostSymmetry ==
  Permutations(Turns) \cup Permutations(Calls) \cup Permutations(Ids)
=============================================================================
