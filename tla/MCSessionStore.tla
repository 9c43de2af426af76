--------------------------- MODULE MCSessionStore ---------------------------
(* Instances of the session store for TLC. *)
EXTENDS SessionStoreProperties, TLC

\* Hooks are told apart only by the events they carry.
HookSymmetry == Permutations(Hooks)
=============================================================================
