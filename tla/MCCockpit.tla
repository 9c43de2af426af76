------------------------------- MODULE MCCockpit -------------------------------
(* Instances of the cockpit for TLC. *)
EXTENDS CockpitProperties

CONSTANT k1

\* Two threads on a host whose key the profile has pinned, or not.
MCHosts ==
  {[status |-> [s \in Sessions |-> "running"], key |-> k1, pin |-> p] : p \in {NoKey, k1}}
=============================================================================
