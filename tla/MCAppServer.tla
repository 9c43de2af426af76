------------------------------ MODULE MCAppServer ------------------------------
(* Instances of the app-server controller for TLC; the .cfg files give the     *)
(* callers as strings, so nothing is to be defined here but the instance.      *)
EXTENDS AppServerProperties
=============================================================================
