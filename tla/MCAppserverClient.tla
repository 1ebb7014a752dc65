-------------------------- MODULE MCAppserverClient --------------------------
(* Instances of AppserverClient for TLC.                                   *)
EXTENDS AppserverClient
=============================================================================
