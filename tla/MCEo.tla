-------------------------------- MODULE MCEo --------------------------------
(* Instances of Eo for TLC. *)
EXTENDS Eo
=============================================================================
