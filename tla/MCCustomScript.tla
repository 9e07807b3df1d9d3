--------------------------- MODULE MCCustomScript ---------------------------
(* Instances of CustomScript: the values of the constants are in the cfg files. *)
EXTENDS CustomScript
=============================================================================
