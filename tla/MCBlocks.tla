------------------------------ MODULE MCBlocks ------------------------------
(* Blocks on small instances: the cfg files give the constants.            *)
EXTENDS Blocks
=============================================================================
