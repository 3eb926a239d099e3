------------------------------- MODULE MCRequest -------------------------------
(* Two variables, blocks of two units, and a limit of three.                *)
EXTENDS Request
=============================================================================
