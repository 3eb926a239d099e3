------------------------------- MODULE MCCalls -------------------------------
(* The page, a file it includes, and two functions.                         *)
EXTENDS Calls

CONSTANTS page, lib, f, g
=============================================================================
