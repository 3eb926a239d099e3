------------------------------ MODULE MCHandles ------------------------------
(* Two databases and two ports, and a page of six calls.                    *)
EXTENDS Handles
=============================================================================
