---------------------------- MODULE MCExpressions ----------------------------
(* Statements of pages, of functions two calls deep and of evaluated strings. *)
EXTENDS Expressions
=============================================================================
