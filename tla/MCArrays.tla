------------------------------- MODULE MCArrays -------------------------------
(* Two variables of three elements and of two, an index that appends give   *)
(* too, and one that they do not.                                           *)
EXTENDS Arrays

Lengths == [a |-> 3, b |-> 2]

(* What a call answered does not matter to the next one: states that differ *)
(* in it alone are explored once, their steps are all checked.              *)
Lists == var
=============================================================================
