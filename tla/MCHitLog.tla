------------------------------ MODULE MCHitLog ------------------------------
(* Three server processes, which are interchangeable.                      *)
EXTENDS HitLog, TLC

CONSTANTS p1, p2, p3

AnyProcess == Permutations(Proc)
=============================================================================
