----------------------------- MODULE HitCounter -----------------------------
(***************************************************************************)
(* The counters of a page: how often it was visited, how often on the day   *)
(* of the last visit, and that day.  Each visit counts in one step.         *)
(***************************************************************************)
EXTENDS Naturals

CONSTANT Day            \* the days, 0 before the first visit

VARIABLES total, today, last

Init == total = 0 /\ today = 0 /\ last = 0

Visit(d) ==
    /\ total' = total + 1
    /\ today' = IF d = last THEN today + 1 ELSE 1
    /\ last' = d

Next == \E d \in Day : Visit(d)

Spec == Init /\ [][Next]_<<total, today, last>>
=============================================================================
