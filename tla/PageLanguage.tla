---------------------------- MODULE PageLanguage ----------------------------
(***************************************************************************)
(* What the block statements promise: of a page only this is visible, its   *)
(* text and whether the text being read is executed.  It is executed iff    *)
(* every construct around it selected its branch.                           *)
(***************************************************************************)
EXTENDS Script

VARIABLE live           \* the text being read is executed

Init == ScriptInit /\ live = TRUE

Read ==
    \/ \E c \in BOOLEAN : \/ TextIf(c) \/ TextElseIf(c)
                           \/ TextCase(c)
                           \/ TextWhile(c) \/ TextWhileAgain(c)
    \/ TextElse \/ TextSwitch \/ TextDefault \/ TextBreak
    \/ \E kind \in {"if", "switch", "while"} : TextClose(kind)

Next == Read /\ live' = Live'

Spec == Init /\ [][Next]_<<nest, resume, live>>
=============================================================================
