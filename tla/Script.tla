------------------------------- MODULE Script -------------------------------
(***************************************************************************)
(* The text of a page as its author nests it.  The block statements of the *)
(* grammar (src/src/parse.raw) arrive one after the other; nest holds the   *)
(* constructs still open, the innermost last.  A frame says what the author *)
(* means: is this branch the one selected, has a branch been selected yet.  *)
(* Nothing here is the interpreter's: the module is the yardstick Blocks is *)
(* held against.                                                            *)
(***************************************************************************)
EXTENDS Integers, SequencesExt

CONSTANT MaxDepth       \* bound on the constructs open at one time

ASSUME MaxDepthAssumption == MaxDepth \in Nat

VARIABLES
    nest,               \* the open constructs, innermost last
    resume              \* the text is back at the head of the innermost loop

Frame == [kind  : {"if", "switch", "case", "while"},
          taken : BOOLEAN,    \* the branch being read is the selected one
          done  : BOOLEAN,    \* a branch or case was selected already
          last  : BOOLEAN]    \* the else branch: no other may follow

Open(kind, taken) == [kind |-> kind, taken |-> taken, done |-> taken, last |-> FALSE]

(* Text is executed iff every construct around it selected its branch.     *)
Live == \A i \in DOMAIN nest : nest[i].taken

Innermost(kind) == nest # << >> /\ Last(nest).kind = kind

ReplaceInnermost(f) == Append(Front(nest), f)

ScriptInit == nest = << >> /\ resume = FALSE

-----------------------------------------------------------------------------
Enter(f) ==
    /\ Len(nest) < MaxDepth
    /\ ~resume
    /\ nest' = Append(nest, f)
    /\ UNCHANGED resume

TextIf(c) == Enter(Open("if", c))

(* elseif: selected when its condition holds and no earlier branch was.    *)
TextElseIf(c) ==
    /\ ~resume
    /\ Innermost("if") /\ ~Last(nest).last
    /\ nest' = LET f == Last(nest)
               IN  ReplaceInnermost([f EXCEPT !.taken = c /\ ~f.done,
                                              !.done = f.done \/ c])
    /\ UNCHANGED resume

TextElse ==
    /\ ~resume
    /\ Innermost("if") /\ ~Last(nest).last
    /\ nest' = LET f == Last(nest)
               IN  ReplaceInnermost([f EXCEPT !.taken = ~f.done,
                                              !.done = TRUE,
                                              !.last = TRUE])
    /\ UNCHANGED resume

(* The text between switch and its first case is ordinary text.            *)
TextSwitch == Enter([Open("switch", TRUE) EXCEPT !.done = FALSE])

(* A label after an unfinished case joins it: the text falls through.      *)
JoinCase(c) ==
    /\ ~resume
    /\ Innermost("case")
    /\ nest' = ReplaceInnermost([Last(nest) EXCEPT !.taken = @ \/ c])
    /\ UNCHANGED resume

TextCase(c) ==
    \/ Innermost("switch") /\ Enter(Open("case", c))
    \/ JoinCase(c)

TextDefault ==
    \/ /\ Innermost("switch")
       /\ Enter(Open("case", ~Last(nest).done))
    \/ /\ Innermost("case")
       /\ JoinCase(~Last(Front(nest)).done)

(* break ends a case and tells the switch whether it was the selected one. *)
TextBreak ==
    /\ ~resume
    /\ Innermost("case")
    /\ nest' = LET outer == Front(nest)
               IN  Append(Front(outer),
                          [Last(outer) EXCEPT !.done = @ \/ Last(nest).taken])
    /\ UNCHANGED resume

TextWhile(c) == Enter(Open("while", c))

(* The end of a live loop sends the text back to the loop's condition.     *)
TextWhileAgain(c) ==
    /\ resume
    /\ resume' = FALSE
    /\ nest' = ReplaceInnermost(Open("while", c))

(* The end of the innermost if, switch or while; a switch takes with it a  *)
(* case that no break ended.                                                *)
TextClose(kind) ==
    /\ ~resume
    /\ \/ /\ Innermost(kind)
          /\ IF kind = "while" /\ Live
             THEN resume' = TRUE /\ UNCHANGED nest
             ELSE nest' = Front(nest) /\ UNCHANGED resume
       \/ /\ kind = "switch"
          /\ Innermost("case")
          /\ nest' = Front(Front(nest))
          /\ UNCHANGED resume
=============================================================================
