------------------------------- MODULE Blocks -------------------------------
(***************************************************************************)
(* How the interpreter decides what to execute: the condition, match,      *)
(* brace, switch and while stacks of cond.c, switch.c and while.c, driven   *)
(* by the block statements of parse.raw.  Each action reads one statement:  *)
(* its Text conjunct (module Script) is what the author wrote, the others   *)
(* are what the handler does.  A condition is the Boolean CheckCond tests.  *)
(* astray is history: the text has done what the interpreter cannot follow, *)
(* and reading stops there.                                                 *)
(***************************************************************************)
EXTENDS Script

CONSTANT MaxBraces      \* bound on the brace stack, which can only grow

ASSUME MaxBracesAssumption == MaxBraces \in Nat

VARIABLES
    cond,               \* CondStack: what each open construct lets through
    match,              \* MatchStack: has this if selected a branch
    brace,              \* EndBraceStack: the token a } stands for
    switches,           \* SwitchStack: has this switch matched a case
    whiles,             \* WhileStack: the number of loop records
    again,              \* iterwhile = SeekPos: the lexer is back at a loop head
    astray

vars == <<nest, resume, cond, match, brace, switches, whiles, again, astray>>

CondEntry == [state : BOOLEAN, active : {-4, -3, -2, -1, 0, 1}]
EndToken  == {"endif", "endswitch", "endwhile"}

TypeOK ==
    /\ nest \in Seq(Frame)
    /\ resume \in BOOLEAN
    /\ cond \in Seq(CondEntry)
    /\ match \in Seq(BOOLEAN)
    /\ brace \in Seq(EndToken)
    /\ switches \in Seq(BOOLEAN)
    /\ whiles \in Nat
    /\ again \in BOOLEAN
    /\ astray \in BOOLEAN

Init ==
    /\ ScriptInit
    /\ cond = << >> /\ match = << >> /\ brace = << >> /\ switches = << >>
    /\ whiles = 0
    /\ again = FALSE
    /\ astray = FALSE

-----------------------------------------------------------------------------
(* The stacks.                                                             *)
Entry(state, active) == [state |-> state, active |-> active]

GetCurrentState  == IF cond = << >> THEN TRUE ELSE Last(cond).state
GetCurrentActive == IF cond = << >> THEN 0 ELSE Last(cond).active

CondPush(e)   == cond' = Append(cond, e)
CondPop       == cond' = IF cond = << >> THEN cond ELSE Front(cond)
CondChange(e) == cond' = IF cond = << >> THEN cond ELSE Append(Front(cond), e)
MatchPop      == match' = IF match = << >> THEN match ELSE Front(match)
MatchTop      == IF match = << >> THEN TRUE ELSE Last(match)
MatchReplace(m) == match' = Append(IF match = << >> THEN match ELSE Front(match), m)
BracePush(t)  == Len(brace) < MaxBraces /\ brace' = Append(brace, t)
BracePop      == brace' = IF brace = << >> THEN brace ELSE Front(brace)
BraceCheck    == Last(brace)        \* never asked of an empty stack here

Closer(kind) == CASE kind = "if" -> "endif"
                  [] kind = "while" -> "endwhile"
                  [] OTHER -> "endswitch"

-----------------------------------------------------------------------------
If(c) ==
    /\ TextIf(c)
    /\ IF GetCurrentState
       THEN CondPush(Entry(c, 1)) /\ match' = Append(match, c)
       ELSE CondPush(Entry(FALSE, 0)) /\ match' = Append(match, FALSE)
    /\ BracePush("endif")
    /\ UNCHANGED <<switches, whiles, again, astray>>

(* Else and ElseIf return at once, with or without an error, unless the    *)
(* entry on top is that of a live if.                                      *)
LiveIfOnTop == GetCurrentActive > 0

(* Slips of the handlers, one each: what the properties below must notice.  *)
(* An elseif that does not ask whether an earlier branch matched.          *)
ElseIfUnmatched(c) ==
    /\ TextElseIf(c)
    /\ IF LiveIfOnTop
       THEN CondChange(Entry(c, 1)) /\ MatchReplace(c)
       ELSE UNCHANGED <<cond, match>>
    /\ UNCHANGED <<brace, switches, whiles, again, astray>>

ElseIf(c) ==
    /\ TextElseIf(c)
    /\ IF LiveIfOnTop
       THEN IF MatchTop
            THEN CondChange(Entry(FALSE, 1)) /\ UNCHANGED match
            ELSE CondChange(Entry(c, 1)) /\ MatchReplace(c)
       ELSE UNCHANGED <<cond, match>>
    /\ UNCHANGED <<brace, switches, whiles, again, astray>>

Else ==
    /\ TextElse
    /\ IF LiveIfOnTop
       THEN CondChange(Entry(~MatchTop, -1)) /\ MatchReplace(~MatchTop)
       ELSE UNCHANGED <<cond, match>>
    /\ UNCHANGED <<brace, switches, whiles, again, astray>>

(* The grammar lets a switch be entered, dead, inside a dead switch or      *)
(* case; in any other dead text it pushes a brace and nothing else.         *)
Switch ==
    /\ TextSwitch
    /\ \/ /\ GetCurrentState
          /\ switches' = Append(switches, FALSE)
          /\ CondPush(Entry(TRUE, 1))
       \/ /\ ~GetCurrentState /\ GetCurrentActive \in {-2, -3}
          /\ CondPush(Entry(FALSE, -3))
          /\ UNCHANGED switches
       \/ /\ ~GetCurrentState /\ GetCurrentActive \notin {-2, -3}
          /\ UNCHANGED <<cond, switches>>
    /\ BracePush("endswitch")
    /\ UNCHANGED <<match, whiles, again, astray>>

CaseRead == GetCurrentState \/ GetCurrentActive = -2

(* A second label inside a live case falls through; inside a dead one it   *)
(* pushes an entry more, which no break will pop.                          *)
Case(c) ==
    /\ TextCase(c)
    /\ IF CaseRead /\ ~(GetCurrentState /\ GetCurrentActive = -2)
       THEN CondPush(Entry(c, -2)) ELSE UNCHANGED cond
    /\ astray' = (Innermost("case") /\ ~GetCurrentState /\ GetCurrentActive = -2)
    /\ UNCHANGED <<match, brace, switches, whiles, again>>

Default ==
    /\ TextDefault
    /\ IF CaseRead THEN CondPush(Entry(~Last(switches), -2)) ELSE UNCHANGED cond
    /\ astray' = (Innermost("case") /\ CaseRead)
    /\ UNCHANGED <<match, brace, switches, whiles, again>>

(* A break that leaves the switch record as it was.                        *)
BreakForgetsMatch ==
    /\ TextBreak
    /\ IF CaseRead /\ GetCurrentActive <= -2 THEN CondPop ELSE UNCHANGED cond
    /\ UNCHANGED <<switches, match, brace, whiles, again, astray>>

Break ==
    /\ TextBreak
    /\ IF CaseRead /\ GetCurrentActive <= -2
       THEN /\ CondPop
            /\ switches' = IF Last(switches) THEN switches
                           ELSE Append(Front(switches), GetCurrentState)
       ELSE UNCHANGED <<cond, switches>>
    /\ UNCHANGED <<match, brace, whiles, again, astray>>

(* A failing condition drops the loop record in suppressed text too.       *)
WhileDropsAlways(c) ==
    /\ TextWhile(c) \/ TextWhileAgain(c)
    /\ LET w == IF GetCurrentState /\ ~again THEN whiles + 1 ELSE whiles
       IN  whiles' = IF c THEN w ELSE w - 1
    /\ IF GetCurrentState /\ again
       THEN CondChange(Entry(c, -4)) /\ UNCHANGED brace
       ELSE /\ BracePush("endwhile")
            /\ IF GetCurrentState \/ GetCurrentActive = -4
               THEN CondPush(Entry(c /\ GetCurrentState, -4)) ELSE UNCHANGED cond
    /\ again' = FALSE
    /\ UNCHANGED <<match, switches, astray>>

(* The lexer records a new loop as it reads the word while, the statement  *)
(* drops the record again when its condition fails.                        *)
While(c) ==
    /\ TextWhile(c) \/ TextWhileAgain(c)
    /\ IF GetCurrentState
       THEN LET w == IF again THEN whiles ELSE whiles + 1
            IN  /\ whiles' = IF c THEN w ELSE w - 1
                /\ IF again
                   THEN CondChange(Entry(c, -4)) /\ UNCHANGED brace
                   ELSE CondPush(Entry(c, -4)) /\ BracePush("endwhile")
       ELSE /\ BracePush("endwhile")
            /\ IF GetCurrentActive = -4 THEN CondPush(Entry(FALSE, -4)) ELSE UNCHANGED cond
            /\ UNCHANGED whiles
    /\ again' = FALSE
    /\ UNCHANGED <<match, switches, astray>>

-----------------------------------------------------------------------------
(* What the three end tokens do, whichever construct they were meant for.  *)
(* An endif that leaves the match mark behind.                             *)
EndIfKeepsMark == CondPop /\ BracePop /\ UNCHANGED <<match, switches, whiles, again>>

EndIf == CondPop /\ MatchPop /\ BracePop /\ UNCHANGED <<switches, whiles, again>>

(* An endswitch that drops a record for a suppressed switch too.           *)
EndSwitchDropsAlways ==
    /\ IF GetCurrentState \/ GetCurrentActive \in {-2, -3}
       THEN /\ CondPop /\ BracePop
            /\ switches' = IF switches = << >> THEN switches ELSE Front(switches)
       ELSE UNCHANGED <<cond, brace, switches>>
    /\ UNCHANGED <<match, whiles, again>>

EndSwitch ==
    /\ IF GetCurrentState \/ GetCurrentActive \in {-2, -3}
       THEN /\ CondPop /\ BracePop
            /\ switches' = IF GetCurrentActive = -3 \/ switches = << >>
                           THEN switches ELSE Front(switches)
       ELSE UNCHANGED <<cond, brace, switches>>
    /\ UNCHANGED <<match, whiles, again>>

(* An open block always has an entry on the condition stack here, so the   *)
(* active flag CondPeek leaves unset for an empty one is never looked at.  *)
EndWhile ==
    /\ \/ /\ GetCurrentActive # -4
          /\ UNCHANGED <<cond, brace, again>>
       \/ /\ GetCurrentActive = -4
          /\ IF GetCurrentState /\ whiles > 0
             THEN again' = TRUE /\ UNCHANGED <<cond, brace>>
             ELSE CondPop /\ BracePop /\ UNCHANGED again
    /\ UNCHANGED <<match, switches, whiles>>

(* The end of the innermost block, by its keyword or by a }, which the     *)
(* lexer turns into the token on top of the brace stack.                   *)
Close(style) ==
    \E kind \in {"if", "switch", "while"} :
        LET token == IF style = "keyword" THEN Closer(kind) ELSE BraceCheck
        IN  /\ TextClose(kind)
            /\ \/ token = "endif" /\ EndIf
               \/ token = "endswitch" /\ EndSwitch
               \/ token = "endwhile" /\ EndWhile
            /\ astray' = \/ token # Closer(kind)
                         \/ Innermost("case") /\ CaseRead

CloseKeyword == Close("keyword")
CloseBrace   == Close("}")

Next ==
    /\ ~astray
    /\ \/ \E c \in BOOLEAN : If(c) \/ ElseIf(c) \/ Case(c) \/ While(c)
       \/ Else \/ Switch \/ Default \/ Break
       \/ CloseKeyword \/ CloseBrace

Spec == Init /\ [][Next]_vars

-----------------------------------------------------------------------------
(* The interpreter shows exactly the text whose every enclosing if, elseif, *)
(* else, case, default and loop is the selected one (outputline and every  *)
(* statement of parse.raw ask GetCurrentState), however deep and dead the   *)
(* nesting and whichever way the blocks are closed.                         *)
LiveIffTaken == ~astray => (GetCurrentState <=> Live)

(* Whatever was opened, selected, skipped, repeated and closed before, a    *)
(* page whose blocks are all closed leaves nothing on the stacks that is    *)
(* searched by position: the next block cannot meet an old entry.          *)
StacksDrain ==
    ~astray /\ nest = << >> =>
        cond = << >> /\ match = << >> /\ switches = << >> /\ whiles = 0

(* Case, Default, Break and While follow the top pointer of their record    *)
(* stack without a test: when a label or break of a live switch is read     *)
(* there is a switch record and, back at a loop head, a loop record.        *)
RecordsPresent ==
    ~astray =>
        /\ Innermost("switch") /\ GetCurrentState => switches # << >>
        /\ Innermost("case") /\ CaseRead => switches # << >>
        /\ again <=> resume
        /\ again => whiles > 0 /\ GetCurrentState

(* The interpreter, seen through GetCurrentState alone, is the language of  *)
(* PageLanguage, up to the statement that leads a text astray.              *)
Shown == IF astray THEN Live ELSE GetCurrentState
Promise == INSTANCE PageLanguage WITH live <- Shown
KeepsPromise == Promise!Spec
=============================================================================
