---------------------------- MODULE ScopeLanguage ----------------------------
(***************************************************************************)
(* What functions promise about variables: each call has variables of its   *)
(* own, a name declared global is the page's variable, a name declared      *)
(* static is one the function keeps between its calls.                      *)
(***************************************************************************)
EXTENDS Naturals, SequencesExt

CONSTANTS Name, Function,
          Value, NoValue, \* what a variable may hold, and an undefined one
          Params,         \* Params[f] names the parameters of f
          MaxCalls        \* bound on the calls active at one time

VARIABLES page,           \* the page's variables
          calls,          \* the active calls, innermost last
          kept            \* the static variables of every function

langVars == <<page, calls, kept>>

Nothing == [x \in Name |-> NoValue]

LangInit == page = Nothing /\ calls = << >> /\ kept = [f \in Function |-> Nothing]

Inside == calls # << >>
This   == Last(calls)

(* What x denotes in the text being executed, and assigning to it.         *)
Denotes(x) ==
    IF ~Inside THEN page[x]
    ELSE IF This.means[x] = "global" THEN page[x]
    ELSE IF This.means[x] = "static" THEN kept[This.fn][x]
    ELSE This.locals[x]

Assign(x, v) ==
    \/ /\ ~Inside \/ This.means[x] = "global"
       /\ page' = [page EXCEPT ![x] = v]
       /\ UNCHANGED <<calls, kept>>
    \/ /\ Inside /\ This.means[x] = "static"
       /\ kept' = [kept EXCEPT ![This.fn][x] = v]
       /\ UNCHANGED <<page, calls>>
    \/ /\ Inside /\ This.means[x] = "local"
       /\ calls' = Append(Front(calls), [This EXCEPT !.locals[x] = v])
       /\ UNCHANGED <<page, kept>>

Mean(x, m) == calls' = Append(Front(calls), [This EXCEPT !.means[x] = m])

(* A declaration speaks of names that mean nothing yet: global leaves any   *)
(* other name alone, static assigns to it.                                  *)
DeclareGlobal(x) ==
    /\ Inside
    /\ IF Denotes(x) = NoValue /\ This.means[x] = "local"
       THEN Mean(x, "global") ELSE UNCHANGED calls
    /\ UNCHANGED <<page, kept>>

DeclareStatic(x, v) ==
    \/ /\ Inside /\ This.means[x] = "local" /\ Denotes(x) = NoValue
       /\ Mean(x, "static")
       /\ kept' = IF kept[This.fn][x] = NoValue
                  THEN [kept EXCEPT ![This.fn][x] = v] ELSE kept
       /\ UNCHANGED page
    \/ /\ Inside /\ This.means[x] = "static"
       /\ UNCHANGED langVars
    \/ /\ ~Inside \/ This.means[x] = "global" \/ (This.means[x] = "local" /\ Denotes(x) # NoValue)
       /\ Assign(x, v)

Unset(x) == Denotes(x) # NoValue /\ Assign(x, NoValue)

Call(f, args) ==
    /\ Len(calls) < MaxCalls
    /\ calls' = Append(calls,
                    [fn |-> f, means |-> [x \in Name |-> "local"],
                     locals |-> [x \in Name |-> IF x \in Params[f] THEN args[x] ELSE NoValue]])
    /\ UNCHANGED <<page, kept>>

Return == Inside /\ calls' = Front(calls) /\ UNCHANGED <<page, kept>>

=============================================================================
