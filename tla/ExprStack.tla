------------------------------ MODULE ExprStack ------------------------------
(***************************************************************************)
(* The expression stack of stack.c as the functions of a page see it.  Of a *)
(* value only what decides a path of those functions is kept: its type,     *)
(* whether its text is empty, and whether a number still points to the      *)
(* variable it was read from.  A function of the page is an operator from the stack  *)
(* it meets to the stacks it may leave.                                     *)
(***************************************************************************)
EXTENDS Naturals, Sequences

Number == {"number"}                \* LNUMBER
Double == {"double"}                \* DNUMBER
Text   == {"text", "empty"}         \* STRING
Read   == {"variable"}              \* a number, with its var pointer
Value  == Number \cup Double \cup Text \cup Read

Has(s, n)  == Len(s) >= n
Arg(s, k)  == s[Len(s) - k + 1]     \* the k-th value popped
Is(s, k, V) == Has(s, k) /\ Arg(s, k) \in V
Blank(s, k) == Is(s, k, {"empty"})

(* What is left when n values were popped; Pop of an empty stack is NULL.   *)
Rest(s, n) == SubSeq(s, 1, IF Has(s, n) THEN Len(s) - n ELSE 0)

(* A function that pops n values and pushes none.                          *)
Drops(s, n) == {Rest(s, n)}

(* One that pushes one of V, unless it ran out of values: then it reports a *)
(* stack error and pushes nothing.                                          *)
Gives(s, n, V) == IF Has(s, n) THEN {Append(Rest(s, n), v) : v \in V} ELSE Drops(s, n)

(* One that pushes something whatever happens.                             *)
Answers(s, n, V) == {Append(Rest(s, n), v) : v \in V}

(* One whose failure shows as the lack of a value.                         *)
MayGive(s, n, V) == Gives(s, n, V) \cup Drops(s, n)

-----------------------------------------------------------------------------
(* Push of the forms the grammar knows.  A name that is not defined reads   *)
(* as an empty string; an index is popped first.                            *)
PushLiteral(s) == {Append(s, v) : v \in Number \cup Double \cup Text}
PushVar(s)     == {Append(s, v) : v \in Read \cup Double \cup Text}
PushNext(s)    == PushVar(s)
PushIndexed(s) == Gives(s, 1, Read \cup Double \cup Text)
ClearStack     == << >>
=============================================================================
