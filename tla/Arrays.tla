-------------------------------- MODULE Arrays --------------------------------
(***************************************************************************)
(* The lists behind the variables of a page (var.c, sort.c): SetVar with an *)
(* index, the cursor of next, prev, reset, end and key, copies of whole     *)
(* arrays, unset, sort, count and the reads.                                *)
(*                                                                         *)
(* Every node of a list is a record in a heap of its variable, linked by    *)
(* next and prev; the first is the node of the symbol tree, and holds the   *)
(* cursor, the count and the last node.  Values are numbers of one bit: the *)
(* buffers that hold their text are left out.                               *)
(***************************************************************************)
EXTENDS Integers, Sequences, FiniteSets, FiniteSetsExt, SequencesExt

CONSTANTS
    Name,       \* the variables of the page
    Index,      \* the indices it writes
    MaxLen,     \* MaxLen[a] bounds the length of the list of a
    Avoided     \* the pitfalls the page keeps clear of

Pitfall == {"taken number", "copy over array", "array in array", "write after unset", "mask element"}

ASSUME ArraysAssumption == Index \subseteq Nat /\ MaxLen \in [Name -> Nat \ {0}] /\ Avoided \subseteq Pitfall

VARIABLES
    var,        \* the variables, each with the nodes of its list
    out         \* what the last call pushed, << >> for nothing
vars == <<var, out>>

Value  == {0, 1}
Blank  == -1
null   == 0     \* NULL
Before == -1    \* (VarTree *)-1
head   == 1

(* A variable that was never made has no node.                             *)
None == [node |-> << >>, lacc |-> Before, lastnode |-> null, count |-> 0, deleted |-> FALSE]

Path(t, n) ==
    LET From[m \in DOMAIN t.node \cup {null}] == IF m = null THEN << >> ELSE <<m>> \o From[t.node[m].next]
    IN  From[n]

Init == var = [a \in Name |-> None] /\ out = << >>

-----------------------------------------------------------------------------
(* GetVar without an index: the node, unless it is deleted.                 *)
GetVar(a) == var[a].node # << >> /\ ~var[a].deleted

Chain(a) == Path(var[a], head)

(* GetVar with an index: the first node that has it.                        *)
FindIndex(t, k) ==
    LET p  == Path(t, head)
        at == {i \in DOMAIN p : t.node[p[i]].key = k}
    IN  IF at = {} THEN null ELSE p[Min(at)]

Pushes(n) == out' = <<n>> /\ UNCHANGED var
Stores(a, t) ==
    /\ \A n \in DOMAIN t.node : t.node[n].val \in Value
    /\ Cardinality(DOMAIN t.node) <= MaxLen[a]
    /\ var' = [var EXCEPT ![a] = t] /\ out' = << >>

(* What a statement stores: a literal, or a variable, whose further         *)
(* elements are copied where the code copies arrays.                        *)
Literal(v) == [v |-> v, src |-> << >>, of |-> << >>]
Whole(b)   == [v |-> var[b].node[head].val, of |-> <<b>>,
               src |-> LET p == Tail(Chain(b)) IN [i \in DOMAIN p |-> var[b].node[p[i]]]]
Source     == {Literal(v) : v \in Value} \cup {Whole(b) : b \in {n \in Name : GetVar(n)}}

copyarray(t, d, src) ==
    LET base == Cardinality(DOMAIN t.node)
        k    == Len(src)
        new  == [n \in base + 1 .. base + k |->
                    [src[n - base] EXCEPT !.next = IF n = base + k THEN null ELSE n + 1,
                                          !.prev = IF n = base + 1 THEN d ELSE n - 1]]
        node == [n \in 1 .. base + k |-> IF n > base THEN new[n]
                                         ELSE IF n = d THEN [t.node[n] EXCEPT !.next = base + 1] ELSE t.node[n]]
    IN  IF src = << >> THEN t
        ELSE IF d # head THEN [t EXCEPT !.node = node]
        ELSE [t EXCEPT !.node = node, !.count = @ + k, !.lastnode = base + k]

Created(k, x) ==
    copyarray([None EXCEPT !.node = <<[key |-> k, val |-> x.v, next |-> null, prev |-> Before]>>,
                           !.lastnode = head, !.count = 1], head, x.src)

(* The operators of SetVar, each with a value that tells: += 1 and &= 0.    *)
Operator == {"plus", "and"}
Combine(op, old) == IF op = "plus" THEN old + 1 ELSE 0
ValueFor(op)     == Literal(IF op = "plus" THEN 1 ELSE 0)

(* SetVar of a variable that is there.                                     *)
SetHead(t, x) == copyarray([t EXCEPT !.node[head].val = x.v, !.deleted = FALSE], head, x.src)

(* A fault: the last node is forgotten.                                    *)
LinkedBehind(t, k, x) ==
    LET last == Last(Path(t, head))
        n    == Cardinality(DOMAIN t.node) + 1
        node == [t.node EXCEPT ![last].next = n] \o <<[key |-> k, val |-> x.v, next |-> null, prev |-> last]>>
    IN  copyarray([t EXCEPT !.node = node, !.count = @ + 1], n, x.src)

(* A node behind the last one of the list.                                  *)
Linked(t, k, x) ==
    LET last == Last(Path(t, head))
        n    == Cardinality(DOMAIN t.node) + 1
        node == [t.node EXCEPT ![last].next = n] \o <<[key |-> k, val |-> x.v, next |-> null, prev |-> last]>>
    IN  copyarray([t EXCEPT !.node = node, !.count = @ + 1, !.lastnode = n], n, x.src)

(* A list copied behind a node of itself, or of another list.               *)
Behind(a, x) == x.of # <<a>> /\ ("array in array" \in Avoided => x.src = << >>)

(* What is copied or added has no index that is there already.              *)
Untaken(k, src) == "taken number" \in Avoided => \A i \in DOMAIN src : src[i].key # k
AfterUnset(a, k) == "write after unset" \in Avoided /\ var[a].deleted => var[a].node[head].key = k
NotUnset(a)      == "write after unset" \in Avoided => ~var[a].deleted

-----------------------------------------------------------------------------
(* $a = x: SetVar in mode 0.                                                *)
Assign(a, x) ==
    IF var[a].node = << >> THEN Untaken(0, x.src) /\ Stores(a, Created(0, x))
    ELSE /\ AfterUnset(a, 0) /\ Untaken(var[a].node[head].key, x.src)
         /\ "copy over array" \in Avoided /\ x.src # << >> => Len(Chain(a)) = 1
         /\ Stores(a, SetHead(var[a], x))

(* $a += x and the like.  What is new takes the value as it is, and what is *)
(* unset stays so.                                                          *)
Change(a, op) ==
    IF var[a].node = << >> THEN Stores(a, Created(0, ValueFor(op)))
    ELSE NotUnset(a) /\ Stores(a, [var[a] EXCEPT !.node[head].val = Combine(op, @)])

(* $a[] = x: mode 1.  The index is the number of nodes.                     *)
Append1(a, x) ==
    IF var[a].node = << >> \/ var[a].deleted
    THEN Untaken(0, x.src) /\ Stores(a, [Created(0, x) EXCEPT !.lacc = var[a].lacc])
    ELSE /\ Behind(a, x)
         /\ "taken number" \in Avoided => FindIndex(var[a], Len(Chain(a))) = null
         /\ Stores(a, Linked(var[a], Len(Chain(a)), x))

(* $a[k] = x: mode 2.                                                       *)
AssignAt(a, k, x) ==
    LET t == var[a]
        n == FindIndex(t, k)
    IN  IF t.node = << >> THEN Untaken(k, x.src) /\ Stores(a, Created(k, x))
        ELSE /\ AfterUnset(a, k)
             /\ IF n = null THEN Behind(a, x) /\ Stores(a, Linked(t, k, x))
                ELSE Stores(a, [t EXCEPT !.node[n].val = x.v, !.deleted = @ /\ n # head])

(* $a[k] += x and the like.  An element knows no &= and no |=.              *)
ChangeAt(a, k, op) ==
    LET t == var[a]
        n == FindIndex(t, k)
        x == ValueFor(op)
    IN  IF t.node = << >> THEN Stores(a, Created(k, x))
        ELSE /\ NotUnset(a)
             /\ IF n = null THEN Stores(a, Linked(t, k, x))
                ELSE /\ "mask element" \in Avoided => op # "and"
                     /\ Stores(a, IF op = "and" THEN t ELSE [t EXCEPT !.node[n].val = Combine(op, @)])

(* A fault: the first node still leads to the next.                        *)
UnSetKeepsNext(a) ==
    IF ~GetVar(a) THEN UNCHANGED var /\ out' = << >>
    ELSE Stores(a, [var[a] EXCEPT !.node = <<[@[head] EXCEPT !.prev = Before]>>, !.count = 1,
                                  !.lacc = Before, !.lastnode = head, !.deleted = TRUE])

(* deletearray: the nodes after the first are dropped.                      *)
UnSet(a) ==
    IF ~GetVar(a) THEN UNCHANGED var /\ out' = << >>
    ELSE Stores(a, [var[a] EXCEPT !.node = <<[@[head] EXCEPT !.next = null, !.prev = Before]>>, !.count = 1,
                                  !.lacc = Before, !.lastnode = head, !.deleted = TRUE])

(* qsort: the values in order, each taken from a place of its own.          *)
Sorted(s) ==
    LET f == CHOOSE g \in Bijection(DOMAIN s, DOMAIN s) : \A i, j \in DOMAIN s : i < j => s[g[i]] <= s[g[j]]
    IN  [i \in DOMAIN s |-> s[f[i]]]

(* The values are taken off the list, sorted and put back.                  *)
Sort(a) ==
    IF ~GetVar(a) THEN UNCHANGED var /\ out' = << >>
    ELSE LET p     == Chain(a)
             array == Sorted([i \in DOMAIN p |-> var[a].node[p[i]].val])
             Of(n) == CHOOSE i \in DOMAIN p : p[i] = n
         IN  Stores(a, [var[a] EXCEPT !.node = [n \in DOMAIN @ |->
                            IF n \in Range(p) THEN [@[n] EXCEPT !.val = array[Of(n)]] ELSE @[n]]])

-----------------------------------------------------------------------------
ValueOf(t, n) == IF n \in {null, Before} THEN Blank ELSE t.node[n].val

Moves(a, n) == var' = [var EXCEPT ![a].lacc = n] /\ out' = <<ValueOf(var[a], n)>>

(* next($a), and $a[] in an expression.                                     *)
Next1(a) ==
    LET t == var[a]
    IN  IF ~GetVar(a) THEN Pushes(Blank)
        ELSE Moves(a, IF t.lacc = Before THEN head ELSE IF t.lacc = null THEN null ELSE t.node[t.lacc].next)

(* A fault: before the first element the cursor goes round to the end.      *)
PrevRound(a) ==
    LET t == var[a]
    IN  IF ~GetVar(a) THEN Pushes(Blank)
        ELSE Moves(a, IF t.lacc \in {null, Before} THEN t.lastnode ELSE t.node[t.lacc].prev)

Prev(a) ==
    LET t == var[a]
    IN  IF ~GetVar(a) THEN Pushes(Blank)
        ELSE Moves(a, IF t.lacc = Before THEN Before ELSE IF t.lacc = null THEN t.lastnode ELSE t.node[t.lacc].prev)

Reset(a) ==
    IF ~GetVar(a) THEN Pushes(Blank)
    ELSE var' = [var EXCEPT ![a].lacc = Before] /\ out' = <<var[a].node[head].val>>

End(a) ==
    LET t == var[a]
    IN  IF ~GetVar(a) THEN Pushes(Blank)
        ELSE var' = [var EXCEPT ![a].lacc = t.node[t.lastnode].prev] /\ out' = <<t.node[t.lastnode].val>>

Key(a) ==
    LET t == var[a]
        n == IF t.lacc \in {null, Before} THEN head ELSE t.node[t.lacc].next
    IN  Pushes(IF GetVar(a) /\ n # null THEN t.node[n].key ELSE Blank)

Read(a, k) == Pushes(ValueOf(var[a], IF GetVar(a) THEN FindIndex(var[a], k) ELSE null))
Count(a)   == Pushes(IF GetVar(a) THEN var[a].count ELSE 0)

Values(a)   == {var[a].node[n].val : n \in Range(Chain(a))}
ArrayMax(a) == Pushes(IF GetVar(a) THEN Max(Values(a)) ELSE Blank)
ArrayMin(a) == Pushes(IF GetVar(a) THEN Min(Values(a)) ELSE Blank)

Write(a) ==
    \/ \E x \in Source : Assign(a, x) \/ Append1(a, x) \/ \E k \in Index : AssignAt(a, k, x)
    \/ \E op \in Operator : Change(a, op) \/ \E k \in Index : ChangeAt(a, k, op)
    \/ UnSet(a) \/ Sort(a)

Ask(a) ==
    \/ Next1(a) \/ Prev(a) \/ Reset(a) \/ End(a) \/ Key(a) \/ Count(a) \/ ArrayMax(a) \/ ArrayMin(a)
    \/ \E k \in Index : Read(a, k)

Next == \E a \in Name : Write(a) \/ Ask(a)
Spec == Init /\ [][Next]_vars

-----------------------------------------------------------------------------
TypeOK ==
    /\ DOMAIN var = Name
    /\ \A a \in Name :
          LET t == var[a]
              n == DOMAIN t.node
          IN  /\ n = 1 .. Cardinality(n) /\ Cardinality(n) <= MaxLen[a]
              /\ \A i \in n : t.node[i] \in [key : Nat, val : Value, next : {null} \cup n, prev : {Before} \cup n]
              /\ t.lacc \in {null, Before} \cup n /\ t.lastnode \in {null} \cup n
              /\ t.count \in Nat /\ t.deleted \in BOOLEAN
    /\ out \in Seq(Int) /\ Len(out) <= 1

(* However a list came about, by appends, by indices, by copies and again   *)
(* after unset, it can be walked both ways between its first and its last   *)
(* node, its count and cursor are its own, and no index names two elements. *)
ListWhole ==
    \A a \in Name : var[a].node # << >> =>
        LET t == var[a]
            p == Chain(a)
        IN  /\ t.lastnode = Last(p) /\ t.count = Len(p) /\ t.lacc \in {null, Before} \cup Range(p)
            /\ \A i \in DOMAIN p : t.node[p[i]].prev = (IF i = 1 THEN Before ELSE p[i - 1])
            /\ \A i, j \in DOMAIN p : t.node[p[i]].key = t.node[p[j]].key => i = j

Elements(a) ==
    LET p == Chain(a)
    IN  IF ~GetVar(a) THEN << >> ELSE [i \in DOMAIN p |-> [key |-> var[a].node[p[i]].key, val |-> var[a].node[p[i]].val]]

Cursor(a) ==
    IF ~GetVar(a) \/ var[a].lacc = Before THEN 0
    ELSE IF var[a].lacc = null THEN -1
    ELSE LET p == Chain(a) IN CHOOSE i \in DOMAIN p : p[i] = var[a].lacc

Language == INSTANCE ArrayLanguage WITH arr <- [a \in Name |-> Elements(a)], cur <- [a \in Name |-> Cursor(a)]

(* The linked nodes do what a page expects of its arrays, and answer as the *)
(* lists of the page's language would.                                      *)
KeepsArrays == Language!Spec
=============================================================================
