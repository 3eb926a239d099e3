----------------------------- MODULE ArrayLanguage -----------------------------
(***************************************************************************)
(* What a page may expect of its arrays: a list of indices and values, in   *)
(* the order they came, and a cursor that next and prev move over it.  A    *)
(* plain variable is the first element of a list.                           *)
(***************************************************************************)
EXTENDS Integers, Sequences, FiniteSets, FiniteSetsExt

CONSTANTS
    Name,       \* the variables of the page
    Index,      \* the indices it writes; an append takes the next number
    MaxLen      \* MaxLen[a] bounds the length of the list of a

Value == {0, 1}
Blank == -1
Past  == -1

VARIABLES
    arr,        \* the lists; one that is empty is not set
    cur,        \* the cursors: the element given last, 0 for none yet, Past for none left
    out         \* what the last call answered, << >> for nothing
avars == <<arr, cur, out>>

Element(k, v) == [key |-> k, val |-> v]

Init == arr = [a \in Name |-> << >>] /\ cur = [a \in Name |-> 0] /\ out = << >>

-----------------------------------------------------------------------------
IsSet(a)    == arr[a] # << >>
At(a, k)    == {i \in DOMAIN arr[a] : arr[a][i].key = k}
Values(a)   == {arr[a][i].val : i \in DOMAIN arr[a]}

(* The operators += 1 and &= 0; what is not set takes the value itself.     *)
Operator == {"plus", "and"}
Combine(op, old) == IF op = "plus" THEN old + 1 ELSE 0
ValueFor(op)     == IF op = "plus" THEN 1 ELSE 0

Keeps(a, l)  == arr'[a] = l
Points(a, i) == cur'[a] = i

(* What is stored: a value, or the value and the further elements of a list. *)
Source == {<<Element(0, v)>> : v \in Value} \cup {arr[b] : b \in {n \in Name : IsSet(n)}}

(* A new list is what is stored, under an index of its own.                 *)
New(k, src) == <<Element(k, src[1].val)>> \o Tail(src)

Assign(a, src) ==
    /\ Points(a, cur[a])
    /\ IF ~IsSet(a) THEN Keeps(a, New(0, src))
       ELSE Keeps(a, <<[arr[a][1] EXCEPT !.val = src[1].val]>> \o Tail(IF Len(src) > 1 THEN src ELSE arr[a]))

Append1(a, src) ==
    /\ Points(a, cur[a])
    /\ IF ~IsSet(a) THEN Keeps(a, New(0, src))
       ELSE Len(src) = 1 /\ Keeps(a, Append(arr[a], Element(Len(arr[a]), src[1].val)))

AssignAt(a, k, src) ==
    /\ Points(a, cur[a])
    /\ IF ~IsSet(a) THEN Keeps(a, New(k, src))
       ELSE IF At(a, k) = {} THEN Len(src) = 1 /\ Keeps(a, Append(arr[a], Element(k, src[1].val)))
       ELSE \E i \in At(a, k) : Keeps(a, [arr[a] EXCEPT ![i].val = src[1].val])

(* An operator on the first element, or on that with index k.               *)
Change(a, ks, op) ==
    LET is == IF ks = {} THEN {1} \cap DOMAIN arr[a] ELSE UNION {At(a, k) : k \in ks}
        k  == IF ks = {} THEN 0 ELSE CHOOSE n \in ks : TRUE
    IN  /\ Points(a, cur[a])
        /\ IF is = {} THEN Keeps(a, Append(arr[a], Element(k, ValueFor(op))))
           ELSE \E i \in is : Keeps(a, [arr[a] EXCEPT ![i].val = Combine(op, @)])

UnSet(a) == Keeps(a, << >>) /\ Points(a, 0)

(* The values of a list in order, under the indices as they were.           *)
Sort(a) ==
    \E vals \in [DOMAIN arr[a] -> Value] :
        /\ \A i, j \in DOMAIN vals : i < j => vals[i] <= vals[j]
        /\ \A v \in Value : Cardinality({i \in DOMAIN vals : vals[i] = v})
                              = Cardinality({i \in DOMAIN vals : arr[a][i].val = v})
        /\ Keeps(a, [i \in DOMAIN vals |-> [arr[a][i] EXCEPT !.val = vals[i]]])
        /\ Points(a, cur[a])

-----------------------------------------------------------------------------
Answers(n) == out' = <<n>>

Moves(a, i) ==
    /\ Points(a, i)
    /\ Answers(IF i \in DOMAIN arr[a] THEN arr[a][i].val ELSE Blank)

Next1(a) == Moves(a, IF ~IsSet(a) THEN 0 ELSE IF cur[a] \in {Past, Len(arr[a])} THEN Past ELSE cur[a] + 1)
Prev(a)  == Moves(a, IF cur[a] = Past THEN Len(arr[a]) ELSE IF cur[a] = 0 THEN 0 ELSE cur[a] - 1)

Reset(a) == Points(a, 0) /\ Answers(IF IsSet(a) THEN arr[a][1].val ELSE Blank)

(* After end the last element is the one next gives.                        *)
End(a) ==
    IF IsSet(a) THEN Points(a, Len(arr[a]) - 1) /\ Answers(arr[a][Len(arr[a])].val)
    ELSE Points(a, cur[a]) /\ Answers(Blank)

(* The index of the element next gives, and of the first when it gives none *)
(* any more.                                                                *)
Key(a) ==
    /\ Points(a, cur[a])
    /\ Answers(IF ~IsSet(a) \/ cur[a] = Len(arr[a]) THEN Blank
               ELSE IF cur[a] = Past THEN arr[a][1].key ELSE arr[a][cur[a] + 1].key)

Read(a, k)  == Points(a, cur[a]) /\ Answers(IF At(a, k) = {} THEN Blank ELSE arr[a][CHOOSE i \in At(a, k) : TRUE].val)
Count(a)    == Points(a, cur[a]) /\ Answers(Len(arr[a]))
Extremes(a) ==
    /\ Points(a, cur[a])
    /\ IF IsSet(a) THEN Answers(Min(Values(a))) \/ Answers(Max(Values(a))) ELSE Answers(Blank)

Write(a) ==
    \/ \E src \in Source : Assign(a, src) \/ Append1(a, src) \/ \E k \in Index : AssignAt(a, k, src)
    \/ \E op \in Operator : Change(a, {}, op) \/ \E k \in Index : Change(a, {k}, op)
    \/ UnSet(a) \/ Sort(a)

Ask(a) ==
    \/ Next1(a) \/ Prev(a) \/ Reset(a) \/ End(a) \/ Key(a) \/ Count(a) \/ Extremes(a)
    \/ \E k \in Index : Read(a, k)

(* The other variables stay as they are.                                   *)
Others(a) == \A b \in Name \ {a} : arr'[b] = arr[b] /\ cur'[b] = cur[b]

Next ==
    \E a \in Name :
        /\ Others(a)
        /\ \/ out' = << >> /\ Write(a)
           \/ out' # << >> /\ arr'[a] = arr[a] /\ Ask(a)

Spec == Init /\ [][Next]_avars
=============================================================================
