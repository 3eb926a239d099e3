----------------------------- MODULE ArraysProofs -----------------------------
(***************************************************************************)
(* What the arrays of a page keep, for any variables, indices and lengths.  *)
(*                                                                         *)
(* A node leads only to nodes made after it, so that every walk ends: that  *)
(* gives the walk its equations, and the types.  Where a page keeps clear   *)
(* of the pitfalls a list is its nodes in the order they were made, and     *)
(* each call does to it what it does to the list of the page's language.    *)
(***************************************************************************)
EXTENDS Arrays, SequenceTheorems, FunctionTheorems, FiniteSetTheorems, WellFoundedInduction,
        NaturalsInduction, TLAPS

(* A node, a variable, and the lists whose nodes lead onward.               *)
Cell   == [key : Nat, val : Nat, next : Nat, prev : Int]
Record == [node : Seq(Cell), lacc : Int, lastnode : Nat, count : Nat, deleted : BOOLEAN]

Onward(t) == \A i \in 1 .. Len(t.node) : t.node[i].next = null \/ t.node[i].next \in i + 1 .. Len(t.node)

-----------------------------------------------------------------------------
(* The least of some numbers.                                              *)
LEMMA NatMin == ASSUME NEW S, S \subseteq Nat, S # {} PROVE Min(S) \in S /\ \A y \in S : Min(S) <= y
<1>1. IsWellFoundedOn(OpToRel(<, Nat), Nat) BY NatLessThanWellFounded
<1>2. \E x \in S : \A y \in S : ~(<<y, x>> \in OpToRel(<, Nat)) BY <1>1, WFMin
<1>3. PICK x \in S : \A y \in S : ~(<<y, x>> \in OpToRel(<, Nat)) BY <1>2
<1>4. ASSUME NEW y \in S PROVE x <= y
  <2>1. ~(<<y, x>> \in OpToRel(<, Nat)) BY <1>3
  <2>2. ~(y < x) BY <2>1 DEF OpToRel
  <2> QED BY <2>2
<1> QED BY <1>4 DEF Min

-----------------------------------------------------------------------------
(* The walk along a list.                                                  *)
Walks(t, S, g) ==
    /\ DOMAIN g = S
    /\ \A m \in S : /\ g[m] \in Seq(1 .. Len(t.node))
                    /\ g[m] = IF m = null THEN << >> ELSE <<m>> \o g[t.node[m].next]

(* From the nodes behind k the walk is given; from k it is one node more.   *)
LEMMA OneMore ==
    ASSUME NEW t \in Record, Onward(t), NEW k \in 1 .. Len(t.node),
           NEW g, Walks(t, {null} \cup k + 1 .. Len(t.node), g)
    PROVE  \E h : Walks(t, {null} \cup k .. Len(t.node), h)
<1> DEFINE n == Len(t.node)
           S == {null} \cup k + 1 .. n
           e == <<k>> \o g[t.node[k].next]
           h == [m \in {null} \cup k .. n |-> IF m = k THEN e ELSE g[m]]
<1>1. n \in Nat /\ k \in 1 .. n
  BY LenProperties DEF Record
<1>2. t.node[k].next \in S
  <2>1. t.node[k].next = null \/ t.node[k].next \in k + 1 .. n
    BY DEF Onward
  <2> QED BY <2>1
<1>3. <<k>> \in Seq(1 .. n) /\ g[t.node[k].next] \in Seq(1 .. n)
  <2>1. <<k>> \in Seq(1 .. n)
    BY <1>1
  <2>2. g[t.node[k].next] \in Seq(1 .. n)
    BY <1>2 DEF Walks
  <2> QED BY <2>1, <2>2
<1>4. e \in Seq(1 .. n)
  <2> HIDE DEF n, S
  <2> QED BY <1>3, ConcatProperties
<1>5. ASSUME NEW m \in {null} \cup k .. n
      PROVE  h[m] \in Seq(1 .. n) /\ h[m] = IF m = null THEN << >> ELSE <<m>> \o h[t.node[m].next]
  <2>1. CASE m = k
    <3>1. t.node[k].next # k /\ t.node[k].next \in {null} \cup k .. n /\ k # null
      BY <1>1, <1>2 DEF null
    <3>2. h[t.node[k].next] = g[t.node[k].next] /\ h[m] = e
      BY <2>1, <3>1
    <3> QED BY <1>4, <2>1, <3>1, <3>2
  <2>2. CASE m = null
    <3>1. m # k /\ m \in S
      BY <1>1, <2>2 DEF null
    <3>2. g[m] \in Seq(1 .. n) /\ g[m] = << >>
      BY <2>2, <3>1 DEF Walks
    <3> QED BY <2>2, <3>1, <3>2
  <2>3. CASE m \in k + 1 .. n
    <3>1. m # k /\ m # null /\ m \in S /\ m \in 1 .. n
      BY <1>1, <2>3 DEF null
    <3>2. t.node[m].next \in {null} \cup m + 1 .. n
      BY <3>1 DEF Onward
    <3>3. t.node[m].next # k /\ t.node[m].next \in {null} \cup k .. n
      BY <1>1, <2>3, <3>2 DEF null
    <3>4. h[t.node[m].next] = g[t.node[m].next] /\ h[m] = g[m]
      BY <3>1, <3>3
    <3>5. g[m] \in Seq(1 .. n) /\ g[m] = <<m>> \o g[t.node[m].next]
      BY <3>1 DEF Walks
    <3> QED BY <3>1, <3>4, <3>5
  <2>4. m = k \/ m = null \/ m \in k + 1 .. n
    BY <1>1
  <2> QED BY <2>1, <2>2, <2>3, <2>4
<1> HIDE DEF e
<1>6. DOMAIN h = {null} \cup k .. n
  OBVIOUS
<1> HIDE DEF h
<1>7. Walks(t, {null} \cup k .. n, h)
  BY <1>5, <1>6 DEF Walks
<1> QED BY <1>7

LEMMA AWalk ==
    ASSUME NEW t \in Record, Onward(t)
    PROVE  \E g : Walks(t, {null} \cup 1 .. Len(t.node), g)
<1> DEFINE n == Len(t.node)
           S(j) == {null} \cup n - j + 1 .. n
           Bad == {j \in 0 .. n : ~\E g : Walks(t, S(j), g)}
<1>1. n \in Nat
  BY LenProperties DEF Record
<1>2. SUFFICES Bad = {}
  <2>1. n \in 0 .. n /\ S(n) = {null} \cup 1 .. n
    BY <1>1
  <2>2. \E g : Walks(t, S(n), g)
    BY <1>2, <2>1
  <2> QED BY <2>1, <2>2
<1>3. SUFFICES ASSUME Bad # {} PROVE FALSE
  OBVIOUS
<1>4. Bad \subseteq Nat
  BY <1>1
<1>5. Min(Bad) \in Bad /\ \A y \in Bad : Min(Bad) <= y
  <2> HIDE DEF Bad
  <2> QED BY <1>3, <1>4, NatMin
<1> DEFINE j == Min(Bad)
<1>6. j \in 0 .. n /\ ~(\E g : Walks(t, S(j), g)) /\ \A y \in Bad : j <= y
  BY <1>5
<1> HIDE DEF j
<1>7. CASE j = 0
  <2> DEFINE g == [m \in {null} |-> << >>]
  <2>1. S(0) = {null}
    BY <1>1
  <2>2. g[null] = << >> /\ DOMAIN g = {null} /\ << >> \in Seq(1 .. n)
    OBVIOUS
  <2>3. Walks(t, S(0), g)
    <3> HIDE DEF g
    <3> QED BY <2>1, <2>2 DEF Walks
  <2> QED BY <1>6, <1>7, <2>3
<1>8. CASE j # 0
  <2>1. j - 1 \in 0 .. n /\ ~(j <= j - 1) /\ n - (j - 1) + 1 = (n - j + 1) + 1 /\ n - j + 1 \in 1 .. n
    BY <1>1, <1>6, <1>8
  <2>2. \E g : Walks(t, S(j - 1), g)
    BY <1>6, <2>1
  <2>3. PICK g : Walks(t, {null} \cup (n - j + 1) + 1 .. n, g)
    BY <2>1, <2>2
  <2>4. \E h : Walks(t, {null} \cup n - j + 1 .. n, h)
    BY <2>1, <2>3, OneMore
  <2> QED BY <1>6, <2>4
<1> QED BY <1>7, <1>8

(* What Path gives: nothing from the end of a list, and else the node and   *)
(* what follows it.                                                        *)
LEMMA PathStep ==
    ASSUME NEW t \in Record, Onward(t)
    PROVE  /\ Path(t, null) = << >>
           /\ \A m \in {null} \cup 1 .. Len(t.node) : Path(t, m) \in Seq(1 .. Len(t.node))
           /\ \A m \in 1 .. Len(t.node) : Path(t, m) = <<m>> \o Path(t, t.node[m].next)
<1> DEFINE n == Len(t.node)
           Is(g) == g = [m \in DOMAIN t.node \cup {null} |-> IF m = null THEN << >> ELSE <<m>> \o g[t.node[m].next]]
           f == CHOOSE g : Is(g)
<1>1. n \in Nat /\ DOMAIN t.node = 1 .. n
  BY LenProperties DEF Record
<1>2. ASSUME NEW m PROVE Path(t, m) = f[m]
  BY DEF Path
<1>3. PICK g : Walks(t, {null} \cup 1 .. n, g)
  BY AWalk
<1>4. DOMAIN g = DOMAIN t.node \cup {null}
  BY <1>1, <1>3 DEF Walks
<1>5. \A m \in DOMAIN t.node \cup {null} : g[m] = IF m = null THEN << >> ELSE <<m>> \o g[t.node[m].next]
  BY <1>1, <1>3 DEF Walks
<1>6. \A m \in DOMAIN t.node : t.node[m].next \in DOMAIN t.node \cup {null} /\ (t.node[m].next # null => t.node[m].next > m)
  <2> TAKE m \in DOMAIN t.node
  <2>1. t.node[m].next = null \/ t.node[m].next \in m + 1 .. n
    BY <1>1 DEF Onward
  <2> QED BY <1>1, <2>1
<1>7. Is(f)
  <2> DEFINE D == DOMAIN t.node \cup {null}
             h == [m \in D |-> g[m]]
             e == [m \in D |-> IF m = null THEN << >> ELSE <<m>> \o h[t.node[m].next]]
  <2>1. ASSUME NEW m \in D PROVE h[m] = e[m]
    <3>1. CASE m = null
      BY <1>5, <3>1
    <3>2. CASE m # null
      <4>1. t.node[m].next \in D
        BY <1>6, <3>2
      <4>2. h[t.node[m].next] = g[t.node[m].next]
        BY <4>1
      <4>3. g[m] = <<m>> \o g[t.node[m].next]
        BY <1>5, <3>2
      <4> QED BY <3>2, <4>2, <4>3
    <3> QED BY <3>1, <3>2
  <2>2. h = e
    BY <2>1
  <2>3. Is(h)
    BY <2>2
  <2>4. \E q : Is(q)
    BY <2>3
  <2> QED BY <2>4
<1> HIDE DEF f
<1>8. \A m \in DOMAIN t.node \cup {null} : f[m] = IF m = null THEN << >> ELSE <<m>> \o f[t.node[m].next]
  BY <1>7
<1>9. \A m \in {null} \cup 1 .. n : f[m] \in Seq(1 .. n)
  <2> DEFINE Bad == {j \in 0 .. n : j # n /\ f[n - j] \notin Seq(1 .. n)}
  <2>0. f[null] \in Seq(1 .. n)
    <3>1. f[null] = << >>
      BY <1>8
    <3>2. << >> \in Seq(1 .. n)
      OBVIOUS
    <3> QED BY <3>1, <3>2
  <2>1. SUFFICES Bad = {}
    <3>1. ASSUME NEW m \in 1 .. n PROVE f[m] \in Seq(1 .. n)
      <4>1. n - m \in 0 .. n /\ n - m # n /\ n - (n - m) = m
        BY <1>1
      <4> QED BY <2>1, <4>1
    <3> QED BY <2>0, <3>1
  <2>2. SUFFICES ASSUME Bad # {} PROVE FALSE
    OBVIOUS
  <2>3. Bad \subseteq Nat
    BY <1>1
  <2>4. PICK j \in Bad : \A y \in Bad : j <= y
    <3> HIDE DEF Bad
    <3> QED BY <2>2, <2>3, NatMin
  <2>5. j \in 0 .. n /\ j # n /\ f[n - j] \notin Seq(1 .. n)
    OBVIOUS
  <2>6. n - j \in 1 .. n
    BY <1>1, <2>5
  <2> DEFINE m == n - j
             x == t.node[m].next
  <2>7. m \in DOMAIN t.node /\ m # null
    BY <1>1, <2>6 DEF null
  <2>8. f[m] = <<m>> \o f[x]
    BY <1>8, <2>7
  <2>9. f[x] \in Seq(1 .. n)
    <3>1. CASE x = null
      BY <2>0, <3>1
    <3>2. CASE x # null
      <4>1. x \in 1 .. n /\ x > m
        BY <1>1, <1>6, <2>7, <3>2
      <4>2. n - x \in 0 .. n /\ n - x # n /\ n - (n - x) = x /\ ~(j <= n - x)
        <5> HIDE DEF x
        <5> QED BY <1>1, <2>5, <4>1
      <4>3. n - x \notin Bad
        BY <2>4, <4>2
      <4> QED BY <4>2, <4>3
    <3> QED BY <3>1, <3>2
  <2>10. <<m>> \in Seq(1 .. n)
    BY <2>6
  <2>11. f[m] \in Seq(1 .. n)
    <3> HIDE DEF m, x
    <3> QED BY <2>8, <2>9, <2>10, ConcatProperties
  <2> QED BY <2>5, <2>11
<1> HIDE DEF f
<1>10. Path(t, null) = << >>
  BY <1>2, <1>8
<1>11. ASSUME NEW m \in {null} \cup 1 .. n PROVE Path(t, m) \in Seq(1 .. n)
  BY <1>2, <1>9
<1>12. ASSUME NEW m \in 1 .. n PROVE Path(t, m) = <<m>> \o Path(t, t.node[m].next)
  <2>1. m \in DOMAIN t.node /\ m # null
    BY <1>1 DEF null
  <2>2. f[m] = <<m>> \o f[t.node[m].next]
    BY <1>8, <2>1
  <2> QED BY <1>2, <2>2
<1> QED BY <1>10, <1>11, <1>12

-----------------------------------------------------------------------------
(* A variable whose links stay within it, and whose cursor too.             *)
Heap(t) ==
    /\ t \in Record /\ Onward(t)
    /\ \A i \in 1 .. Len(t.node) : t.node[i].prev \in {Before} \cup 1 .. Len(t.node)
    /\ t.lacc \in {null, Before} \cup 1 .. Len(t.node)
    /\ IF t.node = << >> THEN t.lastnode = null ELSE t.lastnode \in 1 .. Len(t.node)
    /\ t.deleted => t.lacc = Before

LEMMA Nodes ==
    ASSUME NEW s \in Seq(Cell)
    PROVE  /\ Len(s) \in Nat /\ DOMAIN s = 1 .. Len(s) /\ Cardinality(DOMAIN s) = Len(s)
           /\ s # << >> <=> Len(s) > 0
           /\ \A i \in 1 .. Len(s) : s[i] \in Cell
<1>1. Len(s) \in Nat /\ DOMAIN s = 1 .. Len(s)
  BY LenProperties
<1>2. Cardinality(1 .. Len(s)) = Len(s)
  <2> DEFINE n == Len(s)
  <2>1. n \in Nat
    BY <1>1
  <2> HIDE DEF n
  <2>2. Cardinality(1 .. n) = IF 1 > n THEN 0 ELSE n - 1 + 1
    BY <2>1, FS_Interval
  <2>3. Cardinality(1 .. n) = n
    BY <2>1, <2>2
  <2> QED BY <2>3 DEF n
<1>3. s # << >> <=> Len(s) > 0
  BY <1>1, EmptySeq
<1>4. \A i \in 1 .. Len(s) : s[i] \in Cell
  BY ElementOfSeq
<1> QED BY <1>1, <1>2, <1>3, <1>4

(* A list walked from its first node.                                      *)
LEMMA FromHead ==
    ASSUME NEW t, Heap(t), t.node # << >>
    PROVE  /\ Path(t, head) \in Seq(1 .. Len(t.node)) /\ Path(t, head) # << >>
           /\ Path(t, head)[1] = head
           /\ Last(Path(t, head)) \in 1 .. Len(t.node)
<1> DEFINE n == Len(t.node)
           p == Path(t, t.node[head].next)
<1>1. t \in Record /\ Onward(t) /\ n \in Nat /\ head \in 1 .. n
  BY Nodes DEF Heap, Record, head
<1>2. t.node[head].next \in {null} \cup 1 .. n
  <2>1. t.node[head].next = null \/ t.node[head].next \in head + 1 .. n
    BY <1>1 DEF Onward
  <2> QED BY <1>1, <2>1 DEF head
<1>3. p \in Seq(1 .. n) /\ Path(t, head) \in Seq(1 .. n) /\ Path(t, head) = <<head>> \o p
  BY <1>1, <1>2, PathStep
<1> HIDE DEF p
<1>4. <<head>> \in Seq(1 .. n) /\ Len(<<head>>) = 1 /\ <<head>>[1] = head
  BY <1>1
<1> DEFINE q == Path(t, head)
<1>5. Len(q) = 1 + Len(p) /\ q[1] = head
  BY <1>3, <1>4, ConcatProperties, LenProperties
<1>6. Len(p) \in Nat
  BY <1>3, LenProperties
<1> HIDE DEF q, n
<1>7. q \in Seq(1 .. n)
  BY <1>3 DEF q
<1>8. q # << >>
  BY <1>5, <1>6, <1>7, EmptySeq
<1>9. Last(q) \in 1 .. n
  <2>1. Len(q) \in 1 .. Len(q)
    BY <1>5, <1>6
  <2> QED BY <1>7, <2>1, ElementOfSeq DEF Last
<1> QED BY <1>5, <1>7, <1>8, <1>9 DEF q, n

-----------------------------------------------------------------------------
(* What copyarray gives: the nodes there were, d leading on, and behind     *)
(* them those of src in a chain.                                           *)
Copied(c, t, d, src) ==
    /\ c \in Record
    /\ Len(c.node) = Len(t.node) + Len(src)
    /\ \A i \in 1 .. Len(t.node) :
          c.node[i] = IF i = d THEN [t.node[i] EXCEPT !.next = Len(t.node) + 1] ELSE t.node[i]
    /\ \A j \in 1 .. Len(src) :
          c.node[Len(t.node) + j] =
             [src[j] EXCEPT !.next = IF j = Len(src) THEN null ELSE Len(t.node) + j + 1,
                            !.prev = IF j = 1 THEN d ELSE Len(t.node) + j - 1]
    /\ c.lacc = t.lacc /\ c.deleted = t.deleted
    /\ c.count = IF d = head THEN t.count + Len(src) ELSE t.count
    /\ c.lastnode = IF d = head THEN Len(t.node) + Len(src) ELSE t.lastnode

LEMMA CellNext == ASSUME NEW e \in Cell, NEW x \in Nat PROVE [e EXCEPT !.next = x] \in Cell
  BY DEF Cell

LEMMA CellLinks ==
    ASSUME NEW e \in Cell, NEW x \in Nat, NEW y \in Int PROVE [e EXCEPT !.next = x, !.prev = y] \in Cell
  BY DEF Cell

LEMMA WithNodes ==
    ASSUME NEW t \in Record, NEW s \in Seq(Cell), NEW m \in Nat, NEW l \in Nat
    PROVE  /\ [t EXCEPT !.node = s] \in Record
           /\ [t EXCEPT !.node = s, !.count = m, !.lastnode = l] \in Record
  BY DEF Record

LEMMA Copying ==
    ASSUME NEW t \in Record, NEW d \in 1 .. Len(t.node), NEW src \in Seq(Cell), src # << >>
    PROVE  Copied(copyarray(t, d, src), t, d, src)
<1> DEFINE n == Cardinality(DOMAIN t.node)
           k == Len(src)
           New(i) == [src[i - n] EXCEPT !.next = IF i = n + k THEN null ELSE i + 1,
                                        !.prev = IF i = n + 1 THEN d ELSE i - 1]
           new == [i \in n + 1 .. n + k |-> New(i)]
           Old(i) == IF i = d THEN [t.node[i] EXCEPT !.next = n + 1] ELSE t.node[i]
           node == [i \in 1 .. n + k |-> IF i > n THEN new[i] ELSE Old(i)]
           c == copyarray(t, d, src)
<1>1. /\ n \in Nat /\ k \in Nat /\ k > 0 /\ d \in 1 .. n /\ n = Len(t.node)
      /\ \A i \in 1 .. n : t.node[i] \in Cell
      /\ \A j \in 1 .. k : src[j] \in Cell
  BY Nodes DEF Record
<1>3. c = IF d # head THEN [t EXCEPT !.node = node]
          ELSE [t EXCEPT !.node = node, !.count = t.count + k, !.lastnode = n + k]
  BY DEF copyarray
<1> HIDE DEF c
<1> HIDE DEF n, k
<1>4. ASSUME NEW i \in 1 .. n PROVE node[i] = Old(i) /\ Old(i) \in Cell
  <2>1. i \in 1 .. n + k /\ ~(i > n)
    BY <1>1
  <2>2. node[i] = Old(i)
    BY <2>1
  <2>3. [t.node[i] EXCEPT !.next = n + 1] \in Cell
    <3>1. t.node[i] \in Cell /\ n + 1 \in Nat
      BY <1>1
    <3> QED BY <3>1, CellNext
  <2>4. t.node[i] \in Cell
    BY <1>1
  <2> QED BY <2>2, <2>3, <2>4
<1>5. ASSUME NEW j \in 1 .. k
      PROVE  /\ node[n + j] = [src[j] EXCEPT !.next = IF j = k THEN null ELSE n + j + 1,
                                             !.prev = IF j = 1 THEN d ELSE n + j - 1]
             /\ node[n + j] \in Cell
  <2> DEFINE i == n + j
             x == IF j = k THEN null ELSE n + j + 1
             y == IF j = 1 THEN d ELSE n + j - 1
             x2 == IF i = n + k THEN null ELSE i + 1
             y2 == IF i = n + 1 THEN d ELSE i - 1
  <2>1. i \in n + 1 .. n + k /\ i \in 1 .. n + k /\ i > n /\ i - n = j /\ x = x2 /\ y = y2
    BY <1>1
  <2>2. node[i] = New(i)
    <3> HIDE DEF i, New
    <3> QED BY <2>1
  <2>3. New(i) = [src[i - n] EXCEPT !.next = x2, !.prev = y2]
    OBVIOUS
  <2>4. x \in Nat /\ y \in Int /\ src[j] \in Cell
    BY <1>1 DEF null
  <2> HIDE DEF x, y, x2, y2, i, node, New
  <2>5. node[i] = [src[j] EXCEPT !.next = x, !.prev = y]
    BY <2>1, <2>2, <2>3
  <2>6. node[i] \in Cell
    <3> DEFINE e == src[j]
    <3>1. e \in Cell
      BY <2>4
    <3>2. node[i] = [e EXCEPT !.next = x, !.prev = y]
      BY <2>5
    <3> HIDE DEF e
    <3>3. [e EXCEPT !.next = x, !.prev = y] \in Cell
      BY <2>4, <3>1, CellLinks
    <3> QED BY <3>2, <3>3
  <2> QED BY <2>5, <2>6 DEF x, y, i
<1>6. node \in Seq(Cell) /\ Len(node) = n + k
  <2>1. ASSUME NEW i \in 1 .. n + k PROVE node[i] \in Cell
    <3>1. CASE i \in 1 .. n
      <4> HIDE DEF node
      <4> QED BY <1>4, <3>1
    <3>2. CASE i \notin 1 .. n
      <4>1. i - n \in 1 .. k /\ n + (i - n) = i
        BY <1>1, <3>2
      <4> HIDE DEF node
      <4>2. node[n + (i - n)] \in Cell
        BY <1>5, <4>1
      <4> QED BY <4>1, <4>2
    <3> QED BY <3>1, <3>2
  <2>2. n + k \in Nat
    BY <1>1
  <2>3. DOMAIN node = 1 .. n + k /\ node = [i \in 1 .. n + k |-> node[i]]
    OBVIOUS
  <2> HIDE DEF node
  <2>4. node \in [1 .. n + k -> Cell]
    BY <2>1, <2>3
  <2>5. node \in Seq(Cell)
    BY <2>2, <2>4, IsASeq
  <2> QED BY <2>2, <2>3, <2>5, LenProperties
<1> HIDE DEF node
<1>7. /\ c \in Record /\ c.node = node /\ c.lacc = t.lacc /\ c.deleted = t.deleted
      /\ c.count = IF d = head THEN t.count + k ELSE t.count
      /\ c.lastnode = IF d = head THEN n + k ELSE t.lastnode
  <2>1. t.count + k \in Nat /\ n + k \in Nat
    BY <1>1 DEF Record
  <2>2. CASE d = head
    <3>1. c = [t EXCEPT !.node = node, !.count = t.count + k, !.lastnode = n + k]
      BY <1>3, <2>2
    <3>2. c \in Record
      BY <1>6, <2>1, <3>1, WithNodes
    <3> QED BY <2>2, <3>1, <3>2 DEF Record
  <2>3. CASE d # head
    <3>1. c = [t EXCEPT !.node = node]
      BY <1>3, <2>3
    <3>2. c \in Record
      BY <1>6, <2>1, <3>1, WithNodes
    <3> QED BY <2>3, <3>1, <3>2 DEF Record
  <2> QED BY <2>2, <2>3
<1>8. /\ \A i \in 1 .. n : node[i] = IF i = d THEN [t.node[i] EXCEPT !.next = n + 1] ELSE t.node[i]
      /\ \A j \in 1 .. k : node[n + j] = [src[j] EXCEPT !.next = IF j = k THEN null ELSE n + j + 1,
                                                        !.prev = IF j = 1 THEN d ELSE n + j - 1]
  BY <1>4, <1>5
<1> QED BY <1>1, <1>6, <1>7, <1>8 DEF Copied, c, k

(* So a heap stays one, whichever of its nodes is led on.                   *)
LEMMA CopyHeap ==
    ASSUME NEW t, Heap(t), NEW d \in 1 .. Len(t.node), NEW src \in Seq(Cell)
    PROVE  Heap(copyarray(t, d, src)) /\ (copyarray(t, d, src)).node # << >>
<1> DEFINE c == copyarray(t, d, src)
           n == Len(t.node)
           k == Len(src)
<1>1. t \in Record /\ n \in Nat /\ k \in Nat /\ t.node # << >> /\ d \in 1 .. n
  BY Nodes, LenProperties DEF Heap, Record
<1>2. CASE src = << >>
  BY <1>1, <1>2 DEF copyarray
<1>3. CASE src # << >>
  <2>1. Copied(c, t, d, src)
    BY <1>1, <1>3, Copying
  <2>2. k > 0
    BY <1>1, <1>3, Nodes
  <2> HIDE DEF c
  <2> DEFINE l == Len(c.node)
  <2>3. c \in Record /\ l = n + k
    BY <2>1 DEF Copied
  <2> HIDE DEF l, n, k
  <2>4. ASSUME NEW i \in 1 .. n
        PROVE  /\ c.node[i].next = null \/ c.node[i].next \in i + 1 .. l
               /\ c.node[i].prev \in {Before} \cup 1 .. l
    <3>1. /\ t.node[i].next = null \/ t.node[i].next \in i + 1 .. n
          /\ t.node[i].prev \in {Before} \cup 1 .. n
          /\ t.node[i] \in Cell
      BY Nodes DEF Heap, Onward, Record, n
    <3>2. c.node[i] = IF i = d THEN [t.node[i] EXCEPT !.next = n + 1] ELSE t.node[i]
      BY <2>1 DEF Copied, n
    <3>3. CASE i = d
      <4>1. c.node[i].next = n + 1 /\ c.node[i].prev = t.node[i].prev
        BY <3>1, <3>2, <3>3 DEF Cell
      <4> QED BY <1>1, <2>2, <2>3, <3>1, <4>1
    <3>4. CASE i # d
      <4>1. c.node[i] = t.node[i]
        BY <3>2, <3>4
      <4> QED BY <1>1, <2>2, <2>3, <3>1, <4>1
    <3> QED BY <3>3, <3>4
  <2>5. ASSUME NEW j \in 1 .. k
        PROVE  /\ c.node[n + j].next = null \/ c.node[n + j].next \in n + j + 1 .. l
               /\ c.node[n + j].prev \in {Before} \cup 1 .. l
    <3> DEFINE x == IF j = k THEN null ELSE n + j + 1
               y == IF j = 1 THEN d ELSE n + j - 1
    <3>1. c.node[n + j] = [src[j] EXCEPT !.next = x, !.prev = y] /\ src[j] \in Cell
      BY <2>1, Nodes DEF Copied, n, k
    <3>2. /\ x = null \/ x \in n + j + 1 .. l
          /\ y \in 1 .. l
      BY <1>1, <2>2, <2>3
    <3> HIDE DEF x, y
    <3>3. c.node[n + j].next = x /\ c.node[n + j].prev = y
      BY <3>1 DEF Cell
    <3> QED BY <3>2, <3>3
  <2>6. ASSUME NEW i \in 1 .. l
        PROVE  /\ c.node[i].next = null \/ c.node[i].next \in i + 1 .. l
               /\ c.node[i].prev \in {Before} \cup 1 .. l
    <3>1. CASE i \in 1 .. n
      BY <2>4, <3>1
    <3>2. CASE i \notin 1 .. n
      <4>1. i - n \in 1 .. k /\ n + (i - n) = i
        BY <1>1, <2>3, <3>2
      <4> DEFINE j == i - n
      <4>2. j \in 1 .. k /\ n + j = i
        BY <4>1
      <4> HIDE DEF j
      <4> QED BY <2>5, <4>2
    <3> QED BY <3>1, <3>2
  <2>7. c.lacc \in {null, Before} \cup 1 .. l /\ (c.deleted => c.lacc = Before)
    <3>1. c.lacc = t.lacc /\ c.deleted = t.deleted
      BY <2>1 DEF Copied
    <3>2. t.lacc \in {null, Before} \cup 1 .. n /\ (t.deleted => t.lacc = Before)
      BY DEF Heap, n
    <3>3. 1 .. n \subseteq 1 .. l
      BY <1>1, <2>3
    <3> QED BY <3>1, <3>2, <3>3
  <2>8. c.lastnode \in 1 .. l
    <3>1. c.lastnode = IF d = head THEN l ELSE t.lastnode
      BY <2>1, <2>3 DEF Copied, n, k
    <3>2. t.lastnode \in 1 .. n
      BY <1>1 DEF Heap, n
    <3> QED BY <1>1, <2>2, <2>3, <3>1, <3>2
  <2>9. c.node # << >>
    BY <1>1, <2>2, <2>3, Nodes DEF Record, l
  <2>10. Heap(c)
    BY <2>3, <2>6, <2>7, <2>8, <2>9 DEF Heap, Onward, l
  <2> QED BY <2>9, <2>10 DEF c
<1> QED BY <1>2, <1>3

-----------------------------------------------------------------------------
(* What the calls store is a heap.                                         *)
LEMMA EmptyHeap == Heap(None)
<1>1. None.node = << >> /\ None.lacc = Before /\ None.lastnode = null /\ None.deleted = FALSE /\ None.count = 0
  BY DEF None
<1>2. << >> \in Seq(Cell) /\ Len(<< >>) = 0
  BY EmptySeq
<1>3. None \in Record
  BY <1>2 DEF None, Record, Before, null
<1> HIDE DEF None
<1> QED BY <1>1, <1>2, <1>3 DEF Heap, Onward

(* Nodes with the same links.                                              *)
LEMMA SameLinks ==
    ASSUME NEW t, Heap(t), NEW u \in Record, u.lacc = t.lacc, u.lastnode = t.lastnode,
           u.deleted = t.deleted \/ u.deleted = FALSE, Len(u.node) = Len(t.node),
           \A i \in 1 .. Len(t.node) : u.node[i].next = t.node[i].next /\ u.node[i].prev = t.node[i].prev
    PROVE  Heap(u)
<1>1. t \in Record /\ Onward(t) /\ (t.node = << >> <=> u.node = << >>)
  BY Nodes DEF Heap, Record
<1>2. Onward(u)
  BY <1>1 DEF Onward
<1>3. /\ \A i \in 1 .. Len(u.node) : u.node[i].prev \in {Before} \cup 1 .. Len(u.node)
      /\ u.lacc \in {null, Before} \cup 1 .. Len(u.node)
      /\ u.deleted => u.lacc = Before
  BY DEF Heap
<1>4. IF u.node = << >> THEN u.lastnode = null ELSE u.lastnode \in 1 .. Len(u.node)
  BY <1>1 DEF Heap
<1> QED BY <1>2, <1>3, <1>4 DEF Heap

(* An element with a value, and one that is not deleted any more.           *)
Revalued(u, t, i, v, d) ==
    /\ Heap(u) /\ Len(u.node) = Len(t.node) /\ u.lacc = t.lacc /\ u.lastnode = t.lastnode
    /\ u.count = t.count /\ u.deleted = d
    /\ \A j \in 1 .. Len(t.node) : u.node[j] = IF j = i THEN [t.node[i] EXCEPT !.val = v] ELSE t.node[j]

LEMMA ValHeap ==
    ASSUME NEW t, Heap(t), NEW i \in 1 .. Len(t.node), NEW v \in Nat, NEW d \in BOOLEAN, d => t.deleted
    PROVE  Revalued([t EXCEPT !.node[i].val = v, !.deleted = d], t, i, v, d)
<1> DEFINE s == t.node
           e == [s[i] EXCEPT !.val = v]
           s2 == [s EXCEPT ![i] = e]
           u == [t EXCEPT !.node[i].val = v, !.deleted = d]
<1>1. t \in Record /\ s \in Seq(Cell) /\ s[i] \in Cell /\ i \in 1 .. Len(s)
  BY Nodes DEF Heap, Record
<1>2. e \in Cell /\ e.next = s[i].next /\ e.prev = s[i].prev
  BY <1>1 DEF Cell
<1>3. u = [t EXCEPT !.node = s2, !.deleted = d]
  BY <1>1 DEF Record
<1> HIDE DEF e, u
<1>4. s2 \in Seq(Cell) /\ Len(s2) = Len(s) /\ \A j \in 1 .. Len(s) : s2[j] = IF j = i THEN e ELSE s[j]
  BY <1>1, <1>2, ExceptSeq
<1> HIDE DEF s2
<1>5. /\ u \in Record /\ u.node = s2 /\ u.lacc = t.lacc /\ u.lastnode = t.lastnode
      /\ u.count = t.count /\ u.deleted = d
  BY <1>1, <1>3, <1>4 DEF Record
<1>6. \A j \in 1 .. Len(t.node) : u.node[j].next = t.node[j].next /\ u.node[j].prev = t.node[j].prev
  BY <1>2, <1>4, <1>5
<1>7. Heap(u)
  BY <1>4, <1>5, <1>6, SameLinks
<1> QED BY <1>4, <1>5, <1>7 DEF u, e, Revalued

LEMMA NewHeap ==
    ASSUME NEW k \in Nat, NEW x, x.v \in Nat, x.src \in Seq(Cell), NEW l \in {null, Before}
    PROVE  Heap([Created(k, x) EXCEPT !.lacc = l]) /\ Heap(Created(k, x))
<1> DEFINE e == [key |-> k, val |-> x.v, next |-> null, prev |-> Before]
           t == [None EXCEPT !.node = <<e>>, !.lastnode = head, !.count = 1]
           c == copyarray(t, head, x.src)
<1>1. e \in Cell /\ e.next = null /\ e.prev = Before
  BY DEF Cell, null, Before
<1> HIDE DEF e
<1>2. <<e>> \in Seq(Cell) /\ Len(<<e>>) = 1 /\ <<e>>[1] = e /\ <<e>> # << >>
  BY <1>1
<1>3. /\ t \in Record /\ t.node = <<e>> /\ t.lacc = Before /\ t.lastnode = head /\ t.deleted = FALSE
  <2> DEFINE s == <<e>>
  <2>1. s \in Seq(Cell)
    BY <1>2
  <2>2. None \in Record /\ None.lacc = Before /\ None.deleted = FALSE
    <3>1. None \in Record
      BY EmptyHeap DEF Heap
    <3> QED BY <3>1 DEF None
  <2> HIDE DEF s
  <2>3. /\ t \in Record /\ t.node = s /\ t.lacc = Before /\ t.lastnode = head /\ t.deleted = FALSE
    <3> DEFINE w == None
    <3>1. w \in Record /\ w.lacc = Before /\ w.deleted = FALSE /\ head \in Nat /\ 1 \in Nat
      BY <2>2 DEF head
    <3>2. t = [w EXCEPT !.node = s, !.lastnode = head, !.count = 1]
      BY DEF s
    <3> HIDE DEF w, t
    <3> QED BY <2>1, <3>1, <3>2 DEF Record
  <2> QED BY <2>3 DEF s
<1> HIDE DEF t
<1>4. Heap(t) /\ head \in 1 .. Len(t.node)
  BY <1>1, <1>2, <1>3 DEF Heap, Onward, head
<1>5. Heap(c)
  BY <1>4, CopyHeap
<1>6. c.deleted = FALSE
  <2>1. CASE x.src = << >>
    BY <2>1, <1>3 DEF copyarray
  <2>2. CASE x.src # << >>
    <3>1. Copied(c, t, head, x.src)
      BY <2>2, <1>3, <1>4, Copying
    <3> QED BY <1>3, <3>1 DEF Copied
  <2> QED BY <2>1, <2>2
<1>7. Created(k, x) = c
  BY DEF Created, t, e
<1> HIDE DEF c
<1>8. Heap([c EXCEPT !.lacc = l])
  <2> DEFINE u == [c EXCEPT !.lacc = l]
  <2>0. c \in Record /\ l \in Int
    BY <1>5 DEF Heap, null, Before
  <2>1. /\ u \in Record /\ u.node = c.node /\ u.lacc = l /\ u.lastnode = c.lastnode /\ u.deleted = FALSE
    BY <1>6, <2>0 DEF Record
  <2> HIDE DEF u
  <2>2. Heap(u)
    BY <1>5, <2>1 DEF Heap, Onward
  <2> QED BY <2>2 DEF u
<1> QED BY <1>5, <1>7, <1>8

(* A node behind the last one.                                             *)
LEMMA LinkHeap ==
    ASSUME NEW t, Heap(t), t.node # << >>, NEW k \in Nat, NEW x, x.v \in Nat, x.src \in Seq(Cell)
    PROVE  Heap(Linked(t, k, x))
<1> DEFINE m == Len(t.node)
           last == Last(Path(t, head))
           n == Cardinality(DOMAIN t.node) + 1
           s1 == [t.node EXCEPT ![last].next = n]
           e == [key |-> k, val |-> x.v, next |-> null, prev |-> last]
           s == s1 \o <<e>>
           u == [t EXCEPT !.node = s, !.count = @ + 1, !.lastnode = n]
<1>1. /\ t \in Record /\ t.node \in Seq(Cell) /\ m \in Nat /\ n = m + 1
      /\ last \in 1 .. m /\ t.node[last] \in Cell
  BY FromHead, Nodes DEF Heap, Record
<1>2. Linked(t, k, x) = copyarray(u, n, x.src)
  BY DEF Linked
<1> HIDE DEF n, last
<1>3. e \in Cell /\ e.next = null /\ e.prev = last
  BY <1>1 DEF Cell, null
<1> DEFINE f == [t.node[last] EXCEPT !.next = n]
<1>4. f \in Cell /\ f.next = n /\ f.prev = t.node[last].prev /\ s1 = [t.node EXCEPT ![last] = f]
  <2> DEFINE g == t.node[last]
  <2>1. g \in Cell /\ n \in Nat
    BY <1>1
  <2>2. f = [g EXCEPT !.next = n] /\ s1 = [t.node EXCEPT ![last] = f]
    OBVIOUS
  <2> HIDE DEF f, g, s1
  <2>3. f \in Cell /\ f.next = n /\ f.prev = g.prev
    BY <2>1, <2>2 DEF Cell
  <2> QED BY <2>2, <2>3 DEF g
<1> HIDE DEF e, f, s1
<1>5. s1 \in Seq(Cell) /\ Len(s1) = m /\ \A i \in 1 .. m : s1[i] = IF i = last THEN f ELSE t.node[i]
  BY <1>1, <1>4, ExceptSeq
<1>6. <<e>> \in Seq(Cell) /\ Len(<<e>>) = 1 /\ <<e>>[1] = e
  BY <1>3
<1>7. s \in Seq(Cell) /\ Len(s) = n /\ s[n] = e /\ \A i \in 1 .. m : s[i] = s1[i]
  <2>1. /\ s \in Seq(Cell) /\ Len(s) = Len(s1) + Len(<<e>>)
        /\ \A i \in 1 .. Len(s1) + Len(<<e>>) : s[i] = IF i <= Len(s1) THEN s1[i] ELSE <<e>>[i - Len(s1)]
    BY <1>5, <1>6, ConcatProperties
  <2> HIDE DEF s
  <2>2. n \in 1 .. m + 1 /\ ~(n <= m) /\ n - m = 1
    BY <1>1
  <2>3. s[n] = <<e>>[1]
    BY <1>5, <1>6, <2>1, <2>2
  <2> QED BY <1>1, <1>5, <1>6, <2>1, <2>3
<1> HIDE DEF s
<1>8. u \in Record /\ u.node = s /\ u.lacc = t.lacc /\ u.deleted = t.deleted /\ u.lastnode = n
  <2> DEFINE c == t.count + 1
  <2>1. c \in Nat /\ u = [t EXCEPT !.node = s, !.count = c, !.lastnode = n]
    BY <1>1 DEF Record
  <2>2. n \in Nat
    BY <1>1
  <2> HIDE DEF u, c
  <2> QED BY <1>1, <1>7, <2>1, <2>2 DEF Record
<1> HIDE DEF u
<1>9. ASSUME NEW i \in 1 .. n
      PROVE  (s[i].next = null \/ s[i].next \in i + 1 .. n) /\ s[i].prev \in {Before} \cup 1 .. n
  <2>1. CASE i = n
    BY <1>1, <1>3, <1>7, <2>1
  <2>2. CASE i # n
    <3>1. i \in 1 .. m
      BY <1>1, <2>2
    <3>2. /\ t.node[i].next = null \/ t.node[i].next \in i + 1 .. m
          /\ t.node[i].prev \in {Before} \cup 1 .. m
      BY <3>1 DEF Heap, Onward
    <3>3. s[i] = IF i = last THEN f ELSE t.node[i]
      BY <1>5, <1>7, <3>1
    <3>4. CASE i = last
      BY <1>1, <1>4, <3>1, <3>2, <3>3, <3>4
    <3>5. CASE i # last
      <4>1. s[i] = t.node[i]
        BY <3>3, <3>5
      <4> QED BY <1>1, <3>2, <4>1
    <3> QED BY <3>4, <3>5
  <2> QED BY <2>1, <2>2
<1>10. n \in 1 .. n /\ s # << >>
  BY <1>1, <1>7, Nodes
<1>11. u.lacc \in {null, Before} \cup 1 .. n /\ (u.deleted => u.lacc = Before)
  <2>1. t.lacc \in {null, Before} \cup 1 .. m /\ (t.deleted => t.lacc = Before)
    BY DEF Heap
  <2> QED BY <1>1, <1>8, <2>1
<1>12. Heap(u)
  BY <1>7, <1>8, <1>9, <1>10, <1>11 DEF Heap, Onward
<1>13. n \in 1 .. Len(u.node)
  BY <1>7, <1>8, <1>10
<1> QED BY <1>2, <1>12, <1>13, CopyHeap

(* The first node alone.                                                   *)
LEMMA UnSetHeap ==
    ASSUME NEW t, Heap(t), t.node # << >>
    PROVE  Heap([t EXCEPT !.node = <<[t.node[head] EXCEPT !.next = null, !.prev = Before]>>, !.count = 1,
                          !.lacc = Before, !.lastnode = head, !.deleted = TRUE])
<1> DEFINE e == [t.node[head] EXCEPT !.next = null, !.prev = Before]
           s == <<e>>
           u == [t EXCEPT !.node = s, !.count = 1, !.lacc = Before, !.lastnode = head, !.deleted = TRUE]
<1>1. t \in Record /\ t.node[head] \in Cell
  BY Nodes DEF Heap, Record, head
<1>2. e \in Cell /\ e.next = null /\ e.prev = Before
  <2> DEFINE g == t.node[head]
  <2>1. g \in Cell /\ e = [g EXCEPT !.next = null, !.prev = Before] /\ null \in Nat /\ Before \in Int
    BY <1>1 DEF null, Before
  <2> HIDE DEF g, e
  <2> QED BY <2>1 DEF Cell
<1> HIDE DEF e
<1>3. s \in Seq(Cell) /\ Len(s) = 1 /\ s[1] = e /\ s # << >>
  BY <1>2
<1> HIDE DEF s
<1>4. /\ u \in Record /\ u.node = s /\ u.lacc = Before /\ u.lastnode = head
  <2>1. Before \in Int /\ head \in Nat
    BY DEF Before, head
  <2> QED BY <1>1, <1>3, <2>1 DEF Record
<1> HIDE DEF u
<1>a. \A i \in 1 .. Len(u.node) : u.node[i] = e
  <2>1. \A i \in 1 .. Len(s) : i = 1
    BY <1>3
  <2> QED BY <1>3, <1>4, <2>1
<1>5. Onward(u)
  BY <1>2, <1>a DEF Onward
<1>6. head \in 1 .. Len(u.node) /\ u.node # << >>
  BY <1>3, <1>4 DEF head
<1>7. \A i \in 1 .. Len(u.node) : u.node[i].prev = Before
  BY <1>2, <1>a
<1>8. Heap(u)
  BY <1>4, <1>5, <1>6, <1>7 DEF Heap
<1> QED BY <1>8 DEF u, s, e

-----------------------------------------------------------------------------
(* The inductive invariant of the types, for pages that keep clear of       *)
(* nothing.                                                                *)
OneNumber == {<< >>} \cup {<<n>> : n \in Int}

Sized(a, t) ==
    Heap(t) /\ Len(t.node) <= MaxLen[a] /\ \A i \in 1 .. Len(t.node) : t.node[i].val \in Value

TypeInv == DOMAIN var = Name /\ (\A a \in Name : Sized(a, var[a])) /\ out \in OneNumber

LEMMA MaxLenType == ASSUME NEW a \in Name PROVE MaxLen[a] \in Nat \ {0}
  BY ArraysAssumption DEF ArraysAssumption

(* What is stored is kept when it is a heap.                                *)
LEMMA StoresTypes ==
    ASSUME TypeInv, NEW a \in Name, NEW t, Stores(a, t), Heap(t)
    PROVE  TypeInv'
<1>1. t.node \in Seq(Cell) /\ Cardinality(DOMAIN t.node) = Len(t.node) /\ DOMAIN t.node = 1 .. Len(t.node)
  BY Nodes DEF Heap, Record
<1>2. Len(t.node) <= MaxLen[a] /\ \A i \in 1 .. Len(t.node) : t.node[i].val \in Value
  BY <1>1 DEF Stores
<1>3. Sized(a, t)
  BY <1>2 DEF Sized
<1>4. var' = [var EXCEPT ![a] = t] /\ out' = << >>
  BY DEF Stores
<1>5. DOMAIN var' = Name /\ \A b \in Name : var'[b] = IF b = a THEN t ELSE var[b]
  BY <1>4 DEF TypeInv
<1>6. ASSUME NEW b \in Name PROVE Sized(b, var'[b])
  BY <1>3, <1>5 DEF TypeInv
<1>7. out' \in OneNumber
  BY <1>4 DEF OneNumber
<1>8. \A b \in Name : Sized(b, var[b])'
  BY <1>6 DEF Sized, Heap, Onward
<1> QED BY <1>5, <1>7, <1>8 DEF TypeInv

(* So is a variable whose cursor moves.                                    *)
LEMMA MovesTypes ==
    ASSUME TypeInv, NEW a \in Name, ~var[a].deleted, NEW n \in {null, Before} \cup 1 .. Len(var[a].node), NEW m \in Int,
           var' = [var EXCEPT ![a].lacc = n], out' = <<m>>
    PROVE  TypeInv'
<1> DEFINE t == var[a]
           u == [t EXCEPT !.lacc = n]
<1>1. Sized(a, t) /\ t \in Record /\ ~t.deleted
  BY DEF TypeInv, Sized, Heap
<1>2. var' = [var EXCEPT ![a] = u]
  BY DEF TypeInv
<1>3. n \in {null, Before} \cup 1 .. Len(t.node)
  OBVIOUS
<1> HIDE DEF t
<1>4. n \in Int
  BY <1>1, <1>3, Nodes DEF null, Before, Record
<1>5. u \in Record /\ u.node = t.node /\ u.lacc = n /\ u.lastnode = t.lastnode /\ ~u.deleted
  BY <1>1, <1>4 DEF Record
<1> HIDE DEF u
<1>6. Heap(u)
  BY <1>1, <1>3, <1>5 DEF Sized, Heap, Onward
<1>7. Sized(a, u)
  BY <1>1, <1>5, <1>6 DEF Sized
<1>8. DOMAIN var' = Name /\ \A b \in Name : var'[b] = IF b = a THEN u ELSE var[b]
  BY <1>2 DEF TypeInv
<1>9. ASSUME NEW b \in Name PROVE Sized(b, var'[b])
  BY <1>7, <1>8 DEF TypeInv
<1>10. out' \in OneNumber
  BY DEF OneNumber
<1> QED BY <1>8, <1>9, <1>10 DEF TypeInv

LEMMA PushesTypes == ASSUME TypeInv, NEW n \in Int, Pushes(n) PROVE TypeInv'
<1>1. var' = var /\ out' \in OneNumber
  BY DEF Pushes, OneNumber
<1> QED BY <1>1 DEF TypeInv, Sized, Heap, Onward

LEMMA ListParts ==
    ASSUME TypeInv, NEW a \in Name
    PROVE  /\ Sized(a, var[a]) /\ Heap(var[a]) /\ var[a] \in Record /\ var[a].node \in Seq(Cell)
           /\ Len(var[a].node) \in Nat /\ DOMAIN var[a].node = 1 .. Len(var[a].node)
           /\ var[a].node # << >> => head \in 1 .. Len(var[a].node)
           /\ \A i \in 1 .. Len(var[a].node) : var[a].node[i] \in Cell /\ var[a].node[i].val \in Value
<1>1. Sized(a, var[a])
  BY DEF TypeInv
<1> DEFINE t == var[a]
<1> HIDE DEF t
<1>2. Sized(a, t)
  BY <1>1 DEF t
<1>3. Heap(t) /\ t \in Record /\ t.node \in Seq(Cell)
  BY <1>2 DEF Sized, Heap, Record
<1>4. Len(t.node) \in Nat /\ DOMAIN t.node = 1 .. Len(t.node) /\ (t.node # << >> => head \in 1 .. Len(t.node))
  BY <1>3, Nodes DEF head
<1>5. \A i \in 1 .. Len(t.node) : t.node[i] \in Cell /\ t.node[i].val \in Value
  BY <1>2, <1>3, Nodes DEF Sized
<1> QED BY <1>2, <1>3, <1>4, <1>5 DEF t

LEMMA SourceTypes ==
    ASSUME TypeInv, NEW x \in Source
    PROVE  x.v \in Value /\ x.v \in Nat /\ x.src \in Seq(Cell)
<1>1. CASE \E v \in Value : x = Literal(v)
  <2>1. PICK v \in Value : x = Literal(v)
    BY <1>1
  <2>2. x.v = v /\ x.src = << >>
    BY <2>1 DEF Literal
  <2>3. << >> \in Seq(Cell)
    BY EmptySeq
  <2> QED BY <2>2, <2>3 DEF Value
<1>2. CASE \E b \in Name : GetVar(b) /\ x = Whole(b)
  <2>1. PICK b \in Name : GetVar(b) /\ x = Whole(b)
    BY <1>2
  <2> DEFINE t == var[b]
             p == Tail(Path(t, head))
             n == Len(t.node)
             s == [i \in DOMAIN p |-> t.node[p[i]]]
  <2>2. x.v = t.node[head].val /\ x.src = s
    BY <2>1 DEF Whole, Chain
  <2>3. t.node # << >>
    BY <2>1 DEF GetVar
  <2>4. p \in Seq(1 .. n)
    <3>1. Path(t, head) \in Seq(1 .. n) /\ Path(t, head) # << >>
      BY <2>3, ListParts, FromHead
    <3> QED BY <3>1, HeadTailProperties
  <2>5. /\ head \in 1 .. n
        /\ \A i \in 1 .. n : t.node[i] \in Cell /\ t.node[i].val \in Value
    BY <2>3, ListParts
  <2> HIDE DEF p, t, n
  <2>6. s \in Seq(Cell)
    <3>1. Len(p) \in Nat /\ DOMAIN p = 1 .. Len(p) /\ \A i \in 1 .. Len(p) : p[i] \in 1 .. n
      BY <2>4, LenProperties, ElementOfSeq
    <3>2. s = [i \in 1 .. Len(p) |-> t.node[p[i]]]
      BY <3>1
    <3>3. s \in [1 .. Len(p) -> Cell]
      BY <2>5, <3>1, <3>2
    <3> HIDE DEF s
    <3> QED BY <3>1, <3>3, IsASeq
  <2>7. x.v \in Value
    BY <2>2, <2>5
  <2> QED BY <2>2, <2>6, <2>7 DEF Value
<1>3. (\E v \in Value : x = Literal(v)) \/ (\E b \in Name : GetVar(b) /\ x = Whole(b))
  BY DEF Source
<1> QED BY <1>1, <1>2, <1>3

LEMMA FindTypes ==
    ASSUME NEW t, Heap(t), t.node # << >>, NEW k
    PROVE  /\ FindIndex(t, k) \in {null} \cup 1 .. Len(t.node)
           /\ FindIndex(t, k) # null => t.node[FindIndex(t, k)].key = k
<1> DEFINE p == Path(t, head)
           n == Len(t.node)
           at == {i \in DOMAIN p : t.node[p[i]].key = k}
<1>1. p \in Seq(1 .. n)
  BY FromHead
<1>2. FindIndex(t, k) = IF at = {} THEN null ELSE p[Min(at)]
  BY DEF FindIndex
<1> HIDE DEF p
<1>3. DOMAIN p = 1 .. Len(p) /\ Len(p) \in Nat /\ at \subseteq Nat
  BY <1>1, LenProperties
<1>4. CASE at = {}
  BY <1>2, <1>4
<1>5. CASE at # {}
  <2>1. Min(at) \in at
    <3> HIDE DEF at
    <3> QED BY <1>3, <1>5, NatMin
  <2>2. Min(at) \in 1 .. Len(p) /\ t.node[p[Min(at)]].key = k
    BY <1>3, <2>1
  <2>3. p[Min(at)] \in 1 .. n
    BY <1>1, <2>2, ElementOfSeq
  <2> QED BY <1>2, <1>5, <2>2, <2>3
<1> QED BY <1>4, <1>5

LEMMA ValAlone ==
    ASSUME NEW t, Heap(t), NEW i \in 1 .. Len(t.node), NEW v \in Nat
    PROVE  [t EXCEPT !.node[i].val = v] = [t EXCEPT !.node[i].val = v, !.deleted = t.deleted]
           /\ t.deleted \in BOOLEAN
  BY DEF Heap, Record

-----------------------------------------------------------------------------
LEMMA AssignTypes == ASSUME TypeInv, NEW a \in Name, NEW x \in Source, Assign(a, x) PROVE TypeInv'
<1>1. x.v \in Nat /\ x.src \in Seq(Cell)
  BY SourceTypes
<1>2. CASE var[a].node = << >>
  <2>1. Stores(a, Created(0, x))
    BY <1>2 DEF Assign
  <2>2. Heap(Created(0, x))
    BY <1>1, NewHeap DEF null
  <2> QED BY <2>1, <2>2, StoresTypes
<1>3. CASE var[a].node # << >>
  <2> DEFINE t == var[a]
             v == x.v
             u == [t EXCEPT !.node[head].val = v, !.deleted = FALSE]
  <2>1. Stores(a, SetHead(t, x)) /\ SetHead(t, x) = copyarray(u, head, x.src)
    BY <1>3 DEF Assign, SetHead
  <2>2. Heap(t) /\ head \in 1 .. Len(t.node)
    BY <1>3, ListParts
  <2>a. v \in Nat
    BY <1>1
  <2> HIDE DEF t, v
  <2>b. FALSE \in BOOLEAN /\ (FALSE => t.deleted)
    OBVIOUS
  <2>c. Revalued(u, t, head, v, FALSE)
    BY <2>2, <2>a, <2>b, ValHeap
  <2> HIDE DEF u
  <2>3. Heap(u) /\ Len(u.node) = Len(t.node)
    BY <2>c DEF Revalued
  <2>4. Heap(copyarray(u, head, x.src))
    BY <1>1, <2>2, <2>3, CopyHeap
  <2> QED BY <2>1, <2>4, StoresTypes
<1> QED BY <1>2, <1>3

LEMMA ValueForTypes ==
    ASSUME NEW op \in Operator
    PROVE  /\ ValueFor(op).v \in Nat /\ ValueFor(op).src = << >> /\ ValueFor(op).src \in Seq(Cell)
           /\ \A v \in Value : Combine(op, v) \in Nat
<1>1. << >> \in Seq(Cell)
  BY EmptySeq
<1>2. ValueFor(op).v \in Nat /\ ValueFor(op).src = << >>
  BY DEF ValueFor, Literal
<1> QED BY <1>1, <1>2 DEF Combine, Value

LEMMA ChangeTypes == ASSUME TypeInv, NEW a \in Name, NEW op \in Operator, Change(a, op) PROVE TypeInv'
<1> DEFINE x == ValueFor(op)
<1>1. x.v \in Nat /\ x.src \in Seq(Cell) /\ \A v \in Value : Combine(op, v) \in Nat
  BY ValueForTypes
<1>2. CASE var[a].node = << >>
  <2>1. Stores(a, Created(0, x))
    BY <1>2 DEF Change
  <2> HIDE DEF x
  <2>2. Heap(Created(0, x))
    BY <1>1, NewHeap
  <2> QED BY <2>1, <2>2, StoresTypes
<1>3. CASE var[a].node # << >>
  <2> DEFINE t == var[a]
             v == Combine(op, t.node[head].val)
             u == [t EXCEPT !.node[head].val = v]
  <2>1. Heap(t) /\ head \in 1 .. Len(t.node) /\ t.node[head].val \in Value /\ t \in Record
    BY <1>3, ListParts
  <2>2. Stores(a, [t EXCEPT !.node[head].val = Combine(op, @)])
    BY <1>3 DEF Change
  <2> HIDE DEF t
  <2>3. [t EXCEPT !.node[head].val = Combine(op, @)] = u
    OBVIOUS
  <2>4. v \in Nat
    BY <1>1, <2>1
  <2> HIDE DEF v
  <2>a. u = [t EXCEPT !.node[head].val = v, !.deleted = t.deleted] /\ t.deleted \in BOOLEAN
    BY <2>1, <2>4, ValAlone
  <2> DEFINE d == t.deleted
  <2>b. u = [t EXCEPT !.node[head].val = v, !.deleted = d] /\ d \in BOOLEAN /\ (d => t.deleted)
    BY <2>a
  <2> HIDE DEF d, u
  <2>c. Revalued([t EXCEPT !.node[head].val = v, !.deleted = d], t, head, v, d)
    BY <2>1, <2>4, <2>b, ValHeap
  <2>d. Revalued(u, t, head, v, d)
    BY <2>b, <2>c
  <2>5. Heap(u)
    BY <2>d DEF Revalued
  <2> HIDE DEF u
  <2>6. Stores(a, u)
    BY <2>2, <2>3
  <2> QED BY <2>5, <2>6, StoresTypes
<1> QED BY <1>2, <1>3

LEMMA RevalueTypes ==
    ASSUME TypeInv, NEW a \in Name, NEW n \in 1 .. Len(var[a].node), NEW v \in Nat,
           NEW d \in BOOLEAN, d => var[a].deleted, Stores(a, [var[a] EXCEPT !.node[n].val = v, !.deleted = d])
    PROVE  TypeInv'
<1> DEFINE t == var[a]
           u == [t EXCEPT !.node[n].val = v, !.deleted = d]
<1>1. Heap(t) /\ n \in 1 .. Len(t.node) /\ (d => t.deleted) /\ Stores(a, u)
  BY ListParts
<1> HIDE DEF t
<1>2. Revalued(u, t, n, v, d)
  BY <1>1, ValHeap
<1> HIDE DEF u
<1>3. Heap(u)
  BY <1>2 DEF Revalued
<1> QED BY <1>1, <1>3, StoresTypes

LEMMA Append1Types == ASSUME TypeInv, NEW a \in Name, NEW x \in Source, Append1(a, x) PROVE TypeInv'
<1>1. x.v \in Nat /\ x.src \in Seq(Cell) /\ Heap(var[a])
  BY SourceTypes, ListParts
<1>2. CASE var[a].node = << >> \/ var[a].deleted
  <2> DEFINE l == var[a].lacc
             u == [Created(0, x) EXCEPT !.lacc = l]
  <2>1. Stores(a, u)
    BY <1>2 DEF Append1
  <2>2. l \in {null, Before}
    <3>1. CASE var[a].deleted
      BY <1>1, <3>1 DEF Heap
    <3>2. CASE var[a].node = << >>
      <4>1. Len(var[a].node) = 0
        BY <3>2, EmptySeq
      <4>2. l \in {null, Before} \cup 1 .. 0
        BY <1>1, <4>1 DEF Heap
      <4> QED BY <4>2
    <3> QED BY <1>2, <3>1, <3>2
  <2> HIDE DEF l
  <2>3. Heap(u)
    BY <1>1, <2>2, NewHeap
  <2> HIDE DEF u
  <2> QED BY <2>1, <2>3, StoresTypes
<1>3. CASE ~(var[a].node = << >> \/ var[a].deleted)
  <2> DEFINE t == var[a]
             k == Len(Chain(a))
             u == Linked(t, k, x)
  <2>1. Stores(a, u)
    BY <1>3 DEF Append1
  <2>2. k \in Nat
    <3>1. Path(t, head) \in Seq(1 .. Len(t.node))
      BY <1>1, <1>3, FromHead
    <3> QED BY <3>1, LenProperties DEF Chain
  <2>3. Heap(t) /\ t.node # << >>
    BY <1>1, <1>3
  <2> HIDE DEF k, t
  <2>4. Heap(u)
    BY <1>1, <2>2, <2>3, LinkHeap
  <2> HIDE DEF u
  <2> QED BY <2>1, <2>4, StoresTypes
<1> QED BY <1>2, <1>3

LEMMA AssignAtTypes ==
    ASSUME TypeInv, NEW a \in Name, NEW k \in Index, NEW x \in Source, AssignAt(a, k, x)
    PROVE  TypeInv'
<1> DEFINE t == var[a]
           n == FindIndex(t, k)
<1>1. x.v \in Nat /\ x.src \in Seq(Cell) /\ Heap(t) /\ k \in Nat
  BY SourceTypes, ListParts, ArraysAssumption DEF ArraysAssumption
<1>2. CASE t.node = << >>
  <2>1. Stores(a, Created(k, x))
    BY <1>2 DEF AssignAt
  <2>2. Heap(Created(k, x))
    BY <1>1, NewHeap
  <2> QED BY <2>1, <2>2, StoresTypes
<1>3. CASE t.node # << >> /\ n = null
  <2>1. Stores(a, Linked(t, k, x))
    BY <1>3 DEF AssignAt
  <2> HIDE DEF t
  <2>2. Heap(Linked(t, k, x))
    BY <1>1, <1>3, LinkHeap
  <2> QED BY <2>1, <2>2, StoresTypes
<1>4. CASE t.node # << >> /\ n # null
  <2> DEFINE v == x.v
             d == t.deleted /\ n # head
  <2>1. Stores(a, [t EXCEPT !.node[n].val = x.v, !.deleted = @ /\ n # head])
    BY <1>4 DEF AssignAt
  <2>2. n \in 1 .. Len(t.node) /\ t.deleted \in BOOLEAN
    <3>1. t.deleted \in BOOLEAN
      BY <1>1 DEF Heap, Record
    <3> HIDE DEF t
    <3>2. n \in {null} \cup 1 .. Len(t.node)
      BY <1>1, <1>4, FindTypes
    <3> QED BY <1>4, <3>1, <3>2
  <2>3. v \in Nat /\ d \in BOOLEAN /\ (d => t.deleted)
    BY <1>1, <2>2
  <2> HIDE DEF n
  <2>4. Stores(a, [var[a] EXCEPT !.node[n].val = v, !.deleted = d])
    BY <2>1
  <2>5. n \in 1 .. Len(var[a].node) /\ (d => var[a].deleted)
    BY <2>2, <2>3
  <2> HIDE DEF v, d, t
  <2> QED BY <2>3, <2>4, <2>5, RevalueTypes
<1> QED BY <1>2, <1>3, <1>4

LEMMA ChangeAtTypes ==
    ASSUME TypeInv, NEW a \in Name, NEW k \in Index, NEW op \in Operator, ChangeAt(a, k, op)
    PROVE  TypeInv'
<1> DEFINE t == var[a]
           n == FindIndex(t, k)
           x == ValueFor(op)
<1>1. x.v \in Nat /\ x.src \in Seq(Cell) /\ Heap(t) /\ k \in Nat /\ \A v \in Value : Combine(op, v) \in Nat
  BY ValueForTypes, ListParts, ArraysAssumption DEF ArraysAssumption
<1>2. CASE t.node = << >>
  <2>1. Stores(a, Created(k, x))
    BY <1>2 DEF ChangeAt
  <2> HIDE DEF x
  <2>2. Heap(Created(k, x))
    BY <1>1, NewHeap
  <2> QED BY <2>1, <2>2, StoresTypes
<1>3. CASE t.node # << >> /\ n = null
  <2>1. Stores(a, Linked(t, k, x))
    BY <1>3 DEF ChangeAt
  <2> HIDE DEF t, x
  <2>2. Heap(Linked(t, k, x))
    BY <1>1, <1>3, LinkHeap
  <2> QED BY <2>1, <2>2, StoresTypes
<1>4. CASE t.node # << >> /\ n # null
  <2>1. Stores(a, IF op = "and" THEN t ELSE [t EXCEPT !.node[n].val = Combine(op, @)])
    BY <1>4 DEF ChangeAt
  <2>2. n \in 1 .. Len(t.node)
    <3> HIDE DEF t
    <3>1. n \in {null} \cup 1 .. Len(t.node)
      BY <1>1, <1>4, FindTypes
    <3> QED BY <1>4, <3>1
  <2> HIDE DEF n
  <2>3. CASE op = "and"
    <3>1. Stores(a, t)
      BY <2>1, <2>3
    <3> HIDE DEF t
    <3> QED BY <1>1, <3>1, StoresTypes
  <2>4. CASE op # "and"
    <3> DEFINE v == Combine(op, t.node[n].val)
               d == t.deleted
    <3>1. v \in Nat /\ d \in BOOLEAN
      BY <1>1, <2>2, ListParts DEF Record
    <3>2. Stores(a, [t EXCEPT !.node[n].val = Combine(op, @)])
      BY <2>1, <2>4
    <3>3. [t EXCEPT !.node[n].val = Combine(op, @)] = [t EXCEPT !.node[n].val = v]
      OBVIOUS
    <3> HIDE DEF v
    <3>4. [t EXCEPT !.node[n].val = v] = [t EXCEPT !.node[n].val = v, !.deleted = d]
      <4> HIDE DEF t
      <4> QED BY <1>1, <2>2, <3>1, ValAlone
    <3>5. Stores(a, [var[a] EXCEPT !.node[n].val = v, !.deleted = d])
      BY <3>2, <3>3, <3>4
    <3>6. d => var[a].deleted
      OBVIOUS
    <3> HIDE DEF d, t
    <3>7. n \in 1 .. Len(var[a].node)
      BY <2>2 DEF t
    <3> QED BY <3>1, <3>5, <3>6, <3>7, RevalueTypes
  <2> QED BY <2>3, <2>4
<1> QED BY <1>2, <1>3, <1>4

LEMMA UnSetTypes == ASSUME TypeInv, NEW a \in Name, UnSet(a) PROVE TypeInv'
<1>1. CASE ~GetVar(a)
  <2>1. UNCHANGED var /\ out' = << >>
    BY <1>1 DEF UnSet
  <2> QED BY <2>1 DEF TypeInv, Sized, Heap, Onward, OneNumber
<1>2. CASE GetVar(a)
  <2> DEFINE t == var[a]
             u == [t EXCEPT !.node = <<[t.node[head] EXCEPT !.next = null, !.prev = Before]>>, !.count = 1,
                            !.lacc = Before, !.lastnode = head, !.deleted = TRUE]
  <2>1. Stores(a, u)
    BY <1>2 DEF UnSet
  <2>2. Heap(t) /\ t.node # << >>
    BY <1>2, ListParts DEF GetVar
  <2> HIDE DEF t
  <2>3. Heap(u)
    BY <2>2, UnSetHeap
  <2> HIDE DEF u
  <2> QED BY <2>1, <2>3, StoresTypes
<1> QED BY <1>1, <1>2

LEMMA SortTypes == ASSUME TypeInv, NEW a \in Name, Sort(a) PROVE TypeInv'
<1>1. CASE ~GetVar(a)
  <2>1. UNCHANGED var /\ out' = << >>
    BY <1>1 DEF Sort
  <2> QED BY <2>1 DEF TypeInv, Sized, Heap, Onward, OneNumber
<1>2. CASE GetVar(a)
  <2> DEFINE t == var[a]
             p == Chain(a)
             array == Sorted([i \in DOMAIN p |-> t.node[p[i]].val])
             Of(n) == CHOOSE i \in DOMAIN p : p[i] = n
             s == [n \in DOMAIN t.node |-> IF n \in Range(p) THEN [t.node[n] EXCEPT !.val = array[Of(n)]]
                                           ELSE t.node[n]]
             u == [t EXCEPT !.node = s]
  <2>1. Stores(a, u)
    BY <1>2 DEF Sort
  <2>2. /\ Heap(t) /\ t \in Record /\ t.node \in Seq(Cell) /\ Len(t.node) \in Nat
        /\ DOMAIN t.node = 1 .. Len(t.node)
        /\ \A i \in 1 .. Len(t.node) : t.node[i] \in Cell
    BY ListParts
  <2>3. ASSUME NEW n \in 1 .. Len(t.node)
        PROVE  s[n] \in Cell /\ s[n].next = t.node[n].next /\ s[n].prev = t.node[n].prev
    <3> DEFINE w == array[Of(n)]
               e == t.node[n]
    <3>1. e \in Cell
      BY <2>2
    <3>2. s[n] = IF n \in Range(p) THEN [e EXCEPT !.val = w] ELSE e
      BY <2>2
    <3>3. s[n].val \in Value
      <4>1. \A i \in DOMAIN u.node : u.node[i].val \in Value
        BY <2>1 DEF Stores
      <4>2. u.node = s
        BY <2>2 DEF Record
      <4> QED BY <2>2, <4>1, <4>2
    <3> HIDE DEF w, e, s
    <3>4. CASE n \in Range(p)
      <4>1. s[n] = [e EXCEPT !.val = w]
        BY <3>2, <3>4
      <4>2. w = s[n].val
        BY <3>1, <4>1 DEF Cell
      <4>3. w \in Nat
        BY <3>3, <4>2 DEF Value
      <4>4. s[n] \in Cell /\ s[n].next = e.next /\ s[n].prev = e.prev
        BY <3>1, <4>1, <4>3 DEF Cell
      <4> QED BY <4>4 DEF e
    <3>5. CASE n \notin Range(p)
      <4>1. s[n] = e
        BY <3>2, <3>5
      <4> QED BY <3>1, <4>1 DEF e
    <3> QED BY <3>4, <3>5
  <2>4. DOMAIN s = 1 .. Len(t.node) /\ s = [n \in 1 .. Len(t.node) |-> s[n]]
    BY <2>2
  <2> HIDE DEF s
  <2>5. s \in Seq(Cell) /\ Len(s) = Len(t.node)
    <3> DEFINE m == Len(t.node)
    <3>1. m \in Nat /\ DOMAIN s = 1 .. m
      BY <2>2, <2>4
    <3>2. s \in [1 .. m -> Cell]
      BY <2>3, <2>4
    <3> HIDE DEF m
    <3>3. s \in Seq(Cell)
      BY <3>1, <3>2, IsASeq
    <3>4. Len(s) = m
      BY <3>1, <3>3, LenProperties
    <3> QED BY <3>3, <3>4 DEF m
  <2>6. u \in Record /\ u.node = s /\ u.lacc = t.lacc /\ u.lastnode = t.lastnode /\ u.deleted = t.deleted
    BY <2>2, <2>5 DEF Record
  <2> HIDE DEF t, u
  <2>7. Heap(u)
    BY <2>2, <2>3, <2>5, <2>6, SameLinks
  <2> QED BY <2>1, <2>7, StoresTypes
<1> QED BY <1>1, <1>2

-----------------------------------------------------------------------------
(* What the reads push, and where the cursor goes.                          *)
LEMMA OneOf ==
    ASSUME TypeInv, NEW a \in Name, GetVar(a)
    PROVE  /\ var[a].lastnode \in 1 .. Len(var[a].node) /\ head \in 1 .. Len(var[a].node) /\ ~var[a].deleted
           /\ var[a].lacc \in {null, Before} \cup 1 .. Len(var[a].node)
           /\ \A i \in 1 .. Len(var[a].node) :
                 /\ var[a].node[i].next \in {null} \cup 1 .. Len(var[a].node)
                 /\ var[a].node[i].prev \in {Before} \cup 1 .. Len(var[a].node)
                 /\ var[a].node[i].val \in Value /\ var[a].node[i].key \in Nat
<1> DEFINE t == var[a]
<1>1. t.node # << >> /\ ~t.deleted
  BY DEF GetVar
<1>2. Heap(t) /\ Len(t.node) \in Nat /\ head \in 1 .. Len(t.node)
  BY <1>1, ListParts
<1>3. \A i \in 1 .. Len(t.node) : t.node[i].val \in Value /\ t.node[i].key \in Nat
  BY ListParts DEF Cell
<1> HIDE DEF t
<1>4. \A i \in 1 .. Len(t.node) : t.node[i].next \in {null} \cup 1 .. Len(t.node)
  <2> TAKE i \in 1 .. Len(t.node)
  <2>1. t.node[i].next = null \/ t.node[i].next \in i + 1 .. Len(t.node)
    BY <1>2 DEF Heap, Onward
  <2> QED BY <1>2, <2>1
<1>5. \A i \in 1 .. Len(t.node) : t.node[i].prev \in {Before} \cup 1 .. Len(t.node)
  BY <1>2 DEF Heap
<1>6. t.lastnode \in 1 .. Len(t.node) /\ t.lacc \in {null, Before} \cup 1 .. Len(t.node)
  BY <1>1, <1>2 DEF Heap
<1> QED BY <1>1, <1>2, <1>3, <1>4, <1>5, <1>6 DEF t

LEMMA ValueOfType ==
    ASSUME TypeInv, NEW a \in Name, NEW n \in {null, Before} \cup 1 .. Len(var[a].node)
    PROVE  ValueOf(var[a], n) \in Int
<1>1. CASE n \in {null, Before}
  BY <1>1 DEF ValueOf, Blank
<1>2. CASE n \notin {null, Before}
  <2>1. var[a].node[n].val \in Value
    BY <1>2, ListParts
  <2> QED BY <1>2, <2>1 DEF ValueOf, Value
<1> QED BY <1>1, <1>2

LEMMA BlankType == Blank \in Int
  BY DEF Blank

LEMMA MovesToTypes ==
    ASSUME TypeInv, NEW a \in Name, GetVar(a), NEW n \in {null, Before} \cup 1 .. Len(var[a].node), Moves(a, n)
    PROVE  TypeInv'
<1> DEFINE m == ValueOf(var[a], n)
<1>1. m \in Int /\ ~var[a].deleted
  BY ValueOfType DEF GetVar
<1>2. var' = [var EXCEPT ![a].lacc = n] /\ out' = <<m>>
  BY DEF Moves
<1> HIDE DEF m
<1> QED BY <1>1, <1>2, MovesTypes

LEMMA Next1Types == ASSUME TypeInv, NEW a \in Name, Next1(a) PROVE TypeInv'
<1> DEFINE t == var[a]
           n == IF t.lacc = Before THEN head ELSE IF t.lacc = null THEN null ELSE t.node[t.lacc].next
<1>1. CASE ~GetVar(a)
  BY <1>1, BlankType, PushesTypes DEF Next1
<1>2. CASE GetVar(a)
  <2>1. Moves(a, n)
    BY <1>2 DEF Next1
  <2>2. n \in {null, Before} \cup 1 .. Len(var[a].node)
    BY <1>2, OneOf
  <2> HIDE DEF n
  <2> QED BY <1>2, <2>1, <2>2, MovesToTypes
<1> QED BY <1>1, <1>2

LEMMA PrevTypes == ASSUME TypeInv, NEW a \in Name, Prev(a) PROVE TypeInv'
<1> DEFINE t == var[a]
           n == IF t.lacc = Before THEN Before ELSE IF t.lacc = null THEN t.lastnode ELSE t.node[t.lacc].prev
<1>1. CASE ~GetVar(a)
  BY <1>1, BlankType, PushesTypes DEF Prev
<1>2. CASE GetVar(a)
  <2>1. Moves(a, n)
    BY <1>2 DEF Prev
  <2>2. n \in {null, Before} \cup 1 .. Len(var[a].node)
    BY <1>2, OneOf
  <2> HIDE DEF n
  <2> QED BY <1>2, <2>1, <2>2, MovesToTypes
<1> QED BY <1>1, <1>2

LEMMA ResetTypes == ASSUME TypeInv, NEW a \in Name, Reset(a) PROVE TypeInv'
<1>1. CASE ~GetVar(a)
  BY <1>1, BlankType, PushesTypes DEF Reset
<1>2. CASE GetVar(a)
  <2> DEFINE m == var[a].node[head].val
             n == Before
  <2>1. var' = [var EXCEPT ![a].lacc = n] /\ out' = <<m>>
    BY <1>2 DEF Reset
  <2>2. n \in {null, Before} \cup 1 .. Len(var[a].node) /\ ~var[a].deleted
    BY <1>2, OneOf
  <2>3. m \in Int
    BY <1>2, OneOf DEF Value
  <2> HIDE DEF m, n
  <2> QED BY <2>1, <2>2, <2>3, MovesTypes
<1> QED BY <1>1, <1>2

LEMMA EndTypes == ASSUME TypeInv, NEW a \in Name, End(a) PROVE TypeInv'
<1>1. CASE ~GetVar(a)
  BY <1>1, BlankType, PushesTypes DEF End
<1>2. CASE GetVar(a)
  <2> DEFINE l == var[a].lastnode
             m == var[a].node[l].val
             n == var[a].node[l].prev
  <2>1. var' = [var EXCEPT ![a].lacc = n] /\ out' = <<m>>
    BY <1>2 DEF End
  <2>2. l \in 1 .. Len(var[a].node) /\ ~var[a].deleted
    BY <1>2, OneOf
  <2>3. n \in {null, Before} \cup 1 .. Len(var[a].node) /\ m \in Value
    BY <1>2, <2>2, OneOf
  <2>4. m \in Int
    BY <2>3 DEF Value
  <2> HIDE DEF m, n
  <2> QED BY <2>1, <2>2, <2>3, <2>4, MovesTypes
<1> QED BY <1>1, <1>2

LEMMA KeyTypes == ASSUME TypeInv, NEW a \in Name, Key(a) PROVE TypeInv'
<1> DEFINE t == var[a]
           n == IF t.lacc \in {null, Before} THEN head ELSE t.node[t.lacc].next
           m == IF GetVar(a) /\ n # null THEN t.node[n].key ELSE Blank
<1>1. Pushes(m)
  BY DEF Key
<1>2. m \in Int
  <2>1. CASE GetVar(a) /\ n # null
    <3>1. n \in 1 .. Len(var[a].node)
      BY <2>1, OneOf
    <3> HIDE DEF n
    <3>2. m \in Nat
      BY <2>1, <3>1, OneOf
    <3> QED BY <3>2
  <2>2. CASE ~(GetVar(a) /\ n # null)
    BY <2>2, BlankType
  <2> QED BY <2>1, <2>2
<1> HIDE DEF m
<1> QED BY <1>1, <1>2, PushesTypes

LEMMA ReadTypes == ASSUME TypeInv, NEW a \in Name, NEW k, Read(a, k) PROVE TypeInv'
<1> DEFINE n == IF GetVar(a) THEN FindIndex(var[a], k) ELSE null
           m == ValueOf(var[a], n)
<1>1. Pushes(m)
  BY DEF Read
<1>2. n \in {null, Before} \cup 1 .. Len(var[a].node)
  <2>1. CASE GetVar(a)
    <3> DEFINE t == var[a]
    <3>1. Heap(t) /\ t.node # << >>
      BY <2>1, ListParts DEF GetVar
    <3> HIDE DEF t
    <3>2. FindIndex(t, k) \in {null} \cup 1 .. Len(t.node)
      BY <3>1, FindTypes
    <3> QED BY <2>1, <3>2 DEF t
  <2>2. CASE ~GetVar(a)
    BY <2>2
  <2> QED BY <2>1, <2>2
<1> HIDE DEF n
<1>3. m \in Int
  BY <1>2, ValueOfType
<1> HIDE DEF m
<1> QED BY <1>1, <1>3, PushesTypes

LEMMA CountTypes == ASSUME TypeInv, NEW a \in Name, Count(a) PROVE TypeInv'
<1> DEFINE m == IF GetVar(a) THEN var[a].count ELSE 0
<1>1. Pushes(m) /\ m \in Int
  BY ListParts DEF Count, Record
<1> HIDE DEF m
<1> QED BY <1>1, PushesTypes

LEMMA Extremes == ASSUME NEW S, S \subseteq Value, S # {} PROVE Max(S) \in S /\ Min(S) \in S
<1>a. \A y \in S : y = 0 \/ y = 1
  BY DEF Value
<1>b. 0 \in S \/ 1 \in S
  BY <1>a
<1>1. \E x \in S : \A y \in S : x >= y
  <2>1. CASE 1 \in S
    BY <1>a, <2>1
  <2>2. CASE 1 \notin S
    <3>1. 0 \in S /\ \A y \in S : y = 0
      BY <1>a, <1>b, <2>2
    <3> QED BY <3>1
  <2> QED BY <2>1, <2>2
<1>2. \E x \in S : \A y \in S : x <= y
  <2>1. CASE 0 \in S
    BY <1>a, <2>1
  <2>2. CASE 0 \notin S
    <3>1. 1 \in S /\ \A y \in S : y = 1
      BY <1>a, <1>b, <2>2
    <3> QED BY <3>1
  <2> QED BY <2>1, <2>2
<1> QED BY <1>1, <1>2 DEF Max, Min

LEMMA ValuesParts == ASSUME TypeInv, NEW a \in Name, GetVar(a) PROVE Values(a) \subseteq Value /\ Values(a) # {}
<1> DEFINE t == var[a]
           p == Path(t, head)
<1>1. Heap(t) /\ t.node # << >> /\ \A i \in 1 .. Len(t.node) : t.node[i].val \in Value
  BY ListParts DEF GetVar
<1> HIDE DEF t
<1>2. p \in Seq(1 .. Len(t.node)) /\ p # << >>
  BY <1>1, FromHead
<1>3. Values(a) = {t.node[n].val : n \in Range(p)}
  BY DEF Values, Chain, t
<1> HIDE DEF p
<1>4. Range(p) \subseteq 1 .. Len(t.node) /\ Range(p) # {}
  <2>1. DOMAIN p = 1 .. Len(p) /\ Len(p) \in Nat /\ Len(p) > 0
    BY <1>2, LenProperties, EmptySeq
  <2>2. 1 \in DOMAIN p /\ p[1] \in Range(p)
    BY <2>1 DEF Range
  <2>3. \A i \in DOMAIN p : p[i] \in 1 .. Len(t.node)
    BY <1>2, <2>1, ElementOfSeq
  <2> QED BY <2>2, <2>3 DEF Range
<1> QED BY <1>1, <1>3, <1>4

LEMMA ExtremeTypes == ASSUME TypeInv, NEW a \in Name, ArrayMax(a) \/ ArrayMin(a) PROVE TypeInv'
<1>1. CASE ~GetVar(a)
  BY <1>1, BlankType, PushesTypes DEF ArrayMax, ArrayMin
<1>2. CASE GetVar(a)
  <2> DEFINE S == Values(a)
  <2>1. S \subseteq Value /\ S # {}
    BY <1>2, ValuesParts
  <2> HIDE DEF S
  <2>a. Max(S) \in S /\ Min(S) \in S
    BY <2>1, Extremes
  <2>b. S \subseteq Int
    BY <2>1 DEF Value
  <2>2. Max(S) \in Int /\ Min(S) \in Int
    BY <2>a, <2>b
  <2>3. Pushes(Max(S)) \/ Pushes(Min(S))
    BY <1>2 DEF ArrayMax, ArrayMin, S
  <2> QED BY <2>2, <2>3, PushesTypes
<1> QED BY <1>1, <1>2

-----------------------------------------------------------------------------
LEMMA InitTypes == Init => TypeInv
<1> SUFFICES ASSUME Init PROVE TypeInv
  OBVIOUS
<1>1. DOMAIN var = Name /\ (\A a \in Name : var[a] = None) /\ out = << >>
  BY DEF Init
<1>2. ASSUME NEW a \in Name PROVE Sized(a, None)
  <2>1. None.node = << >> /\ Len(<< >>) = 0
    BY DEF None
  <2>2. Len(None.node) = 0 /\ MaxLen[a] \in Nat
    BY <2>1, MaxLenType
  <2>3. 1 .. 0 = {}
    OBVIOUS
  <2> HIDE DEF None
  <2>4. 0 <= MaxLen[a]
    BY <2>2
  <2> QED BY <2>2, <2>3, <2>4, EmptyHeap DEF Sized
<1> QED BY <1>1, <1>2 DEF TypeInv, OneNumber

LEMMA NextTypes == TypeInv /\ [Next]_vars => TypeInv'
<1> SUFFICES ASSUME TypeInv, [Next]_vars PROVE TypeInv'
  OBVIOUS
<1>1. CASE UNCHANGED vars
  BY <1>1 DEF vars, TypeInv, Sized, Heap, Onward
<1>2. ASSUME NEW a \in Name, Write(a) PROVE TypeInv'
  <2>1. ASSUME NEW x \in Source, Assign(a, x) PROVE TypeInv'
    BY <2>1, AssignTypes
  <2>2. ASSUME NEW x \in Source, Append1(a, x) PROVE TypeInv'
    BY <2>2, Append1Types
  <2>3. ASSUME NEW x \in Source, NEW k \in Index, AssignAt(a, k, x) PROVE TypeInv'
    BY <2>3, AssignAtTypes
  <2>4. ASSUME NEW op \in Operator, Change(a, op) PROVE TypeInv'
    BY <2>4, ChangeTypes
  <2>5. ASSUME NEW op \in Operator, NEW k \in Index, ChangeAt(a, k, op) PROVE TypeInv'
    BY <2>5, ChangeAtTypes
  <2> QED BY <1>2, <2>1, <2>2, <2>3, <2>4, <2>5, UnSetTypes, SortTypes DEF Write
<1>3. ASSUME NEW a \in Name, Ask(a) PROVE TypeInv'
  BY <1>3, Next1Types, PrevTypes, ResetTypes, EndTypes, KeyTypes, CountTypes, ExtremeTypes, ReadTypes DEF Ask
<1> QED BY <1>1, <1>2, <1>3 DEF Next

LEMMA ArraysInductive == Spec => []TypeInv
<1> QED BY InitTypes, NextTypes, PTL DEF Spec

(* Whatever a page does with its arrays, the nodes of a list lead to nodes  *)
(* of that list, its last node and its cursor are among them, its values    *)
(* are values and its length stays in bounds, and a call pushes at most one *)
(* number (var.c, sort.c).                                                  *)
THEOREM ArraysTypeOK == Spec => []TypeOK
<1>1. ASSUME TypeInv PROVE TypeOK
  <2>1. ASSUME NEW a \in Name
        PROVE LET t == var[a]
                  n == DOMAIN t.node
              IN  /\ n = 1 .. Cardinality(n) /\ Cardinality(n) <= MaxLen[a]
                  /\ \A i \in n : t.node[i] \in [key : Nat, val : Value, next : {null} \cup n, prev : {Before} \cup n]
                  /\ t.lacc \in {null, Before} \cup n /\ t.lastnode \in {null} \cup n
                  /\ t.count \in Nat /\ t.deleted \in BOOLEAN
    <3> DEFINE t == var[a]
               n == Len(t.node)
    <3>1. Sized(a, t) /\ t \in Record /\ Heap(t)
      BY <1>1, ListParts
    <3> HIDE DEF t
    <3>2. n \in Nat /\ DOMAIN t.node = 1 .. n /\ Cardinality(DOMAIN t.node) = n
      BY <3>1, Nodes DEF Record
    <3>3. n <= MaxLen[a]
      BY <3>1 DEF Sized
    <3>4. ASSUME NEW i \in 1 .. n
          PROVE  t.node[i] \in [key : Nat, val : Value, next : {null} \cup 1 .. n, prev : {Before} \cup 1 .. n]
      <4>1. t.node[i] \in Cell /\ t.node[i].val \in Value /\ t.node[i].prev \in {Before} \cup 1 .. n
        BY <3>1, Nodes DEF Record, Sized, Heap
      <4>2. t.node[i].next = null \/ t.node[i].next \in i + 1 .. n
        BY <3>1 DEF Heap, Onward
      <4>3. t.node[i].next \in {null} \cup 1 .. n
        BY <3>2, <4>2
      <4> DEFINE e == t.node[i]
                 B == {Before} \cup 1 .. n
                 N == {null} \cup 1 .. n
      <4>4. e \in Cell /\ e.val \in Value /\ e.prev \in B /\ e.next \in N
        BY <4>1, <4>3
      <4> HIDE DEF e, B, N
      <4>5. e \in [key : Nat, val : Value, next : N, prev : B]
        BY <4>4 DEF Cell
      <4> QED BY <4>5 DEF e, B, N
    <3>5. /\ t.lacc \in {null, Before} \cup 1 .. n /\ t.lastnode \in {null} \cup 1 .. n
          /\ t.count \in Nat /\ t.deleted \in BOOLEAN
      BY <3>1 DEF Heap, Record
    <3> HIDE DEF n
    <3>6. /\ DOMAIN t.node = 1 .. Cardinality(DOMAIN t.node) /\ Cardinality(DOMAIN t.node) <= MaxLen[a]
          /\ \A i \in DOMAIN t.node :
                t.node[i] \in [key : Nat, val : Value, next : {null} \cup DOMAIN t.node, prev : {Before} \cup DOMAIN t.node]
          /\ t.lacc \in {null, Before} \cup DOMAIN t.node /\ t.lastnode \in {null} \cup DOMAIN t.node
          /\ t.count \in Nat /\ t.deleted \in BOOLEAN
      BY <3>2, <3>3, <3>4, <3>5
    <3> QED BY <3>6 DEF t
  <2>2. out \in Seq(Int) /\ Len(out) <= 1
    <3>1. CASE out = << >>
      BY <3>1
    <3>2. CASE \E m \in Int : out = <<m>>
      BY <3>2
    <3> QED BY <1>1, <3>1, <3>2 DEF TypeInv, OneNumber
  <2> QED BY <1>1, <2>1, <2>2 DEF TypeInv, TypeOK
<1> QED BY <1>1, ArraysInductive, PTL

-----------------------------------------------------------------------------
(* Sequences, put together and taken apart.                                 *)
LEMMA SameSeq ==
    ASSUME NEW S, NEW s \in Seq(S), NEW z \in Seq(S), Len(s) = Len(z), \A i \in 1 .. Len(s) : s[i] = z[i]
    PROVE  s = z
<1>1. DOMAIN s = 1 .. Len(s) /\ DOMAIN z = 1 .. Len(z)
  BY LenProperties
<1>2. s = [i \in DOMAIN s |-> s[i]] /\ z = [i \in DOMAIN z |-> z[i]]
  OBVIOUS
<1> QED BY <1>1, <1>2

IsCons(z, S, e, s) ==
    z \in Seq(S) /\ Len(z) = Len(s) + 1 /\ z[1] = e /\ \A i \in 1 .. Len(s) : z[i + 1] = s[i]

LEMMA OneBefore == ASSUME NEW S, NEW e \in S, NEW s \in Seq(S) PROVE IsCons(<<e>> \o s, S, e, s)
<1> DEFINE z == <<e>> \o s
<1>1. <<e>> \in Seq(S) /\ Len(<<e>>) = 1 /\ <<e>>[1] = e /\ Len(s) \in Nat
  BY LenProperties
<1>2. /\ z \in Seq(S) /\ Len(z) = 1 + Len(s)
      /\ \A i \in 1 .. 1 + Len(s) : z[i] = IF i <= 1 THEN <<e>>[i] ELSE s[i - 1]
  <2>1. /\ z \in Seq(S) /\ Len(z) = Len(<<e>>) + Len(s)
        /\ \A i \in 1 .. Len(<<e>>) + Len(s) : z[i] = IF i <= Len(<<e>>) THEN <<e>>[i] ELSE s[i - Len(<<e>>)]
    BY <1>1, ConcatProperties
  <2> HIDE DEF z
  <2> QED BY <1>1, <2>1
<1> HIDE DEF z
<1>3. z[1] = e
  <2>1. 1 \in 1 .. 1 + Len(s) /\ 1 <= 1
    BY <1>1
  <2> QED BY <1>1, <1>2, <2>1
<1>4. ASSUME NEW i \in 1 .. Len(s) PROVE z[i + 1] = s[i]
  <2>1. i + 1 \in 1 .. 1 + Len(s) /\ ~(i + 1 <= 1) /\ i + 1 - 1 = i
    BY <1>1
  <2> QED BY <1>2, <2>1
<1>5. IsCons(z, S, e, s)
  <2>1. Len(z) = Len(s) + 1
    BY <1>1, <1>2
  <2> QED BY <1>2, <1>3, <1>4, <2>1 DEF IsCons
<1> QED BY <1>5 DEF z

-----------------------------------------------------------------------------
(* A list whose nodes are in the order they were made, and the list of the  *)
(* language it stands for.                                                  *)
Distinct(s) == \A i, j \in 1 .. Len(s) : s[i].key = s[j].key => i = j

Flat(t) ==
    /\ \A i \in 1 .. Len(t.node) : /\ t.node[i].next = IF i = Len(t.node) THEN null ELSE i + 1
                                   /\ t.node[i].prev = IF i = 1 THEN Before ELSE i - 1
    /\ t.count = Len(t.node)
    /\ IF t.node = << >> THEN t = None ELSE t.lastnode = Len(t.node)
    /\ Distinct(t.node)
    /\ t.deleted => Len(t.node) = 1

Item      == [key : Nat, val : Nat]
Cells(s)  == [i \in 1 .. Len(s) |-> [key |-> s[i].key, val |-> s[i].val]]
Filled(t) == t.node # << >> /\ ~t.deleted
Els(t)    == IF Filled(t) THEN Cells(t.node) ELSE << >>
Cur(t)    == IF ~Filled(t) \/ t.lacc = Before THEN 0 ELSE IF t.lacc = null THEN -1 ELSE t.lacc

LEMMA CellsAre ==
    ASSUME NEW s \in Seq(Cell)
    PROVE  /\ Cells(s) \in Seq(Item) /\ Len(Cells(s)) = Len(s) /\ DOMAIN Cells(s) = 1 .. Len(s)
           /\ \A i \in 1 .. Len(s) : Cells(s)[i] = [key |-> s[i].key, val |-> s[i].val]
           /\ \A i \in 1 .. Len(s) : Cells(s)[i].key = s[i].key /\ Cells(s)[i].val = s[i].val
<1> DEFINE n == Len(s)
<1>1. n \in Nat /\ \A i \in 1 .. n : s[i] \in Cell
  BY Nodes
<1>2. DOMAIN Cells(s) = 1 .. n /\ \A i \in 1 .. n : Cells(s)[i] = [key |-> s[i].key, val |-> s[i].val]
  BY DEF Cells
<1>3. ASSUME NEW i \in 1 .. n PROVE Cells(s)[i] \in Item
  <2>1. s[i].key \in Nat /\ s[i].val \in Nat
    BY <1>1 DEF Cell
  <2> QED BY <1>2, <2>1 DEF Item
<1>4. Cells(s) \in [1 .. n -> Item]
  <2>1. Cells(s) = [i \in 1 .. n |-> Cells(s)[i]]
    BY <1>2 DEF Cells
  <2> QED BY <1>3, <2>1
<1> HIDE DEF n
<1>5. Cells(s) \in Seq(Item)
  BY <1>1, <1>4, IsASeq
<1>6. Len(Cells(s)) = n
  BY <1>1, <1>2, <1>5, LenProperties
<1>7. \A i \in 1 .. n : Cells(s)[i].key = s[i].key /\ Cells(s)[i].val = s[i].val
  BY <1>2
<1> QED BY <1>2, <1>5, <1>6, <1>7 DEF n

(* Such a list is walked node by node.                                     *)
LEMMA FlatPath ==
    ASSUME NEW t, Heap(t), Flat(t), t.node # << >>
    PROVE  Path(t, head) = [i \in 1 .. Len(t.node) |-> i]
<1> DEFINE n == Len(t.node)
           From(j) == [i \in 1 .. j |-> n - j + i]
           Bad == {j \in 0 .. n : j # 0 /\ Path(t, n - j + 1) # From(j)}
<1>1. /\ t \in Record /\ Onward(t) /\ n \in Nat /\ n > 0
      /\ \A i \in 1 .. n : t.node[i].next = IF i = n THEN null ELSE i + 1
  BY Nodes DEF Heap, Record, Flat
<1>2. /\ Path(t, null) = << >>
      /\ \A m \in {null} \cup 1 .. n : Path(t, m) \in Seq(1 .. n)
      /\ \A m \in 1 .. n : Path(t, m) = <<m>> \o Path(t, t.node[m].next)
  BY <1>1, PathStep
<1> HIDE DEF n
<1>3. SUFFICES Bad = {}
  <2>0. n \notin Bad
    BY <1>3
  <2>1. n \in 0 .. n /\ n # 0 /\ n - n + 1 = head /\ n \notin Bad
    <3> HIDE DEF Bad
    <3> QED BY <1>1, <2>0 DEF head
  <2>2. Path(t, head) = From(n)
    BY <2>1
  <2>3. \A i \in 1 .. n : n - n + i = i
    BY <1>1
  <2>4. From(n) = [i \in 1 .. n |-> i]
    BY <2>3
  <2> QED BY <2>2, <2>4 DEF n
<1>4. SUFFICES ASSUME Bad # {} PROVE FALSE
  OBVIOUS
<1>5. Bad \subseteq Nat
  BY <1>1
<1>6. PICK j \in Bad : \A y \in Bad : j <= y
  <2> HIDE DEF Bad
  <2> QED BY <1>4, <1>5, NatMin
<1>7. j \in 1 .. n /\ Path(t, n - j + 1) # From(j)
  BY <1>1
<1> DEFINE m == n - j + 1
           p == Path(t, t.node[m].next)
<1>8. m \in 1 .. n /\ Path(t, m) = <<m>> \o p /\ Path(t, m) # From(j)
  <2>1. m \in 1 .. n
    BY <1>1, <1>7
  <2>2. Path(t, m) # From(j)
    BY <1>7
  <2> HIDE DEF m
  <2> QED BY <1>2, <2>1, <2>2
<1>9. p \in Seq(1 .. n) /\ Len(p) = j - 1 /\ \A i \in 1 .. j - 1 : p[i] = m + i
  <2>1. CASE j = 1
    <3>1. m = n /\ t.node[m].next = null
      BY <1>1, <1>7, <1>8, <2>1
    <3>2. p = << >>
      BY <1>2, <3>1
    <3> QED BY <2>1, <3>2
  <2>2. CASE j # 1
    <3>1. m # n /\ t.node[m].next = m + 1 /\ j - 1 \in 0 .. n /\ j - 1 # 0 /\ n - (j - 1) + 1 = m + 1 /\ ~(j <= j - 1)
      BY <1>1, <1>7, <1>8, <2>2
    <3>2. Path(t, n - (j - 1) + 1) = From(j - 1)
      BY <1>6, <3>1
    <3>3. p = From(j - 1) /\ m + 1 \in 1 .. n
      BY <1>1, <1>7, <1>8, <3>1, <3>2
    <3>4. p \in Seq(1 .. n)
      BY <1>2, <3>1, <3>3
    <3> DEFINE k == j - 1
    <3>5. k \in Nat /\ p = [i \in 1 .. k |-> n - k + i] /\ n - k = m
      BY <1>1, <1>7, <3>3
    <3> HIDE DEF p, k, m
    <3>6. DOMAIN p = 1 .. k /\ \A i \in 1 .. k : p[i] = m + i
      BY <3>5
    <3>7. Len(p) = k
      BY <3>4, <3>5, <3>6, LenProperties
    <3> QED BY <3>4, <3>6, <3>7 DEF k
  <2> QED BY <2>1, <2>2
<1> DEFINE q == Path(t, m)
<1> HIDE DEF p, q
<1>10. q \in Seq(1 .. n) /\ Len(q) = Len(p) + 1 /\ q[1] = m /\ \A i \in 1 .. Len(p) : q[i + 1] = p[i]
  <2> DEFINE S == 1 .. n
  <2>0. m \in S /\ p \in Seq(S)
    BY <1>8, <1>9
  <2> HIDE DEF m, S
  <2>1. IsCons(<<m>> \o p, S, m, p)
    BY <2>0, OneBefore
  <2>2. IsCons(q, S, m, p)
    BY <1>8, <2>1 DEF q
  <2> QED BY <2>2 DEF S, IsCons
<1> HIDE DEF q
<1>11. Len(q) = j /\ j \in Nat
  BY <1>7, <1>9, <1>10
<1>12. ASSUME NEW i \in 1 .. j PROVE q[i] = n - j + i
  <2>1. CASE i = 1
    BY <1>10, <2>1
  <2>2. CASE i # 1
    <3>1. i - 1 \in 1 .. j - 1 /\ i - 1 + 1 = i /\ m + (i - 1) = n - j + i
      BY <1>1, <1>7, <2>2
    <3>2. q[i - 1 + 1] = p[i - 1] /\ p[i - 1] = m + (i - 1)
      BY <1>7, <1>9, <1>10, <3>1
    <3> QED BY <3>1, <3>2
  <2> QED BY <2>1, <2>2
<1>13. q = From(j)
  <2>1. DOMAIN q = 1 .. j
    BY <1>10, <1>11, LenProperties
  <2>2. q = [i \in DOMAIN q |-> q[i]]
    BY <1>10
  <2> QED BY <1>12, <2>1, <2>2
<1> QED BY <1>8, <1>13 DEF q

-----------------------------------------------------------------------------
(* What the calls store is such a list again.                               *)
LEMMA FlatNone == Flat(None) /\ Els(None) = << >> /\ Cur(None) = 0
<1>1. None.node = << >> /\ None.count = 0 /\ None.deleted = FALSE /\ Len(<< >>) = 0
  BY DEF None
<1>2. 1 .. 0 = {}
  OBVIOUS
<1> HIDE DEF None
<1> QED BY <1>1, <1>2 DEF Flat, Distinct, Els, Cur, Filled

Valued(c, i, v) == [c EXCEPT ![i].val = v]

LEMMA FlatRevalued ==
    ASSUME NEW t, Heap(t), Flat(t), NEW i \in 1 .. Len(t.node), NEW v \in Nat, NEW d \in BOOLEAN, d => t.deleted,
           NEW u, Revalued(u, t, i, v, d)
    PROVE  Flat(u) /\ Cells(u.node) = Valued(Cells(t.node), i, v)
<1> DEFINE n == Len(t.node)
<1>1. t.node \in Seq(Cell) /\ u.node \in Seq(Cell) /\ Len(u.node) = n /\ i \in 1 .. n /\ n \in Nat
  BY Nodes DEF Heap, Record, Revalued
<1>2. \A j \in 1 .. n : t.node[j] \in Cell /\ u.node[j] = IF j = i THEN [t.node[i] EXCEPT !.val = v] ELSE t.node[j]
  BY Nodes, <1>1 DEF Revalued
<1>3. ASSUME NEW j \in 1 .. n
      PROVE  /\ u.node[j].next = t.node[j].next /\ u.node[j].prev = t.node[j].prev /\ u.node[j].key = t.node[j].key
             /\ u.node[j].val = IF j = i THEN v ELSE t.node[j].val
  BY <1>2 DEF Cell
<1>4. Distinct(u.node)
  BY <1>1, <1>3 DEF Flat, Distinct
<1>5. u.node # << >> /\ t.node # << >>
  BY <1>1, Nodes
<1>6. Flat(u)
  <2>1. u.count = n /\ u.lastnode = n
    BY <1>5 DEF Revalued, Flat
  <2>2. u.deleted => n = 1
    BY DEF Revalued, Flat
  <2>3. \A j \in 1 .. n : /\ u.node[j].next = IF j = n THEN null ELSE j + 1
                          /\ u.node[j].prev = IF j = 1 THEN Before ELSE j - 1
    BY <1>3 DEF Flat
  <2> HIDE DEF n
  <2> QED BY <1>1, <1>4, <1>5, <2>1, <2>2, <2>3 DEF Flat
<1>7. Cells(u.node) = [Cells(t.node) EXCEPT ![i].val = v]
  <2> DEFINE c == Cells(t.node)
             e == [c[i] EXCEPT !.val = v]
  <2>1. /\ c \in Seq(Item) /\ Len(c) = n /\ DOMAIN c = 1 .. n
        /\ \A j \in 1 .. n : c[j] = [key |-> t.node[j].key, val |-> t.node[j].val]
    BY <1>1, CellsAre
  <2>2. e = [key |-> t.node[i].key, val |-> v]
    <3> DEFINE x == t.node[i].key
               y == t.node[i].val
               g == c[i]
    <3>1. g = [key |-> x, val |-> y]
      BY <1>1, <2>1
    <3>2. e = [g EXCEPT !.val = v]
      OBVIOUS
    <3> HIDE DEF e, g, x, y
    <3>3. e = [key |-> x, val |-> v]
      BY <3>1, <3>2
    <3> QED BY <3>3 DEF x
  <2> HIDE DEF e
  <2>3. DOMAIN Cells(u.node) = 1 .. n
        /\ \A j \in 1 .. n : Cells(u.node)[j] = [key |-> u.node[j].key, val |-> u.node[j].val]
    BY <1>1, CellsAre
  <2>4. \A j \in 1 .. n : Cells(u.node)[j] = IF j = i THEN e ELSE c[j]
    BY <1>3, <2>1, <2>2, <2>3
  <2>5. [c EXCEPT ![i].val = v] = [c EXCEPT ![i] = e]
    BY DEF e
  <2>6. Cells(u.node) = [j \in 1 .. n |-> Cells(u.node)[j]]
    BY <1>1 DEF Cells
  <2> HIDE DEF c
  <2>7. c = [j \in 1 .. n |-> c[j]]
    BY <2>1
  <2>8. [c EXCEPT ![i] = e] = [j \in 1 .. n |-> IF j = i THEN e ELSE c[j]]
    BY <2>1
  <2> QED BY <2>4, <2>5, <2>6, <2>8 DEF c
<1> QED BY <1>6, <1>7 DEF Valued

(* Elements copied behind the only one.                                     *)
LEMMA FlatCopied ==
    ASSUME NEW t, Heap(t), Flat(t), Len(t.node) = 1, ~t.deleted, NEW src \in Seq(Cell), Distinct(src),
           \A j \in 1 .. Len(src) : src[j].key # t.node[1].key
    PROVE  /\ Flat(copyarray(t, head, src)) /\ ~copyarray(t, head, src).deleted
           /\ copyarray(t, head, src).lacc = t.lacc
           /\ IsCons(Cells(copyarray(t, head, src).node), Item,
                     [key |-> t.node[1].key, val |-> t.node[1].val], Cells(src))
<1> DEFINE c == copyarray(t, head, src)
           k == Len(src)
           e == t.node[1]
           f == [key |-> e.key, val |-> e.val]
<1>1. t \in Record /\ t.node \in Seq(Cell) /\ e \in Cell /\ head \in 1 .. 1 /\ k \in Nat /\ \A j \in 1 .. k : src[j] \in Cell
  BY Nodes DEF Heap, Record, head
<1>2. /\ Cells(src) \in Seq(Item) /\ Len(Cells(src)) = k
      /\ \A j \in 1 .. k : Cells(src)[j] = [key |-> src[j].key, val |-> src[j].val]
  BY CellsAre
<1>3. CASE src = << >>
  <2>1. c = t /\ k = 0
    BY <1>1, <1>3, Nodes DEF copyarray
  <2> HIDE DEF c, k
  <2>2. Cells(t.node) \in Seq(Item) /\ Len(Cells(t.node)) = 1 /\ Cells(t.node)[1] = f
    BY <1>1, CellsAre
  <2>3. IsCons(Cells(t.node), Item, f, Cells(src))
    BY <1>2, <2>1, <2>2 DEF IsCons
  <2> QED BY <2>1, <2>3 DEF c
<1>4. CASE src # << >>
  <2>1. Copied(c, t, head, src)
    BY <1>1, <1>4, Copying
  <2>2. k > 0
    BY <1>1, <1>4, Nodes
  <2> HIDE DEF c
  <2>3. /\ c \in Record /\ Len(c.node) = 1 + k /\ c.lacc = t.lacc /\ c.deleted = t.deleted
        /\ c.count = 1 + k /\ c.lastnode = 1 + k
    BY <2>1 DEF Copied, Flat
  <2>4. c.node[1].key = e.key /\ c.node[1].val = e.val /\ c.node[1].next = 2 /\ c.node[1].prev = Before
    <3>0. 1 \in 1 .. Len(t.node) /\ 1 = head /\ Len(t.node) + 1 = 2
      BY DEF head
    <3>a. \A i \in 1 .. Len(t.node) :
             c.node[i] = IF i = head THEN [t.node[i] EXCEPT !.next = Len(t.node) + 1] ELSE t.node[i]
      BY <2>1 DEF Copied
    <3>1. c.node[1] = [e EXCEPT !.next = 2]
      BY <3>0, <3>a
    <3>2. e.prev = Before
      BY DEF Flat
    <3> HIDE DEF e
    <3> QED BY <1>1, <3>1, <3>2 DEF Cell
  <2>5. ASSUME NEW j \in 1 .. k
        PROVE  /\ c.node[j + 1].key = src[j].key /\ c.node[j + 1].val = src[j].val
               /\ c.node[j + 1].next = (IF j = k THEN null ELSE j + 2) /\ c.node[j + 1].prev = j
    <3> DEFINE x == IF j = k THEN null ELSE 1 + j + 1
               y == IF j = 1 THEN head ELSE 1 + j - 1
               g == src[j]
    <3>0. \A h \in 1 .. Len(src) :
             c.node[Len(t.node) + h] =
                [src[h] EXCEPT !.next = IF h = Len(src) THEN null ELSE Len(t.node) + h + 1,
                               !.prev = IF h = 1 THEN head ELSE Len(t.node) + h - 1]
      BY <2>1 DEF Copied
    <3>a. c.node[Len(t.node) + j] =
             [src[j] EXCEPT !.next = IF j = k THEN null ELSE Len(t.node) + j + 1,
                            !.prev = IF j = 1 THEN head ELSE Len(t.node) + j - 1]
      BY <3>0
    <3>1. c.node[1 + j] = [g EXCEPT !.next = x, !.prev = y]
      BY <3>a
    <3>2. 1 + j = j + 1 /\ x = (IF j = k THEN null ELSE j + 2) /\ y = j /\ g \in Cell
      BY <1>1 DEF head
    <3> HIDE DEF x, y, g
    <3>3. c.node[j + 1] = [g EXCEPT !.next = x, !.prev = y]
      BY <3>1, <3>2
    <3>4. /\ c.node[j + 1].key = g.key /\ c.node[j + 1].val = g.val
          /\ c.node[j + 1].next = x /\ c.node[j + 1].prev = y
      BY <3>2, <3>3 DEF Cell
    <3> QED BY <3>2, <3>4 DEF g
  <2>6. ASSUME NEW i \in 1 .. 1 + k PROVE i = 1 \/ (i - 1 \in 1 .. k /\ i = i - 1 + 1)
    BY <1>1
  <2>7. ASSUME NEW i \in 1 .. 1 + k
        PROVE  /\ c.node[i].next = IF i = 1 + k THEN null ELSE i + 1
               /\ c.node[i].prev = IF i = 1 THEN Before ELSE i - 1
    <3>1. CASE i = 1
      BY <1>1, <2>2, <2>4, <3>1
    <3>2. CASE i - 1 \in 1 .. k /\ i = i - 1 + 1
      <4> DEFINE j == i - 1
      <4>1. j \in 1 .. k /\ i = j + 1 /\ (j = k <=> i = 1 + k) /\ j + 2 = i + 1 /\ i # 1
        BY <1>1, <3>2
      <4> HIDE DEF j
      <4>2. c.node[i].next = (IF j = k THEN null ELSE j + 2) /\ c.node[i].prev = j
        BY <2>5, <4>1
      <4>3. j = i - 1
        BY DEF j
      <4> QED BY <4>1, <4>2, <4>3
    <3> QED BY <2>6, <3>1, <3>2
  <2>8. ASSUME NEW i \in 1 .. 1 + k, NEW j \in 1 .. 1 + k, c.node[i].key = c.node[j].key PROVE i = j
    <3>1. CASE i = 1 /\ j = 1
      BY <3>1
    <3>2. CASE i = 1 /\ j # 1
      <4>1. j - 1 \in 1 .. k /\ c.node[j].key = src[j - 1].key
        BY <2>5, <2>6, <3>2
      <4>2. c.node[1].key = t.node[1].key /\ src[j - 1].key # t.node[1].key
        BY <2>4, <4>1
      <4> QED BY <2>8, <3>2, <4>1, <4>2
    <3>3. CASE i # 1 /\ j = 1
      <4>1. i - 1 \in 1 .. k /\ c.node[i].key = src[i - 1].key
        BY <2>5, <2>6, <3>3
      <4>2. c.node[1].key = t.node[1].key /\ src[i - 1].key # t.node[1].key
        BY <2>4, <4>1
      <4> QED BY <2>8, <3>3, <4>1, <4>2
    <3>4. CASE i # 1 /\ j # 1
      <4>1. /\ i - 1 \in 1 .. k /\ c.node[i].key = src[i - 1].key
            /\ j - 1 \in 1 .. k /\ c.node[j].key = src[j - 1].key
        BY <2>5, <2>6, <3>4
      <4>2. i - 1 = j - 1
        BY <2>8, <4>1 DEF Distinct
      <4> QED BY <1>1, <4>2
    <3> QED BY <3>1, <3>2, <3>3, <3>4
  <2>9. c.node \in Seq(Cell) /\ c.node # << >>
    BY <1>1, <2>2, <2>3, Nodes DEF Record
  <2> HIDE DEF k
  <2>10. Flat(c)
    BY <2>3, <2>7, <2>8, <2>9 DEF Flat, Distinct
  <2>11. /\ Cells(c.node) \in Seq(Item) /\ Len(Cells(c.node)) = 1 + k
         /\ \A i \in 1 .. 1 + k : Cells(c.node)[i] = [key |-> c.node[i].key, val |-> c.node[i].val]
    BY <2>3, <2>9, CellsAre
  <2>12. Cells(c.node)[1] = f
    <3>1. 1 \in 1 .. 1 + k
      BY <1>1
    <3> QED BY <2>4, <2>11, <3>1
  <2>13. ASSUME NEW i \in 1 .. k PROVE Cells(c.node)[i + 1] = Cells(src)[i]
    <3>1. i + 1 \in 1 .. 1 + k
      BY <1>1
    <3>2. Cells(c.node)[i + 1] = [key |-> c.node[i + 1].key, val |-> c.node[i + 1].val]
      BY <2>11, <3>1
    <3>3. Cells(src)[i] = [key |-> src[i].key, val |-> src[i].val]
      BY <1>2
    <3>4. c.node[i + 1].key = src[i].key /\ c.node[i + 1].val = src[i].val
      BY <2>5
    <3> QED BY <3>2, <3>3, <3>4
  <2>14. IsCons(Cells(c.node), Item, f, Cells(src))
    <3>1. Len(Cells(c.node)) = Len(Cells(src)) + 1
      BY <1>1, <1>2, <2>11
    <3> QED BY <1>2, <2>11, <2>12, <2>13, <3>1 DEF IsCons
  <2> QED BY <2>3, <2>10, <2>14 DEF c
<1> QED BY <1>3, <1>4

(* A variable that comes into being.                                       *)
LEMMA FlatCreated ==
    ASSUME NEW k \in Nat, NEW x, x.v \in Nat, x.src \in Seq(Cell), Distinct(x.src),
           \A j \in 1 .. Len(x.src) : x.src[j].key # k
    PROVE  /\ Flat(Created(k, x)) /\ ~Created(k, x).deleted /\ Created(k, x).lacc = Before
           /\ IsCons(Cells(Created(k, x).node), Item, [key |-> k, val |-> x.v], Cells(x.src))
<1> DEFINE e == [key |-> k, val |-> x.v, next |-> null, prev |-> Before]
           t == [None EXCEPT !.node = <<e>>, !.lastnode = head, !.count = 1]
           src == x.src
<1>1. e \in Cell /\ e.next = null /\ e.prev = Before /\ e.key = k /\ e.val = x.v
  BY DEF Cell, null, Before
<1>2. Created(k, x) = copyarray(t, head, src)
  BY DEF Created
<1> DEFINE s == <<e>>
<1> HIDE DEF e
<1>3. s \in Seq(Cell) /\ Len(s) = 1 /\ s[1] = e /\ s # << >>
  BY <1>1
<1>4. /\ t \in Record /\ t.node = s /\ t.lacc = Before /\ t.lastnode = head /\ ~t.deleted /\ t.count = 1
  <2> DEFINE w == None
  <2>1. w \in Record /\ w.lacc = Before /\ w.deleted = FALSE /\ head \in Nat /\ 1 \in Nat
    <3>1. None \in Record
      BY EmptyHeap DEF Heap
    <3> QED BY <3>1 DEF None, head
  <2>2. t = [w EXCEPT !.node = s, !.lastnode = head, !.count = 1]
    OBVIOUS
  <2> HIDE DEF w, t, s
  <2> QED BY <1>3, <2>1, <2>2 DEF Record
<1> HIDE DEF t, s
<1>5. Heap(t) /\ Len(t.node) = 1 /\ t.node[1] = e
  <2>1. Len(t.node) = 1 /\ t.node[1] = e
    BY <1>3, <1>4
  <2>2. \A i \in 1 .. Len(t.node) : i = 1 /\ t.node[i] = e
    BY <2>1
  <2>3. Onward(t)
    BY <1>1, <2>2 DEF Onward
  <2>4. t.lastnode \in 1 .. Len(t.node) /\ t.node # << >>
    BY <1>3, <1>4, <2>1 DEF head
  <2> QED BY <1>1, <1>4, <2>1, <2>2, <2>3, <2>4 DEF Heap
<1>6. Flat(t)
  <2>1. Distinct(t.node)
    BY <1>5 DEF Distinct
  <2>2. \A i \in 1 .. Len(t.node) : i = 1 /\ i = Len(t.node) /\ t.node[i] = e
    BY <1>5
  <2>3. t.node # << >> /\ t.lastnode = Len(t.node) /\ t.count = Len(t.node) /\ ~t.deleted
    BY <1>3, <1>4, <1>5 DEF head
  <2> QED BY <1>1, <2>1, <2>2, <2>3 DEF Flat
<1>7. src \in Seq(Cell) /\ Distinct(src) /\ \A j \in 1 .. Len(src) : src[j].key # t.node[1].key
  BY <1>1, <1>5
<1> HIDE DEF src
<1>8. /\ Flat(copyarray(t, head, src)) /\ ~copyarray(t, head, src).deleted
      /\ copyarray(t, head, src).lacc = t.lacc
      /\ IsCons(Cells(copyarray(t, head, src).node), Item,
                [key |-> t.node[1].key, val |-> t.node[1].val], Cells(src))
  BY <1>4, <1>5, <1>6, <1>7, FlatCopied
<1> QED BY <1>1, <1>2, <1>4, <1>5, <1>8 DEF src

(* One more element at the end.                                            *)
LEMMA FlatLinked ==
    ASSUME NEW t, Heap(t), Flat(t), t.node # << >>, ~t.deleted, NEW k \in Nat,
           \A i \in 1 .. Len(t.node) : t.node[i].key # k, NEW x, x.v \in Nat, x.src = << >>
    PROVE  /\ Flat(Linked(t, k, x)) /\ ~Linked(t, k, x).deleted /\ Linked(t, k, x).lacc = t.lacc
           /\ Linked(t, k, x).node # << >>
           /\ Cells(Linked(t, k, x).node) = Append(Cells(t.node), [key |-> k, val |-> x.v])
<1> DEFINE m == Len(t.node)
           last == Last(Path(t, head))
           n == Cardinality(DOMAIN t.node) + 1
           s1 == [t.node EXCEPT ![last].next = n]
           e == [key |-> k, val |-> x.v, next |-> null, prev |-> last]
           s == s1 \o <<e>>
           u == [t EXCEPT !.node = s, !.count = @ + 1, !.lastnode = n]
<1>1. t \in Record /\ t.node \in Seq(Cell) /\ m \in Nat /\ m > 0 /\ n = m + 1 /\ m \in 1 .. m
  BY Nodes DEF Heap, Record
<1>2. last = m
  <2> DEFINE p == Path(t, head)
  <2>1. p = [i \in 1 .. m |-> i] /\ p \in Seq(1 .. m)
    BY FlatPath, FromHead
  <2> HIDE DEF p
  <2>2. DOMAIN p = 1 .. m /\ p[m] = m
    BY <1>1, <2>1
  <2>3. Len(p) = m
    BY <1>1, <2>1, <2>2, LenProperties
  <2> QED BY <2>2, <2>3 DEF p, Last
<1>3. Linked(t, k, x) = u
  BY DEF Linked, copyarray
<1> HIDE DEF n, last
<1>4. e \in Cell /\ e.next = null /\ e.prev = m /\ e.key = k /\ e.val = x.v
  BY <1>1, <1>2 DEF Cell, null
<1> DEFINE g == t.node[m]
           f == [g EXCEPT !.next = n]
<1>5. g \in Cell /\ s1 = [t.node EXCEPT ![m] = f]
  BY <1>1, <1>2, Nodes
<1>6. f \in Cell /\ f.next = n /\ f.prev = g.prev /\ f.key = g.key /\ f.val = g.val
  <2>1. n \in Nat
    BY <1>1
  <2> HIDE DEF g, m
  <2> QED BY <1>5, <2>1 DEF Cell
<1> HIDE DEF e, f, s1
<1>7. s1 \in Seq(Cell) /\ Len(s1) = m /\ \A i \in 1 .. m : s1[i] = IF i = m THEN f ELSE t.node[i]
  BY <1>1, <1>5, <1>6, ExceptSeq
<1>8. <<e>> \in Seq(Cell) /\ Len(<<e>>) = 1 /\ <<e>>[1] = e
  BY <1>4
<1>9. s \in Seq(Cell) /\ Len(s) = n /\ s[n] = e /\ \A i \in 1 .. m : s[i] = s1[i]
  <2>1. /\ s \in Seq(Cell) /\ Len(s) = Len(s1) + Len(<<e>>)
        /\ \A i \in 1 .. Len(s1) + Len(<<e>>) : s[i] = IF i <= Len(s1) THEN s1[i] ELSE <<e>>[i - Len(s1)]
    BY <1>7, <1>8, ConcatProperties
  <2> HIDE DEF s
  <2>2. n \in 1 .. m + 1 /\ ~(n <= m) /\ n - m = 1
    BY <1>1
  <2>3. s[n] = <<e>>[1]
    BY <1>7, <1>8, <2>1, <2>2
  <2> QED BY <1>1, <1>7, <1>8, <2>1, <2>3
<1> HIDE DEF s
<1>10. /\ u \in Record /\ u.node = s /\ u.lacc = t.lacc /\ u.deleted = t.deleted /\ u.lastnode = n /\ u.count = n
  <2> DEFINE c == t.count + 1
  <2>1. c \in Nat /\ c = n /\ u = [t EXCEPT !.node = s, !.count = c, !.lastnode = n]
    BY <1>1 DEF Record, Flat
  <2> HIDE DEF u, c
  <2> QED BY <1>1, <1>9, <2>1 DEF Record
<1> HIDE DEF u
<1>11. ASSUME NEW i \in 1 .. n PROVE i = n \/ i \in 1 .. m
  BY <1>1
<1>12. ASSUME NEW i \in 1 .. m
       PROVE  /\ s[i].key = t.node[i].key /\ s[i].val = t.node[i].val /\ s[i].prev = t.node[i].prev
              /\ s[i].next = i + 1
  <2>1. CASE i = m
    BY <1>1, <1>6, <1>7, <1>9, <2>1
  <2>2. CASE i # m
    <3>1. s[i] = t.node[i]
      BY <1>7, <1>9, <2>2
    <3> QED BY <2>2, <3>1 DEF Flat
  <2> QED BY <2>1, <2>2
<1>13. ASSUME NEW i \in 1 .. n
       PROVE  /\ s[i].next = IF i = n THEN null ELSE i + 1
              /\ s[i].prev = IF i = 1 THEN Before ELSE i - 1
  <2>1. CASE i = n
    BY <1>1, <1>4, <1>9, <2>1
  <2>2. CASE i \in 1 .. m
    <3>1. i # n
      BY <1>1, <2>2
    <3>2. t.node[i].prev = IF i = 1 THEN Before ELSE i - 1
      BY <2>2 DEF Flat
    <3> QED BY <1>12, <2>2, <3>1, <3>2
  <2> QED BY <1>11, <2>1, <2>2
<1>14. ASSUME NEW i \in 1 .. n, NEW j \in 1 .. n, s[i].key = s[j].key PROVE i = j
  <2>1. CASE i \in 1 .. m /\ j \in 1 .. m
    BY <1>12, <1>14, <2>1 DEF Flat, Distinct
  <2>2. CASE i = n /\ j \in 1 .. m
    BY <1>4, <1>9, <1>12, <1>14, <2>2
  <2>3. CASE i \in 1 .. m /\ j = n
    BY <1>4, <1>9, <1>12, <1>14, <2>3
  <2> QED BY <1>11, <2>1, <2>2, <2>3
<1>15. s # << >>
  BY <1>1, <1>9, Nodes
<1>16. Flat(u)
  BY <1>9, <1>10, <1>13, <1>14, <1>15 DEF Flat, Distinct
<1>17. Cells(s) = Append(Cells(t.node), [key |-> k, val |-> x.v])
  <2> DEFINE c == Cells(t.node)
             y == [key |-> k, val |-> x.v]
  <2>1. c \in Seq(Item) /\ Len(c) = m /\ y \in Item
        /\ \A i \in 1 .. m : c[i] = [key |-> t.node[i].key, val |-> t.node[i].val]
    BY <1>1, CellsAre DEF Item
  <2>2. Cells(s) \in Seq(Item) /\ Len(Cells(s)) = n
        /\ \A i \in 1 .. n : Cells(s)[i] = [key |-> s[i].key, val |-> s[i].val]
    BY <1>9, CellsAre
  <2>3. n \in 1 .. n
    BY <1>1
  <2>4. Cells(s)[n] = y
    BY <1>4, <1>9, <2>2, <2>3
  <2>5. ASSUME NEW i \in 1 .. m PROVE Cells(s)[i] = c[i]
    <3>1. i \in 1 .. n
      BY <1>1
    <3> QED BY <1>12, <2>1, <2>2, <3>1
  <2> HIDE DEF c, y
  <2>6. /\ Append(c, y) \in Seq(Item) /\ Len(Append(c, y)) = m + 1 /\ Append(c, y)[m + 1] = y
        /\ \A i \in 1 .. m : Append(c, y)[i] = c[i]
    BY <2>1, AppendProperties
  <2>7. \A i \in 1 .. n : Cells(s)[i] = Append(c, y)[i]
    BY <1>1, <1>11, <2>4, <2>5, <2>6
  <2>8. Cells(s) = Append(c, y)
    BY <1>1, <2>2, <2>6, <2>7, SameSeq
  <2> QED BY <2>8 DEF c, y
<1> QED BY <1>3, <1>10, <1>15, <1>16, <1>17

LEMMA FlatUnSet ==
    ASSUME NEW t, Heap(t), Flat(t), t.node # << >>,
           NEW u, u = [t EXCEPT !.node = <<[t.node[head] EXCEPT !.next = null, !.prev = Before]>>, !.count = 1,
                                !.lacc = Before, !.lastnode = head, !.deleted = TRUE]
    PROVE  Flat(u) /\ u.deleted
<1> DEFINE e == [t.node[head] EXCEPT !.next = null, !.prev = Before]
           s == <<e>>
<1>1. t \in Record /\ t.node[head] \in Cell
  BY Nodes DEF Heap, Record, head
<1>2. e.next = null /\ e.prev = Before
  BY <1>1 DEF Cell
<1>3. u = [t EXCEPT !.node = s, !.count = 1, !.lacc = Before, !.lastnode = head, !.deleted = TRUE]
  OBVIOUS
<1> HIDE DEF e
<1>4. Len(s) = 1 /\ s[1] = e /\ s # << >>
  OBVIOUS
<1> HIDE DEF s
<1>5. u.node = s /\ u.count = 1 /\ u.lastnode = head /\ u.deleted = TRUE
  BY <1>1, <1>3 DEF Record
<1>6. Distinct(s)
  BY <1>4 DEF Distinct
<1> QED BY <1>2, <1>4, <1>5, <1>6 DEF Flat, head

-----------------------------------------------------------------------------
(* The inductive invariant of a page that keeps clear of the pitfalls.      *)
Careful == Pitfall \subseteq Avoided
ListInv == TypeInv /\ \A a \in Name : Flat(var[a])

(* What the page sees of its variables, which is what the language says.    *)
Lists   == [a \in Name |-> Elements(a)]
Cursors == [a \in Name |-> Cursor(a)]

ElementsOf(t) ==
    LET p == Path(t, head)
    IN  IF ~(t.node # << >> /\ ~t.deleted) THEN << >>
        ELSE [i \in DOMAIN p |-> [key |-> t.node[p[i]].key, val |-> t.node[p[i]].val]]

CursorOf(t) ==
    IF ~(t.node # << >> /\ ~t.deleted) \/ t.lacc = Before THEN 0
    ELSE IF t.lacc = null THEN -1
    ELSE LET p == Path(t, head) IN CHOOSE i \in DOMAIN p : p[i] = t.lacc

LEMMA SeenOf ==
    ASSUME NEW t, Heap(t), Flat(t) PROVE ElementsOf(t) = Els(t) /\ CursorOf(t) = Cur(t)
<1>1. CASE ~Filled(t)
  BY <1>1 DEF ElementsOf, CursorOf, Els, Cur, Filled
<1>2. CASE Filled(t)
  <2> DEFINE n == Len(t.node)
             p == Path(t, head)
  <2>1. t.node # << >> /\ ~t.deleted
    BY <1>2 DEF Filled
  <2>2. p = [i \in 1 .. n |-> i]
    BY <2>1, FlatPath
  <2>3. ElementsOf(t) = [i \in DOMAIN p |-> [key |-> t.node[p[i]].key, val |-> t.node[p[i]].val]]
    BY <2>1 DEF ElementsOf
  <2>4. ~(t.lacc = Before) /\ ~(t.lacc = null) => CursorOf(t) = CHOOSE i \in DOMAIN p : p[i] = t.lacc
    BY <2>1 DEF CursorOf
  <2>5. t.lacc \in {null, Before} \cup 1 .. n
    BY DEF Heap
  <2> HIDE DEF p
  <2>6. DOMAIN p = 1 .. n /\ \A i \in 1 .. n : p[i] = i
    BY <2>2
  <2>7. ElementsOf(t) = Els(t)
    BY <1>2, <2>3, <2>6 DEF Els, Cells
  <2>8. CursorOf(t) = Cur(t)
    <3>1. CASE t.lacc \in {null, Before}
      BY <1>2, <2>1, <3>1 DEF CursorOf, Cur
    <3>2. CASE t.lacc \notin {null, Before}
      <4>1. t.lacc \in 1 .. n /\ CursorOf(t) = CHOOSE i \in DOMAIN p : p[i] = t.lacc
        BY <2>4, <2>5, <3>2
      <4>2. \E i \in DOMAIN p : p[i] = t.lacc
        BY <2>6, <4>1
      <4>3. CursorOf(t) \in DOMAIN p /\ p[CursorOf(t)] = t.lacc
        BY <4>1, <4>2
      <4>4. CursorOf(t) = t.lacc
        BY <2>6, <4>3
      <4> QED BY <1>2, <3>2, <4>4 DEF Cur
    <3> QED BY <3>1, <3>2
  <2> QED BY <2>7, <2>8
<1> QED BY <1>1, <1>2

LEMMA SeenNow ==
    ASSUME ListInv, NEW a \in Name
    PROVE  Lists[a] = Els(var[a]) /\ Cursors[a] = Cur(var[a]) /\ Heap(var[a]) /\ Flat(var[a])
<1>1. Heap(var[a]) /\ Flat(var[a])
  BY ListParts DEF ListInv
<1>2. Elements(a) = ElementsOf(var[a]) /\ Cursor(a) = CursorOf(var[a])
  BY DEF Elements, Cursor, ElementsOf, CursorOf, Chain, GetVar
<1>3. ElementsOf(var[a]) = Els(var[a]) /\ CursorOf(var[a]) = Cur(var[a])
  <2> DEFINE t == var[a]
  <2>1. Heap(t) /\ Flat(t)
    BY <1>1
  <2> HIDE DEF t
  <2>2. ElementsOf(t) = Els(t) /\ CursorOf(t) = Cur(t)
    BY <2>1, SeenOf
  <2> QED BY <2>2 DEF t
<1> QED BY <1>1, <1>2, <1>3 DEF Lists, Cursors

LEMMA SeenThen ==
    ASSUME NEW a \in Name, Heap(var'[a]), Flat(var'[a])
    PROVE  Lists'[a] = Els(var'[a]) /\ Cursors'[a] = Cur(var'[a])
<1>2. Elements(a)' = ElementsOf(var'[a]) /\ Cursor(a)' = CursorOf(var'[a])
  BY DEF Elements, Cursor, ElementsOf, CursorOf, Chain, GetVar
<1>3. ElementsOf(var'[a]) = Els(var'[a]) /\ CursorOf(var'[a]) = Cur(var'[a])
  <2> DEFINE t == var'[a]
  <2>1. Heap(t) /\ Flat(t)
    OBVIOUS
  <2> HIDE DEF t
  <2>2. ElementsOf(t) = Els(t) /\ CursorOf(t) = Cur(t)
    BY <2>1, SeenOf
  <2> QED BY <2>2 DEF t
<1>4. Lists'[a] = Elements(a)' /\ Cursors'[a] = Cursor(a)'
  BY DEF Lists, Cursors
<1> QED BY <1>2, <1>3, <1>4

(* A call that stores a list: the other variables stay as they are, and     *)
(* this one is what was stored.                                            *)
Becomes(a, t) ==
    /\ ListInv' /\ out' = << >>
    /\ Lists'[a] = Els(t) /\ Cursors'[a] = Cur(t) /\ Language!Others(a)

LEMMA Stored ==
    ASSUME ListInv, NEW a \in Name, NEW t, Stores(a, t), Heap(t), Flat(t) PROVE Becomes(a, t)
<1>1. TypeInv'
  BY StoresTypes DEF ListInv
<1>2. var' = [var EXCEPT ![a] = t] /\ out' = << >>
  BY DEF Stores
<1>3. DOMAIN var' = Name /\ \A b \in Name : var'[b] = IF b = a THEN t ELSE var[b]
  BY <1>2 DEF ListInv, TypeInv
<1>4. \A b \in Name : Flat(var'[b])
  BY <1>3 DEF ListInv
<1>5. ListInv'
  <2>1. (\A b \in Name : Flat(var[b]))'
    BY <1>4 DEF Flat, Distinct
  <2> QED BY <1>1, <2>1 DEF ListInv
<1>6. Lists'[a] = Els(t) /\ Cursors'[a] = Cur(t)
  <2>1. var'[a] = t
    BY <1>3
  <2>2. Heap(var'[a]) /\ Flat(var'[a])
    BY <2>1
  <2>3. Lists'[a] = Els(var'[a]) /\ Cursors'[a] = Cur(var'[a])
    BY <2>2, SeenThen
  <2> QED BY <2>1, <2>3
<1>7. ASSUME NEW b \in Name \ {a} PROVE Lists'[b] = Lists[b] /\ Cursors'[b] = Cursors[b]
  <2>1. var'[b] = var[b] /\ Heap(var[b]) /\ Flat(var[b]) /\ Lists[b] = Els(var[b]) /\ Cursors[b] = Cur(var[b])
    BY <1>3, SeenNow
  <2>2. Heap(var'[b]) /\ Flat(var'[b])
    BY <2>1
  <2>3. Lists'[b] = Els(var'[b]) /\ Cursors'[b] = Cur(var'[b])
    BY <2>2, SeenThen
  <2> QED BY <2>1, <2>3
<1>8. Language!Others(a)
  BY <1>7 DEF Language!Others, Lists, Cursors
<1> QED BY <1>2, <1>5, <1>6, <1>8 DEF Becomes

-----------------------------------------------------------------------------
(* The calls of the language, said of the lists.                            *)
LEMMA SaidAssign ==
    ASSUME NEW a, NEW src, Cursors'[a] = Cursors[a],
           Lists'[a] = IF Lists[a] = << >> THEN <<[key |-> 0, val |-> src[1].val]>> \o Tail(src)
                       ELSE <<[Lists[a][1] EXCEPT !.val = src[1].val]>> \o Tail(IF Len(src) > 1 THEN src ELSE Lists[a])
    PROVE  Language!Assign(a, src)
  BY DEF Language!Assign, Language!Points, Language!Keeps, Language!IsSet, Language!New, Language!Element, Lists, Cursors

LEMMA SaidAppend1 ==
    ASSUME NEW a, NEW src, Cursors'[a] = Cursors[a],
           IF Lists[a] = << >> THEN Lists'[a] = <<[key |-> 0, val |-> src[1].val]>> \o Tail(src)
           ELSE Len(src) = 1 /\ Lists'[a] = Append(Lists[a], [key |-> Len(Lists[a]), val |-> src[1].val])
    PROVE  Language!Append1(a, src)
  BY DEF Language!Append1, Language!Points, Language!Keeps, Language!IsSet, Language!New, Language!Element, Lists, Cursors

LEMMA SaidAssignAt ==
    ASSUME NEW a, NEW k, NEW src, Cursors'[a] = Cursors[a],
           \/ Lists[a] = << >> /\ Lists'[a] = <<[key |-> k, val |-> src[1].val]>> \o Tail(src)
           \/ /\ Lists[a] # << >> /\ {i \in DOMAIN Lists[a] : Lists[a][i].key = k} = {}
              /\ Len(src) = 1 /\ Lists'[a] = Append(Lists[a], [key |-> k, val |-> src[1].val])
           \/ /\ Lists[a] # << >>
              /\ \E i \in {i \in DOMAIN Lists[a] : Lists[a][i].key = k} :
                    Lists'[a] = [Lists[a] EXCEPT ![i].val = src[1].val]
    PROVE  Language!AssignAt(a, k, src)
<1>1. Language!At(a, k) = {i \in DOMAIN Lists[a] : Lists[a][i].key = k}
  BY DEF Language!At, Lists
<1> DEFINE S == Language!At(a, k)
<1>2. \/ Lists[a] = << >> /\ Lists'[a] = <<[key |-> k, val |-> src[1].val]>> \o Tail(src)
      \/ /\ Lists[a] # << >> /\ S = {}
         /\ Len(src) = 1 /\ Lists'[a] = Append(Lists[a], [key |-> k, val |-> src[1].val])
      \/ /\ Lists[a] # << >> /\ S # {}
         /\ \E i \in S : Lists'[a] = [Lists[a] EXCEPT ![i].val = src[1].val]
  BY <1>1
<1> HIDE DEF S
<1>3. /\ Cursors'[a] = Cursors[a]
      /\ IF Lists[a] = << >> THEN Lists'[a] = <<[key |-> k, val |-> src[1].val]>> \o Tail(src)
         ELSE IF S = {} THEN Len(src) = 1 /\ Lists'[a] = Append(Lists[a], [key |-> k, val |-> src[1].val])
         ELSE \E i \in S : Lists'[a] = [Lists[a] EXCEPT ![i].val = src[1].val]
  BY <1>2
<1> QED BY <1>3 DEF Language!AssignAt, Language!Points, Language!Keeps, Language!IsSet, Language!New, Language!Element, Lists, Cursors, S

LEMMA SaidUnSet == ASSUME NEW a, Lists'[a] = << >>, Cursors'[a] = 0 PROVE Language!UnSet(a)
  BY DEF Language!UnSet, Language!Points, Language!Keeps, Lists, Cursors

LEMMA SaidChange ==
    ASSUME NEW a, NEW op, Cursors'[a] = Cursors[a],
           \/ DOMAIN Lists[a] = {} /\ Lists'[a] = Append(Lists[a], [key |-> 0, val |-> Language!ValueFor(op)])
           \/ /\ 1 \in DOMAIN Lists[a]
              /\ Lists'[a] = [Lists[a] EXCEPT ![1].val = Language!Combine(op, @)]
    PROVE  Language!Change(a, {}, op)
<1> DEFINE S == {1} \cap DOMAIN Lists[a]
           l == Lists[a]
<1>1. CASE S = {}
  <2>1. Lists'[a] = Append(l, [key |-> 0, val |-> Language!ValueFor(op)])
    BY <1>1
  <2> QED BY <1>1, <2>1 DEF Language!Change, Language!Points, Language!Keeps, Language!Element, Lists, Cursors
<1>2. CASE S # {}
  <2>1. 1 \in S /\ Lists'[a] = [l EXCEPT ![1].val = Language!Combine(op, @)]
    BY <1>2
  <2>2. \E i \in S : Lists'[a] = [l EXCEPT ![i].val = Language!Combine(op, @)]
    BY <2>1
  <2> QED BY <1>2, <2>2 DEF Language!Change, Language!Points, Language!Keeps, Lists, Cursors
<1> QED BY <1>1, <1>2

LEMMA SaidChangeAt ==
    ASSUME NEW a, NEW k, NEW op, Cursors'[a] = Cursors[a],
           \/ /\ {i \in DOMAIN Lists[a] : Lists[a][i].key = k} = {}
              /\ Lists'[a] = Append(Lists[a], [key |-> k, val |-> Language!ValueFor(op)])
           \/ \E i \in {i \in DOMAIN Lists[a] : Lists[a][i].key = k} :
                 Lists'[a] = [Lists[a] EXCEPT ![i].val = Language!Combine(op, @)]
    PROVE  Language!Change(a, {k}, op)
<1>1. Language!At(a, k) = {i \in DOMAIN Lists[a] : Lists[a][i].key = k}
  BY DEF Language!At, Lists
<1> DEFINE S == Language!At(a, k)
           T == UNION {Language!At(a, q) : q \in {k}}
           m == CHOOSE n \in {k} : TRUE
           l == Lists[a]
<1>2. T = S
  OBVIOUS
<1>3. m = k
  OBVIOUS
<1>4. \/ S = {} /\ Lists'[a] = Append(l, [key |-> k, val |-> Language!ValueFor(op)])
      \/ \E i \in S : Lists'[a] = [l EXCEPT ![i].val = Language!Combine(op, @)]
  BY <1>1
<1>5. Language!Change(a, {k}, op) <=>
         /\ Cursors'[a] = Cursors[a]
         /\ IF T = {} THEN Lists'[a] = Append(l, [key |-> m, val |-> Language!ValueFor(op)])
            ELSE \E i \in T : Lists'[a] = [l EXCEPT ![i].val = Language!Combine(op, @)]
  BY DEF Language!Change, Language!Points, Language!Keeps, Language!Element, Lists, Cursors
<1> HIDE DEF S, T, m, l
<1>6. IF T = {} THEN Lists'[a] = Append(l, [key |-> m, val |-> Language!ValueFor(op)])
      ELSE \E i \in T : Lists'[a] = [l EXCEPT ![i].val = Language!Combine(op, @)]
  BY <1>2, <1>3, <1>4
<1> QED BY <1>5, <1>6

LEMMA SaidOps == ASSUME NEW op PROVE /\ Language!ValueFor(op) = ValueFor(op).v /\ Language!Operator = Operator
                                     /\ \A v : Language!Combine(op, v) = Combine(op, v)
  BY DEF Language!ValueFor, ValueFor, Literal, Language!Operator, Operator, Language!Combine, Combine

(* What is stored is a list of the language.                                *)
Means(x, src) ==
    /\ src \in Language!Source /\ src \in Seq(Item) /\ src[1].val = x.v
    /\ Tail(src) = Cells(x.src) /\ Len(src) = Len(x.src) + 1

LEMMA PlainMeans ==
    ASSUME NEW v \in Value
    PROVE  /\ <<[key |-> 0, val |-> v]>> \in Language!Source
           /\ <<[key |-> 0, val |-> v]>>[1].val = v /\ Tail(<<[key |-> 0, val |-> v]>>) = << >>
           /\ Len(<<[key |-> 0, val |-> v]>>) = 1 /\ <<[key |-> 0, val |-> v]>> \in Seq(Item)
<1> DEFINE e == [key |-> 0, val |-> v]
<1>1. e \in Item /\ e.val = v
  BY DEF Item, Value
<1>2. <<e>> \in Language!Source
  BY DEF Language!Source, Language!Element, Language!Value, Value
<1> HIDE DEF e
<1>3. <<e>>[1] = e /\ Tail(<<e>>) = << >> /\ Len(<<e>>) = 1 /\ <<e>> \in Seq(Item)
  BY <1>1
<1> QED BY <1>1, <1>2, <1>3 DEF e

LEMMA EmptyCells == Cells(<< >>) = << >> /\ Distinct(<< >>) /\ << >> \in Seq(Cell) /\ Len(<< >>) = 0
<1>1. Len(<< >>) = 0 /\ << >> \in Seq(Cell) /\ 1 .. 0 = {}
  BY EmptySeq
<1>2. Cells(<< >>) \in Seq(Item) /\ Len(Cells(<< >>)) = 0
  BY <1>1, CellsAre
<1>3. Cells(<< >>) = << >>
  BY <1>2, EmptySeq
<1> QED BY <1>1, <1>3 DEF Distinct

LEMMA SourceMeans ==
    ASSUME ListInv, NEW x \in Source
    PROVE  /\ x.v \in Value /\ x.v \in Nat /\ x.src \in Seq(Cell) /\ Distinct(x.src)
           /\ \E src : Means(x, src)
<1>1. x.v \in Value /\ x.v \in Nat /\ x.src \in Seq(Cell)
  BY SourceTypes DEF ListInv
<1>2. CASE \E v \in Value : x = Literal(v)
  <2>1. PICK v \in Value : x = Literal(v)
    BY <1>2
  <2>2. x.v = v /\ x.src = << >>
    BY <2>1 DEF Literal
  <2> DEFINE src == <<[key |-> 0, val |-> v]>>
  <2>3. src \in Language!Source /\ src[1].val = v /\ Tail(src) = << >> /\ Len(src) = 1 /\ src \in Seq(Item)
    BY PlainMeans
  <2> HIDE DEF src
  <2>4. Means(x, src)
    <3>1. Cells(x.src) = << >> /\ Len(x.src) = 0
      BY <2>2, EmptyCells
    <3>a. src[1].val = x.v
      BY <2>2, <2>3
    <3>b. Tail(src) = Cells(x.src)
      BY <2>3, <3>1
    <3>c. Len(src) = Len(x.src) + 1
      BY <2>3, <3>1
    <3>2. src[1].val = x.v /\ Tail(src) = Cells(x.src) /\ Len(src) = Len(x.src) + 1
      BY <3>a, <3>b, <3>c
    <3> QED BY <2>3, <3>2 DEF Means
  <2> QED BY <1>1, <2>2, <2>4, EmptyCells
<1>3. CASE \E b \in Name : GetVar(b) /\ x = Whole(b)
  <2>1. PICK b \in Name : GetVar(b) /\ x = Whole(b)
    BY <1>3
  <2> DEFINE t == var[b]
             s == t.node
             p == Tail(Path(t, head))
             n == Len(s)
             c == Cells(s)
  <2>2. /\ Heap(t) /\ Flat(t) /\ Filled(t) /\ s # << >> /\ s \in Seq(Cell) /\ n \in Nat /\ n > 0
        /\ Lists[b] = c
    <3>1. Heap(t) /\ Flat(t) /\ Filled(t) /\ Lists[b] = Els(t)
      BY <2>1, SeenNow DEF GetVar, Filled
    <3> HIDE DEF t
    <3>2. s # << >> /\ s \in Seq(Cell) /\ Lists[b] = c
      BY <3>1 DEF Filled, Heap, Record, Els
    <3>3. n \in Nat /\ n > 0
      BY <3>2, Nodes
    <3> QED BY <3>1, <3>2, <3>3
  <2>3. x.v = s[head].val /\ x.src = [i \in DOMAIN p |-> s[p[i]]]
    BY <2>1 DEF Whole, Chain
  <2> HIDE DEF t
  <2>4. p \in Seq(1 .. n) /\ Len(p) = n - 1 /\ DOMAIN p = 1 .. n - 1 /\ \A i \in 1 .. n - 1 : p[i] = i + 1
    <3> DEFINE q == Path(t, head)
    <3>1. q \in Seq(1 .. n) /\ q # << >> /\ q = [i \in 1 .. n |-> i]
      BY <2>2, FlatPath, FromHead
    <3> HIDE DEF q, n, s
    <3>2. DOMAIN q = 1 .. n /\ \A i \in 1 .. n : q[i] = i
      BY <3>1
    <3>3. Len(q) = n
      BY <2>2, <3>1, <3>2, LenProperties
    <3>4. Tail(q) \in Seq(1 .. n) /\ Len(Tail(q)) = n - 1 /\ \A i \in 1 .. Len(Tail(q)) : Tail(q)[i] = q[i + 1]
      BY <3>1, <3>3, HeadTailProperties
    <3>5. \A i \in 1 .. n - 1 : Tail(q)[i] = i + 1
      BY <2>2, <3>2, <3>4
    <3>6. DOMAIN Tail(q) = 1 .. n - 1
      BY <3>4, LenProperties
    <3> QED BY <3>4, <3>5, <3>6 DEF q
  <2> HIDE DEF p
  <2> DEFINE y == x.src
  <2>5. y \in Seq(Cell) /\ Len(y) = n - 1 /\ \A i \in 1 .. n - 1 : y[i] = s[i + 1]
    <3>1. y \in Seq(Cell)
      BY <1>1
    <3>2. DOMAIN y = 1 .. n - 1
      BY <2>3, <2>4
    <3>3. Len(y) = n - 1
      <4>1. n - 1 \in Nat /\ DOMAIN y = 1 .. Len(y) /\ Len(y) \in Nat
        BY <2>2, <3>1, LenProperties
      <4> HIDE DEF y
      <4> QED BY <3>2, <4>1
    <3>4. \A i \in 1 .. n - 1 : y[i] = s[i + 1]
      BY <2>3, <2>4
    <3> QED BY <3>1, <3>3, <3>4
  <2> HIDE DEF y
  <2>6. c \in Seq(Item) /\ Len(c) = n /\ \A i \in 1 .. n : c[i] = [key |-> s[i].key, val |-> s[i].val]
    BY <2>2, CellsAre
  <2>7. Cells(y) \in Seq(Item) /\ Len(Cells(y)) = n - 1
        /\ \A i \in 1 .. n - 1 : Cells(y)[i] = [key |-> y[i].key, val |-> y[i].val]
    BY <2>5, CellsAre
  <2> HIDE DEF c, s, n
  <2>8. Tail(c) = Cells(y)
    <3>1. c # << >>
      BY <2>2, <2>6, EmptySeq
    <3>2. Tail(c) \in Seq(Item) /\ Len(Tail(c)) = n - 1 /\ \A i \in 1 .. n - 1 : Tail(c)[i] = c[i + 1]
      BY <2>6, <3>1, HeadTailProperties
    <3>3. ASSUME NEW i \in 1 .. n - 1 PROVE Tail(c)[i] = Cells(y)[i]
      <4>1. i + 1 \in 1 .. n
        BY <2>2
      <4>2. Tail(c)[i] = [key |-> s[i + 1].key, val |-> s[i + 1].val]
        BY <2>6, <3>2, <4>1
      <4> QED BY <2>5, <2>7, <4>2
    <3>4. Len(Tail(c)) = Len(Cells(y)) /\ \A i \in 1 .. Len(Tail(c)) : Tail(c)[i] = Cells(y)[i]
      BY <2>7, <3>2, <3>3
    <3> QED BY <2>7, <3>2, <3>4, SameSeq
  <2>9. c[1].val = x.v
    <3>1. 1 \in 1 .. n /\ head = 1
      BY <2>2 DEF head
    <3> QED BY <2>3, <2>6, <3>1
  <2>10. c \in Language!Source
    <3>1. Lists[b] # << >>
      BY <2>2, <2>6, EmptySeq
    <3>2. Language!IsSet(b)
      BY <3>1 DEF Language!IsSet, Lists
    <3>3. Lists[b] \in Language!Source
      BY <3>2 DEF Language!Source, Lists
    <3> QED BY <2>2, <3>3
  <2>11. Distinct(y)
    <3>1. ASSUME NEW i \in 1 .. n - 1, NEW j \in 1 .. n - 1, y[i].key = y[j].key PROVE i = j
      <4>1. i + 1 \in 1 .. n /\ j + 1 \in 1 .. n
        BY <2>2
      <4>2. s[i + 1].key = s[j + 1].key
        BY <2>5, <3>1
      <4>3. i + 1 = j + 1
        BY <2>2, <4>1, <4>2 DEF Flat, Distinct, s, n
      <4> QED BY <2>2, <4>3
    <3> QED BY <2>5, <3>1 DEF Distinct
  <2>12. Means(x, c)
    <3>1. Len(c) = Len(y) + 1
      BY <2>2, <2>5, <2>6
    <3> QED BY <2>6, <2>8, <2>9, <2>10, <3>1 DEF Means, y
  <2> QED BY <1>1, <2>11, <2>12 DEF y
<1>4. (\E v \in Value : x = Literal(v)) \/ (\E b \in Name : GetVar(b) /\ x = Whole(b))
  BY DEF Source
<1> QED BY <1>2, <1>3, <1>4

-----------------------------------------------------------------------------
(* A call that stores, seen by the page: this list is l now, its cursor is  *)
(* where it was, and the others are as they were.                           *)
Made(a, l) ==
    /\ ListInv' /\ out' = << >> /\ Language!Others(a)
    /\ Lists'[a] = l /\ Cursors'[a] = Cursors[a]

Wrote(a) == ListInv' /\ out' = << >> /\ Language!Others(a) /\ Language!Write(a)

LEMMA ConsIs ==
    ASSUME NEW S, NEW e \in S, NEW s \in Seq(S), NEW z, IsCons(z, S, e, s) PROVE z = <<e>> \o s
<1> DEFINE y == <<e>> \o s
<1>1. IsCons(y, S, e, s)
  BY OneBefore
<1> HIDE DEF y
<1>2. z \in Seq(S) /\ y \in Seq(S) /\ Len(z) = Len(y) /\ Len(s) \in Nat /\ Len(z) = Len(s) + 1
  BY <1>1, LenProperties DEF IsCons
<1>3. ASSUME NEW i \in 1 .. Len(z) PROVE z[i] = y[i]
  <2>1. CASE i = 1
    BY <1>1, <2>1 DEF IsCons
  <2>2. CASE i # 1
    <3>1. i - 1 \in 1 .. Len(s) /\ i - 1 + 1 = i
      BY <1>2, <2>2
    <3>2. z[i - 1 + 1] = s[i - 1] /\ y[i - 1 + 1] = s[i - 1]
      BY <1>1, <3>1 DEF IsCons
    <3> QED BY <3>1, <3>2
  <2> QED BY <2>1, <2>2
<1> QED BY <1>2, <1>3, SameSeq DEF y

LEMMA CreatedMade ==
    ASSUME ListInv, NEW a \in Name, ~Filled(var[a]), NEW k \in Nat,
           NEW x, x.v \in Nat, x.src \in Seq(Cell), Distinct(x.src), \A j \in 1 .. Len(x.src) : x.src[j].key # k,
           Stores(a, Created(k, x))
    PROVE  Made(a, <<[key |-> k, val |-> x.v]>> \o Cells(x.src)) /\ Lists[a] = << >>
<1> DEFINE c == Created(k, x)
           e == [key |-> k, val |-> x.v]
<1>1. /\ Flat(c) /\ ~c.deleted /\ c.lacc = Before /\ IsCons(Cells(c.node), Item, e, Cells(x.src))
  BY FlatCreated
<1>2. Heap(c)
  BY NewHeap DEF null
<1>3. Becomes(a, c)
  BY <1>1, <1>2, Stored
<1>4. Lists[a] = << >> /\ Cursors[a] = 0
  BY SeenNow DEF Els, Cur
<1>5. e \in Item /\ Cells(x.src) \in Seq(Item) /\ Len(Cells(x.src)) \in Nat
  BY CellsAre, LenProperties DEF Item
<1> HIDE DEF c, e
<1>6. Cells(c.node) = <<e>> \o Cells(x.src)
  BY <1>1, <1>5, ConsIs
<1>7. Filled(c)
  <2>1. Len(Cells(c.node)) = Len(Cells(x.src)) + 1
    BY <1>1 DEF IsCons
  <2>2. c.node \in Seq(Cell)
    BY <1>2 DEF Heap, Record
  <2>3. Len(c.node) > 0
    BY <1>5, <2>1, <2>2, CellsAre
  <2> QED BY <1>1, <2>2, <2>3, Nodes DEF Filled
<1>8. Els(c) = <<e>> \o Cells(x.src) /\ Cur(c) = 0
  BY <1>1, <1>6, <1>7 DEF Els, Cur
<1>9. Made(a, <<e>> \o Cells(x.src))
  BY <1>3, <1>4, <1>8 DEF Becomes, Made
<1> QED BY <1>4, <1>9 DEF e

LEMMA LinkedMade ==
    ASSUME ListInv, NEW a \in Name, Filled(var[a]), NEW k \in Nat,
           \A i \in 1 .. Len(var[a].node) : var[a].node[i].key # k,
           NEW x, x.v \in Nat, x.src = << >>, Stores(a, Linked(var[a], k, x))
    PROVE  Made(a, Append(Lists[a], [key |-> k, val |-> x.v]))
<1> DEFINE t == var[a]
           c == Linked(t, k, x)
<1>1. Lists[a] = Els(t) /\ Cursors[a] = Cur(t) /\ Heap(t) /\ Flat(t) /\ Filled(t) /\ t.node # << >> /\ ~t.deleted
  BY SeenNow DEF Filled
<1>2. \A i \in 1 .. Len(t.node) : t.node[i].key # k
  OBVIOUS
<1>3. x.src \in Seq(Cell)
  BY EmptyCells
<1> HIDE DEF t
<1>4. /\ Flat(c) /\ ~c.deleted /\ c.lacc = t.lacc /\ c.node # << >>
      /\ Cells(c.node) = Append(Cells(t.node), [key |-> k, val |-> x.v])
  BY <1>1, <1>2, FlatLinked
<1>5. Heap(c)
  BY <1>1, <1>3, LinkHeap
<1>6. Stores(a, c)
  BY DEF t
<1> HIDE DEF c
<1>7. Becomes(a, c)
  BY <1>4, <1>5, <1>6, Stored
<1>8. Els(c) = Append(Els(t), [key |-> k, val |-> x.v]) /\ Cur(c) = Cur(t)
  BY <1>1, <1>4 DEF Els, Cur, Filled
<1> QED BY <1>1, <1>7, <1>8 DEF Becomes, Made

LEMMA RevaluedMade ==
    ASSUME ListInv, NEW a \in Name, NEW i \in 1 .. Len(var[a].node), NEW v \in Nat, NEW d \in BOOLEAN, d => var[a].deleted,
           Stores(a, [var[a] EXCEPT !.node[i].val = v, !.deleted = d]), ~d
    PROVE  /\ Filled(var[a]) => i \in DOMAIN Lists[a] /\ Made(a, [Lists[a] EXCEPT ![i].val = v])
           /\ ~Filled(var[a]) => /\ Lists[a] = << >>
                                 /\ Made(a, <<[key |-> var[a].node[head].key, val |-> v]>>)
<1> DEFINE t == var[a]
           u == [t EXCEPT !.node[i].val = v, !.deleted = d]
           n == Len(t.node)
<1>1. Lists[a] = Els(t) /\ Cursors[a] = Cur(t) /\ Heap(t) /\ Flat(t) /\ i \in 1 .. n /\ (d => t.deleted) /\ Stores(a, u)
  BY SeenNow
<1> HIDE DEF t
<1>2. t.node \in Seq(Cell) /\ t.node # << >> /\ n \in Nat /\ n > 0
  BY <1>1, Nodes DEF Heap, Record
<1>3. Revalued(u, t, i, v, d)
  BY <1>1, ValHeap
<1>4. Heap(u) /\ u.lacc = t.lacc /\ ~u.deleted /\ Len(u.node) = n
  BY <1>3 DEF Revalued
<1> HIDE DEF u
<1>5. Flat(u) /\ Cells(u.node) = [Cells(t.node) EXCEPT ![i].val = v]
  <2>1. Flat(u) /\ Cells(u.node) = Valued(Cells(t.node), i, v)
    BY <1>1, <1>3, FlatRevalued
  <2> QED BY <2>1 DEF Valued
<1>6. Becomes(a, u)
  BY <1>1, <1>4, <1>5, Stored
<1>7. Filled(u)
  BY <1>2, <1>4, Nodes DEF Filled, Heap, Record
<1>8. Els(u) = [Cells(t.node) EXCEPT ![i].val = v] /\ Cur(u) = IF t.lacc = Before THEN 0 ELSE IF t.lacc = null THEN -1 ELSE t.lacc
  BY <1>4, <1>5, <1>7 DEF Els, Cur
<1>9. DOMAIN Cells(t.node) = 1 .. n /\ Cells(t.node) \in Seq(Item) /\ Len(Cells(t.node)) = n
      /\ \A j \in 1 .. n : Cells(t.node)[j] = [key |-> t.node[j].key, val |-> t.node[j].val]
  BY <1>2, CellsAre
<1>10. CASE Filled(t)
  <2>1. Els(t) = Cells(t.node) /\ Cur(u) = Cur(t)
    BY <1>8, <1>10 DEF Els, Cur
  <2>2. i \in DOMAIN Lists[a]
    BY <1>1, <1>9, <2>1
  <2>3. Made(a, [Lists[a] EXCEPT ![i].val = v])
    BY <1>1, <1>6, <1>8, <2>1 DEF Becomes, Made
  <2> QED BY <1>10, <2>2, <2>3 DEF t
<1>11. CASE ~Filled(t)
  <2>1. t.deleted /\ n = 1 /\ t.lacc = Before /\ i = 1
    BY <1>1, <1>2, <1>11 DEF Filled, Flat, Heap
  <2>2. Els(t) = << >> /\ Cur(t) = 0 /\ Cur(u) = 0
    BY <1>8, <1>11, <2>1 DEF Els, Cur
  <2> DEFINE c == Cells(t.node)
             z == [c EXCEPT ![1].val = v]
             e == [key |-> t.node[head].key, val |-> v]
  <2>3. DOMAIN c = {1} /\ c[1] = [key |-> t.node[1].key, val |-> t.node[1].val]
    <3>1. 1 .. 1 = {1}
      OBVIOUS
    <3> QED BY <1>9, <2>1, <3>1
  <2>4. Els(u) = z
    BY <1>8, <2>1
  <2>5. [c[1] EXCEPT !.val = v] = e
    <3> DEFINE g == c[1]
               p == t.node[1].key
               q == t.node[1].val
    <3>1. g = [key |-> p, val |-> q] /\ e = [key |-> p, val |-> v]
      BY <2>3 DEF head
    <3> HIDE DEF g, p, q, e
    <3>2. [g EXCEPT !.val = v] = e
      BY <3>1
    <3> QED BY <3>2 DEF g
  <2>6. z = [c EXCEPT ![1] = e]
    BY <2>5
  <2>7. c = [j \in {1} |-> c[j]]
    BY <2>3 DEF Cells
  <2> HIDE DEF e, c, z
  <2>8. z = [j \in {1} |-> e]
    BY <2>3, <2>6, <2>7
  <2>9. z = <<e>>
    <3>1. DOMAIN <<e>> = {1} /\ <<e>>[1] = e
      <4>1. 1 .. 1 = {1}
        OBVIOUS
      <4> QED BY <4>1
    <3>2. <<e>> = [j \in {1} |-> e]
      BY <3>1
    <3> QED BY <2>8, <3>2
  <2>10. Made(a, <<e>>) /\ Lists[a] = << >>
    BY <1>1, <1>6, <2>2, <2>4, <2>9 DEF Becomes, Made
  <2> QED BY <1>11, <2>10 DEF t, e
<1> QED BY <1>10, <1>11

LEMMA OnePlus == ASSUME NEW S, NEW e \in S PROVE <<e>> = <<e>> \o << >>
<1>1. <<e>> \in Seq(S) /\ << >> \in Seq(S) /\ Len(<< >>) = 0 /\ Len(<<e>>) = 1 /\ <<e>>[1] = e
  BY EmptySeq
<1>2. IsCons(<<e>>, S, e, << >>)
  BY <1>1 DEF IsCons
<1> QED BY <1>1, <1>2, ConsIs

(* A list and its first element again.                                     *)
LEMMA HeadTail == ASSUME NEW S, NEW c \in Seq(S), c # << >>, NEW e \in S
                  PROVE  [c EXCEPT ![1] = e] = <<e>> \o Tail(c)
<1> DEFINE n == Len(c)
           z == [c EXCEPT ![1] = e]
<1>1. n \in Nat /\ n > 0 /\ 1 \in 1 .. n
  BY LenProperties, EmptySeq
<1>2. Tail(c) \in Seq(S) /\ Len(Tail(c)) = n - 1 /\ \A i \in 1 .. n - 1 : Tail(c)[i] = c[i + 1]
  BY HeadTailProperties
<1>3. z \in Seq(S) /\ Len(z) = n /\ \A j \in 1 .. n : z[j] = IF j = 1 THEN e ELSE c[j]
  BY <1>1, ExceptSeq
<1> HIDE DEF z, n
<1>4. ASSUME NEW i \in 1 .. Len(Tail(c)) PROVE z[i + 1] = Tail(c)[i]
  <2>1. i \in 1 .. n - 1 /\ i + 1 \in 1 .. n /\ i + 1 # 1
    BY <1>1, <1>2
  <2> QED BY <1>2, <1>3, <2>1
<1>5. IsCons(z, S, e, Tail(c))
  <2>1. z[1] = e /\ Len(z) = Len(Tail(c)) + 1
    BY <1>1, <1>2, <1>3
  <2> QED BY <1>3, <1>4, <2>1 DEF IsCons
<1> QED BY <1>2, <1>5, ConsIs DEF z

LEMMA FlatFind ==
    ASSUME NEW t, Heap(t), Flat(t), t.node # << >>, NEW k
    PROVE  /\ FindIndex(t, k) = null => \A i \in 1 .. Len(t.node) : t.node[i].key # k
           /\ FindIndex(t, k) # null => FindIndex(t, k) \in 1 .. Len(t.node) /\ t.node[FindIndex(t, k)].key = k
           /\ Len(Path(t, head)) = Len(t.node)
<1> DEFINE p == Path(t, head)
           n == Len(t.node)
           at == {i \in DOMAIN p : t.node[p[i]].key = k}
<1>1. p = [i \in 1 .. n |-> i] /\ p \in Seq(1 .. n) /\ n \in Nat /\ DOMAIN t.node = 1 .. n
  BY FlatPath, FromHead, Nodes DEF Heap, Record
<1>2. FindIndex(t, k) = IF at = {} THEN null ELSE p[Min(at)]
  BY DEF FindIndex
<1>3. /\ FindIndex(t, k) \in {null} \cup 1 .. n
      /\ FindIndex(t, k) # null => t.node[FindIndex(t, k)].key = k
  BY FindTypes
<1> HIDE DEF p, n
<1>4. DOMAIN p = 1 .. n /\ \A i \in 1 .. n : p[i] = i
  BY <1>1
<1>5. Len(p) = n
  BY <1>1, <1>4, LenProperties
<1>6. ASSUME at # {} PROVE FindIndex(t, k) # null
  <2>1. at \subseteq Nat /\ at \subseteq 1 .. n
    BY <1>1, <1>4
  <2>2. Min(at) \in at
    <3> HIDE DEF at
    <3> QED BY <1>6, <2>1, NatMin
  <2> DEFINE m == Min(at)
  <2>3. m \in 1 .. n
    BY <2>1, <2>2
  <2> HIDE DEF m
  <2>4. p[m] = m /\ m # null
    BY <1>4, <2>3 DEF null
  <2> QED BY <1>2, <1>6, <2>4 DEF m
<1>7. ASSUME FindIndex(t, k) = null, NEW i \in 1 .. n PROVE t.node[i].key # k
  <2>1. i \notin at
    BY <1>6, <1>7
  <2> QED BY <1>4, <2>1
<1> QED BY <1>3, <1>5, <1>7 DEF p, n

(* What is copied has no index that is there already.                       *)
LEMMA NotTaken ==
    ASSUME Careful, NEW k, NEW src \in Seq(Cell), Untaken(k, src) PROVE \A j \in 1 .. Len(src) : src[j].key # k
<1>1. "taken number" \in Avoided
  BY DEF Careful, Pitfall
<1>2. DOMAIN src = 1 .. Len(src)
  BY LenProperties
<1> QED BY <1>1, <1>2 DEF Untaken

LEMMA WriteSaid ==
    ASSUME NEW a \in Name, NEW l, Made(a, l),
           \/ \E src \in Language!Source : Language!Assign(a, src) \/ Language!Append1(a, src)
                                           \/ \E k \in Index : Language!AssignAt(a, k, src)
           \/ \E op \in Operator : Language!Change(a, {}, op) \/ \E k \in Index : Language!Change(a, {k}, op)
    PROVE  Wrote(a)
<1>1. Language!Write(a)
  <2>1. Language!Operator = Operator
    BY DEF Language!Operator, Operator
  <2> QED BY <2>1 DEF Language!Write
<1> QED BY <1>1 DEF Made, Wrote

LEMMA AssignSaid ==
    ASSUME Careful, ListInv, NEW a \in Name, NEW x \in Source, Assign(a, x) PROVE Wrote(a)
<1> DEFINE v == x.v
           s == x.src
<1>1. v \in Value /\ v \in Nat /\ s \in Seq(Cell) /\ Distinct(s) /\ \E src : Means(x, src)
  BY SourceMeans
<1>2. PICK src : Means(x, src)
  BY <1>1
<1>3. src \in Language!Source /\ src[1].val = v /\ Tail(src) = Cells(s) /\ Len(src) = Len(s) + 1
  BY <1>2 DEF Means
<1>4. SUFFICES ASSUME TRUE PROVE Language!Assign(a, src) /\ \E l : Made(a, l)
  BY <1>3, WriteSaid
<1>5. CASE var[a].node = << >>
  <2>1. Untaken(0, s) /\ Stores(a, Created(0, x))
    BY <1>5 DEF Assign
  <2>2. ~Filled(var[a]) /\ \A j \in 1 .. Len(x.src) : x.src[j].key # 0
    BY <1>1, <1>5, <2>1, NotTaken DEF Filled
  <2>3. Made(a, <<[key |-> 0, val |-> v]>> \o Cells(s)) /\ Lists[a] = << >>
    BY <1>1, <2>1, <2>2, CreatedMade
  <2>4. Lists'[a] = <<[key |-> 0, val |-> src[1].val]>> \o Tail(src) /\ Cursors'[a] = Cursors[a]
    BY <1>3, <2>3 DEF Made
  <2> QED BY <2>3, <2>4, SaidAssign
<1>6. CASE var[a].node # << >>
  <2> DEFINE t == var[a]
             u == [t EXCEPT !.node[head].val = v, !.deleted = FALSE]
             c == copyarray(u, head, s)
             n == Len(t.node)
  <2>1. Stores(a, c) /\ AfterUnset(a, 0) /\ Untaken(t.node[head].key, s)
        /\ ("copy over array" \in Avoided /\ s # << >> => Len(Chain(a)) = 1)
    BY <1>6 DEF Assign, SetHead
  <2>2. /\ Heap(t) /\ Flat(t) /\ t.node # << >> /\ Lists[a] = Els(t) /\ Cursors[a] = Cur(t)
        /\ Chain(a) = Path(t, head) /\ (t.deleted => t.node[head].key = 0)
    <3>1. "write after unset" \in Avoided
      BY DEF Careful, Pitfall
    <3> QED BY <1>6, <2>1, <3>1, SeenNow DEF Chain, AfterUnset
  <2>a. \A j \in 1 .. Len(s) : s[j].key # t.node[head].key
    <3> DEFINE k == t.node[head].key
    <3>1. Untaken(k, s)
      BY <2>1
    <3> HIDE DEF k, s
    <3>2. \A j \in 1 .. Len(s) : s[j].key # k
      BY <1>1, <3>1, NotTaken
    <3> QED BY <3>2 DEF k
  <2>3. CASE n = 1
    <3> HIDE DEF v, s, t
    <3>1. head \in 1 .. n /\ (FALSE => t.deleted) /\ FALSE \in BOOLEAN /\ head = 1
      BY <2>3 DEF head
    <3>2. Revalued(u, t, head, v, FALSE)
      BY <1>1, <2>2, <3>1, ValHeap
    <3> HIDE DEF u
    <3>3. Flat(u)
      BY <1>1, <2>2, <3>1, <3>2, FlatRevalued
    <3>4. Heap(u) /\ Len(u.node) = 1 /\ ~u.deleted /\ u.lacc = t.lacc /\ u.node[1] = [t.node[1] EXCEPT !.val = v]
      BY <2>3, <3>1, <3>2 DEF Revalued
    <3>5. u.node[1].key = t.node[head].key /\ u.node[1].val = v
      <4> DEFINE g == t.node[1]
      <4>1. g \in Cell
        BY <2>2, <2>3, Nodes DEF Heap, Record
      <4>2. u.node[1] = [g EXCEPT !.val = v]
        BY <3>4
      <4> HIDE DEF g
      <4>3. u.node[1].key = g.key /\ u.node[1].val = v
        BY <4>1, <4>2 DEF Cell
      <4> QED BY <3>1, <4>3 DEF g
    <3>6. \A j \in 1 .. Len(s) : s[j].key # u.node[1].key
      BY <2>a, <3>5
    <3> DEFINE e == [key |-> u.node[1].key, val |-> u.node[1].val]
    <3>7. Flat(c) /\ ~c.deleted /\ c.lacc = u.lacc /\ IsCons(Cells(c.node), Item, e, Cells(s))
      BY <1>1, <3>3, <3>4, <3>6, FlatCopied
    <3>8. Heap(c) /\ c.node # << >>
      <4>1. head \in 1 .. Len(u.node)
        BY <3>1, <3>4
      <4> QED BY <1>1, <3>4, <4>1, CopyHeap
    <3>9. e = [key |-> t.node[head].key, val |-> v]
      BY <3>5
    <3>10. e \in Item /\ Cells(s) \in Seq(Item)
      <4>1. t.node[head].key \in Nat
        BY <2>2, <3>1, Nodes DEF Heap, Record, Cell
      <4> QED BY <1>1, <3>9, <4>1, CellsAre DEF Item
    <3> HIDE DEF e, c
    <3>11. Cells(c.node) = <<e>> \o Cells(s)
      BY <3>7, <3>10, ConsIs
    <3>12. Becomes(a, c)
      BY <2>1, <3>7, <3>8, Stored
    <3>13. Els(c) = <<e>> \o Tail(src) /\ Cur(c) = IF t.lacc = Before THEN 0 ELSE IF t.lacc = null THEN -1 ELSE t.lacc
      BY <1>3, <3>4, <3>7, <3>8, <3>11 DEF Els, Cur, Filled
    <3>14. CASE t.deleted
      <4>1. Lists[a] = << >> /\ Cursors[a] = 0 /\ Cur(c) = 0
        BY <2>2, <3>13, <3>14 DEF Els, Cur, Filled, Heap
      <4>2. e = [key |-> 0, val |-> src[1].val]
        BY <1>3, <2>2, <3>9, <3>14
      <4>3. Lists'[a] = <<[key |-> 0, val |-> src[1].val]>> \o Tail(src) /\ Cursors'[a] = Cursors[a] /\ Made(a, Els(c))
        BY <3>12, <3>13, <4>1, <4>2 DEF Becomes, Made
      <4> QED BY <4>1, <4>3, SaidAssign
    <3>15. CASE ~t.deleted
      <4> DEFINE l == Cells(t.node)
      <4>0. t.node \in Seq(Cell) /\ n = 1 /\ 1 \in 1 .. n
        BY <2>2, <2>3 DEF Heap, Record
      <4>1. Lists[a] = l /\ Cursors[a] = Cur(c)
        BY <2>2, <3>13, <3>15 DEF Els, Cur, Filled
      <4>2. l \in Seq(Item) /\ Len(l) = 1 /\ l[1] = [key |-> t.node[1].key, val |-> t.node[1].val]
        BY <4>0, CellsAre
      <4> HIDE DEF l
      <4>3. l # << >> /\ Tail(l) = << >>
        <5>1. l # << >>
          BY <4>2, EmptySeq
        <5>2. Tail(l) \in Seq(Item) /\ Len(Tail(l)) = 0
          BY <4>2, <5>1, HeadTailProperties
        <5> QED BY <5>1, <5>2, EmptySeq
      <4>4. [l[1] EXCEPT !.val = v] = e
        <5> DEFINE g == l[1]
                   p == t.node[1].key
                   q == t.node[1].val
        <5>1. g = [key |-> p, val |-> q] /\ e = [key |-> p, val |-> v]
          BY <3>1, <3>9, <4>2
        <5> HIDE DEF g, p, q
        <5>2. [g EXCEPT !.val = v] = e
          BY <5>1
        <5> QED BY <5>2 DEF g
      <4>5. Tail(IF Len(src) > 1 THEN src ELSE l) = Tail(src)
        <5>1. CASE Len(s) = 0
          <6>1. Tail(src) = << >>
            BY <1>1, <1>3, <5>1, EmptyCells, EmptySeq
          <6>2. ~(Len(src) > 1)
            BY <1>3, <5>1
          <6> QED BY <4>3, <6>1, <6>2
        <5>2. CASE Len(s) # 0
          <6>1. Len(s) \in Nat
            BY <1>1, LenProperties
          <6>2. Len(src) > 1
            BY <1>3, <5>2, <6>1
          <6> QED BY <6>2
        <5> QED BY <5>1, <5>2
      <4>6. Lists'[a] = <<[l[1] EXCEPT !.val = src[1].val]>> \o Tail(IF Len(src) > 1 THEN src ELSE l)
        BY <1>3, <3>12, <3>13, <4>4, <4>5 DEF Becomes
      <4>7. Cursors'[a] = Cursors[a] /\ Made(a, Els(c))
        BY <3>12, <4>1 DEF Becomes, Made
      <4>8. Lists'[a] = IF Lists[a] = << >> THEN <<[key |-> 0, val |-> src[1].val]>> \o Tail(src)
                        ELSE <<[Lists[a][1] EXCEPT !.val = src[1].val]>> \o Tail(IF Len(src) > 1 THEN src ELSE Lists[a])
        BY <4>1, <4>3, <4>6
      <4> QED BY <4>7, <4>8, SaidAssign
    <3> QED BY <3>14, <3>15
  <2>4. CASE n # 1
    <3>1. ~t.deleted /\ Filled(t)
      BY <2>2, <2>4 DEF Flat, Filled
    <3>2. s = << >>
      <4>1. "copy over array" \in Avoided
        BY DEF Careful, Pitfall
      <4>2. Len(Chain(a)) = n
        <5> HIDE DEF t
        <5> QED BY <2>2, FlatFind
      <4> QED BY <2>1, <2>4, <4>1, <4>2
    <3>3. c = u
      BY <3>2 DEF copyarray
    <3>4. head \in 1 .. Len(var[a].node) /\ FALSE \in BOOLEAN
      BY <1>6, ListParts DEF ListInv
    <3>5. Stores(a, [var[a] EXCEPT !.node[head].val = v, !.deleted = FALSE]) /\ Filled(var[a])
      BY <2>1, <3>1, <3>3
    <3> HIDE DEF v, s, t, u, c
    <3>6. head \in DOMAIN Lists[a] /\ Made(a, [Lists[a] EXCEPT ![head].val = v])
      BY <1>1, <3>4, <3>5, RevaluedMade
    <3> DEFINE l == Lists[a]
               e == [l[1] EXCEPT !.val = v]
    <3>7. l \in Seq(Item) /\ l # << >> /\ l[1] \in Item
      <4>1. l = Cells(t.node) /\ t.node \in Seq(Cell)
        BY <2>2, <3>1 DEF Els, Heap, Record
      <4>2. l \in Seq(Item)
        BY <4>1, CellsAre
      <4> HIDE DEF l
      <4>3. DOMAIN l = 1 .. Len(l) /\ head \in DOMAIN l
        BY <3>6, <4>2, LenProperties DEF l
      <4>4. l # << >>
        <5>1. Len(l) # 0
          BY <4>3
        <5> QED BY <4>2, <5>1, EmptySeq
      <4>5. l[1] \in Item
        BY <4>2, <4>3, ElementOfSeq DEF head
      <4> QED BY <4>2, <4>4, <4>5
    <3>8. e \in Item /\ [l EXCEPT ![1].val = v] = [l EXCEPT ![1] = e]
      <4> DEFINE g == l[1]
      <4>1. g \in Item /\ e = [g EXCEPT !.val = v]
        BY <3>7
      <4> HIDE DEF g
      <4>2. e \in Item
        BY <1>1, <4>1 DEF Item
      <4> QED BY <4>2
    <3> HIDE DEF e, l
    <3>9. [l EXCEPT ![1] = e] = <<e>> \o Tail(l)
      BY <3>7, <3>8, HeadTail
    <3>10. Len(src) = 1
      BY <1>3, <3>2, EmptyCells
    <3>11. Lists'[a] = <<e>> \o Tail(l) /\ Cursors'[a] = Cursors[a]
      BY <3>6, <3>8, <3>9 DEF Made, head, l
    <3>12. Lists'[a] = IF Lists[a] = << >> THEN <<[key |-> 0, val |-> src[1].val]>> \o Tail(src)
                       ELSE <<[Lists[a][1] EXCEPT !.val = src[1].val]>> \o Tail(IF Len(src) > 1 THEN src ELSE Lists[a])
      BY <1>3, <3>7, <3>10, <3>11 DEF e, l
    <3> QED BY <3>6, <3>11, <3>12, SaidAssign
  <2> QED BY <2>3, <2>4
<1> QED BY <1>5, <1>6

LEMMA Append1Said ==
    ASSUME Careful, ListInv, NEW a \in Name, NEW x \in Source, Append1(a, x) PROVE Wrote(a)
<1> DEFINE v == x.v
           s == x.src
<1>1. v \in Value /\ v \in Nat /\ s \in Seq(Cell) /\ Distinct(s) /\ \E src : Means(x, src)
  BY SourceMeans
<1>2. PICK src : Means(x, src)
  BY <1>1
<1>3. src \in Language!Source /\ src[1].val = v /\ Tail(src) = Cells(s) /\ Len(src) = Len(s) + 1
  BY <1>2 DEF Means
<1>4. SUFFICES ASSUME TRUE PROVE Language!Append1(a, src) /\ \E l : Made(a, l)
  BY <1>3, WriteSaid
<1>5. CASE var[a].node = << >> \/ var[a].deleted
  <2>1. Untaken(0, s) /\ Stores(a, [Created(0, x) EXCEPT !.lacc = var[a].lacc])
    BY <1>5 DEF Append1
  <2>2. ~Filled(var[a]) /\ \A j \in 1 .. Len(x.src) : x.src[j].key # 0
    BY <1>1, <1>5, <2>1, NotTaken DEF Filled
  <2>3. var[a].lacc = Before
    <3>1. CASE var[a].deleted
      BY <3>1, SeenNow DEF Heap
    <3>2. CASE var[a].node = << >>
      <4>1. var[a] = None
        BY <3>2, SeenNow DEF Flat
      <4> QED BY <4>1 DEF None
    <3> QED BY <1>5, <3>1, <3>2
  <2> DEFINE c == Created(0, x)
  <2>4. c \in Record /\ c.lacc = Before
    <3>1. Heap(c)
      BY <1>1, NewHeap DEF null
    <3>2. c.lacc = Before
      BY <1>1, <2>2, FlatCreated
    <3> QED BY <3>1, <3>2 DEF Heap
  <2>5. [c EXCEPT !.lacc = var[a].lacc] = c
    <3> HIDE DEF c
    <3> QED BY <2>3, <2>4 DEF Record
  <2>6. Stores(a, Created(0, x))
    BY <2>1, <2>5
  <2> HIDE DEF c
  <2>7. Made(a, <<[key |-> 0, val |-> v]>> \o Cells(s)) /\ Lists[a] = << >>
    BY <1>1, <2>2, <2>6, CreatedMade
  <2>8. Lists'[a] = <<[key |-> 0, val |-> src[1].val]>> \o Tail(src) /\ Cursors'[a] = Cursors[a]
    BY <1>3, <2>7 DEF Made
  <2> QED BY <2>7, <2>8, SaidAppend1
<1>6. CASE ~(var[a].node = << >> \/ var[a].deleted)
  <2> DEFINE t == var[a]
             k == Len(t.node)
  <2>1. Filled(t) /\ Heap(t) /\ Flat(t) /\ Lists[a] = Els(t) /\ t.node # << >>
    BY <1>6, SeenNow DEF Filled
  <2>2. /\ Behind(a, x) /\ Stores(a, Linked(t, Len(Chain(a)), x))
        /\ "taken number" \in Avoided => FindIndex(t, Len(Chain(a))) = null
    BY <1>6 DEF Append1
  <2>3. Chain(a) = Path(t, head)
    BY DEF Chain
  <2>4. "taken number" \in Avoided /\ "array in array" \in Avoided
    BY DEF Careful, Pitfall
  <2>5. s = << >>
    BY <2>2, <2>4 DEF Behind
  <2> HIDE DEF t
  <2>6. Len(Path(t, head)) = k /\ k \in Nat
    BY <2>1, FlatFind, Nodes DEF Heap, Record
  <2>7. FindIndex(t, k) = null /\ Stores(a, Linked(t, k, x))
    BY <2>2, <2>3, <2>4, <2>6
  <2>8. \A i \in 1 .. Len(t.node) : t.node[i].key # k
    BY <2>1, <2>7, FlatFind
  <2>9. Len(Lists[a]) = k /\ Lists[a] # << >>
    <3>1. Lists[a] = Cells(t.node) /\ t.node \in Seq(Cell)
      BY <2>1 DEF Els, Heap, Record
    <3>2. Cells(t.node) \in Seq(Item) /\ Len(Cells(t.node)) = k
      BY <3>1, CellsAre
    <3>3. k # 0
      BY <2>1, <3>1, Nodes
    <3> QED BY <3>1, <3>2, <3>3, EmptySeq
  <2> HIDE DEF k
  <2>10. Made(a, Append(Lists[a], [key |-> k, val |-> v]))
    BY <1>1, <2>1, <2>5, <2>6, <2>7, <2>8, LinkedMade DEF t
  <2>11. Len(src) = 1
    BY <1>3, <2>5, EmptyCells
  <2>12. /\ Cursors'[a] = Cursors[a]
         /\ IF Lists[a] = << >> THEN Lists'[a] = <<[key |-> 0, val |-> src[1].val]>> \o Tail(src)
            ELSE Len(src) = 1 /\ Lists'[a] = Append(Lists[a], [key |-> Len(Lists[a]), val |-> src[1].val])
    BY <1>3, <2>9, <2>10, <2>11 DEF Made
  <2> QED BY <2>10, <2>12, SaidAppend1
<1> QED BY <1>5, <1>6

(* The elements with an index.                                             *)
LEMMA AtIs ==
    ASSUME ListInv, NEW a \in Name, Filled(var[a]), NEW k
    PROVE  /\ Lists[a] # << >> /\ DOMAIN Lists[a] = 1 .. Len(var[a].node) /\ Len(Lists[a]) = Len(var[a].node)
           /\ Lists[a] \in Seq(Item)
           /\ \A i \in 1 .. Len(var[a].node) : Lists[a][i] = [key |-> var[a].node[i].key, val |-> var[a].node[i].val]
           /\ FindIndex(var[a], k) = null => \A i \in 1 .. Len(var[a].node) : var[a].node[i].key # k
           /\ FindIndex(var[a], k) = null => {i \in DOMAIN Lists[a] : Lists[a][i].key = k} = {}
           /\ FindIndex(var[a], k) # null => /\ FindIndex(var[a], k) \in 1 .. Len(var[a].node)
                                             /\ FindIndex(var[a], k) \in {i \in DOMAIN Lists[a] : Lists[a][i].key = k}
<1> DEFINE t == var[a]
           n == Len(t.node)
           l == Lists[a]
           f == FindIndex(t, k)
<1>1. Heap(t) /\ Flat(t) /\ Filled(t) /\ l = Els(t) /\ t.node # << >> /\ t.node \in Seq(Cell)
  BY SeenNow DEF Filled, Heap, Record
<1> HIDE DEF t, l
<1>2. l = Cells(t.node)
  BY <1>1 DEF Els
<1>3. /\ DOMAIN l = 1 .. n /\ Len(l) = n /\ l \in Seq(Item)
      /\ \A i \in 1 .. n : l[i] = [key |-> t.node[i].key, val |-> t.node[i].val]
      /\ \A i \in 1 .. n : l[i].key = t.node[i].key
  BY <1>1, <1>2, CellsAre
<1>4. /\ f = null => \A i \in 1 .. n : t.node[i].key # k
      /\ f # null => f \in 1 .. n /\ t.node[f].key = k
  BY <1>1, FlatFind
<1>5. l # << >>
  <2>1. n # 0
    BY <1>1, Nodes
  <2> QED BY <1>3, <2>1, EmptySeq
<1> HIDE DEF n, f
<1>6. f = null => {i \in DOMAIN l : l[i].key = k} = {}
  BY <1>3, <1>4
<1>7. f # null => f \in {i \in DOMAIN l : l[i].key = k}
  BY <1>3, <1>4
<1> QED BY <1>3, <1>4, <1>5, <1>6, <1>7 DEF n, t, l, f

LEMMA AssignAtSaid ==
    ASSUME Careful, ListInv, NEW a \in Name, NEW k \in Index, NEW x \in Source, AssignAt(a, k, x) PROVE Wrote(a)
<1> DEFINE v == x.v
           s == x.src
           t == var[a]
           n == FindIndex(t, k)
           l == Lists[a]
<1>1. v \in Value /\ v \in Nat /\ s \in Seq(Cell) /\ Distinct(s) /\ (\E src : Means(x, src)) /\ k \in Nat
  BY SourceMeans, ArraysAssumption DEF ArraysAssumption
<1>2. PICK src : Means(x, src)
  BY <1>1
<1>3. src \in Language!Source /\ src[1].val = v /\ Tail(src) = Cells(s) /\ Len(src) = Len(s) + 1
  BY <1>2 DEF Means
<1> DEFINE plain == <<[key |-> 0, val |-> v]>>
<1>4. plain \in Language!Source /\ plain[1].val = v /\ Tail(plain) = << >> /\ Len(plain) = 1
  BY <1>1, PlainMeans
<1> HIDE DEF plain
<1>5. SUFFICES \E q \in Language!Source : Language!AssignAt(a, k, q) /\ \E z : Made(a, z)
  BY WriteSaid
<1>6. CASE t.node = << >>
  <2>1. Untaken(k, s) /\ Stores(a, Created(k, x))
    BY <1>6 DEF AssignAt
  <2>2. ~Filled(var[a]) /\ \A j \in 1 .. Len(x.src) : x.src[j].key # k
    BY <1>1, <1>6, <2>1, NotTaken DEF Filled
  <2>3. Made(a, <<[key |-> k, val |-> v]>> \o Cells(s)) /\ Lists[a] = << >>
    BY <1>1, <2>1, <2>2, CreatedMade
  <2>4. Lists'[a] = <<[key |-> k, val |-> src[1].val]>> \o Tail(src) /\ Cursors'[a] = Cursors[a]
    BY <1>3, <2>3 DEF Made
  <2>5. Language!AssignAt(a, k, src)
    BY <2>3, <2>4, SaidAssignAt
  <2> QED BY <1>3, <2>3, <2>5
<1>7. CASE t.node # << >>
  <2>1. AfterUnset(a, k) /\ IF n = null THEN Behind(a, x) /\ Stores(a, Linked(t, k, x))
                            ELSE Stores(a, [t EXCEPT !.node[n].val = v, !.deleted = @ /\ n # head])
    BY <1>7 DEF AssignAt
  <2>2. "write after unset" \in Avoided /\ "array in array" \in Avoided
    BY DEF Careful, Pitfall
  <2>3. t.deleted => t.node[head].key = k
    BY <2>1, <2>2 DEF AfterUnset
  <2>4. Heap(t) /\ Flat(t) /\ t.deleted \in BOOLEAN
    BY SeenNow DEF Heap, Record
  <2>5. t.deleted => n = head
    <3> HIDE DEF t
    <3>1. ASSUME t.deleted PROVE n = head
      <4>1. Len(t.node) = 1 /\ head \in 1 .. Len(t.node) /\ t.node[head].key = k
        BY <2>3, <2>4, <3>1 DEF Flat, head
      <4>2. n # null
        BY <1>7, <2>4, <4>1, FlatFind
      <4>3. n \in 1 .. Len(t.node)
        BY <1>7, <2>4, <4>2, FlatFind
      <4> QED BY <4>1, <4>3 DEF head
    <3> QED BY <3>1
  <2>6. CASE n = null
    <3>1. Filled(t) /\ s = << >> /\ Stores(a, Linked(t, k, x))
      <4>1. ~t.deleted
        BY <2>5, <2>6 DEF null, head
      <4> QED BY <1>7, <2>1, <2>2, <2>6, <4>1 DEF Filled, Behind
    <3>2. /\ l # << >> /\ {i \in DOMAIN l : l[i].key = k} = {}
          /\ \A i \in 1 .. Len(t.node) : t.node[i].key # k
      <4>1. FindIndex(var[a], k) = null /\ Filled(var[a])
        BY <2>6, <3>1
      <4>2. {i \in DOMAIN Lists[a] : Lists[a][i].key = k} = {} /\ Lists[a] # << >>
        BY <4>1, AtIs
      <4>3. \A i \in 1 .. Len(var[a].node) : var[a].node[i].key # k
        BY <4>1, AtIs
      <4> QED BY <4>2, <4>3
    <3>3. Made(a, Append(l, [key |-> k, val |-> v]))
      BY <1>1, <3>1, <3>2, LinkedMade
    <3>4. Lists'[a] = Append(l, [key |-> k, val |-> src[1].val]) /\ Cursors'[a] = Cursors[a] /\ Len(src) = 1
      BY <1>3, <3>1, <3>3, EmptyCells DEF Made
    <3>5. Language!AssignAt(a, k, src)
      BY <3>2, <3>4, SaidAssignAt
    <3> QED BY <1>3, <3>3, <3>5
  <2>7. CASE n # null
    <3> DEFINE d == t.deleted /\ n # head
    <3>1. d = FALSE
      BY <2>4, <2>5
    <3>2. Stores(a, [t EXCEPT !.node[n].val = v, !.deleted = d])
      BY <2>1, <2>7
    <3>3. Stores(a, [var[a] EXCEPT !.node[n].val = v, !.deleted = FALSE])
      BY <3>1, <3>2
    <3>4. n \in 1 .. Len(var[a].node)
      <4> HIDE DEF t
      <4>1. n \in 1 .. Len(t.node)
        BY <1>7, <2>4, <2>7, FlatFind
      <4> QED BY <4>1 DEF t
    <3> HIDE DEF n, d, v
    <3>5. /\ Filled(t) => n \in DOMAIN l /\ Made(a, [l EXCEPT ![n].val = v])
          /\ ~Filled(t) => l = << >> /\ Made(a, <<[key |-> t.node[head].key, val |-> v]>>)
      BY <1>1, <3>3, <3>4, RevaluedMade
    <3>6. CASE Filled(t)
      <4>1. n \in {i \in DOMAIN l : l[i].key = k} /\ l # << >>
        BY <2>7, <3>6, AtIs DEF n
      <4>2. Lists'[a] = [l EXCEPT ![n].val = src[1].val] /\ Cursors'[a] = Cursors[a]
        BY <1>3, <3>5, <3>6 DEF Made
      <4>3. Language!AssignAt(a, k, src)
        BY <4>1, <4>2, SaidAssignAt
      <4> QED BY <1>3, <3>5, <3>6, <4>3
    <3>7. CASE ~Filled(t)
      <4>1. t.node[head].key = k
        BY <1>7, <2>3, <3>7 DEF Filled
      <4> DEFINE e == [key |-> k, val |-> v]
      <4>2. e \in Item
        BY <1>1 DEF Item
      <4>3. l = << >> /\ Made(a, <<e>>)
        BY <3>5, <3>7, <4>1
      <4> HIDE DEF e
      <4>4. Lists'[a] = <<e>> \o Tail(plain) /\ Cursors'[a] = Cursors[a]
        BY <1>4, <4>2, <4>3, OnePlus DEF Made
      <4>5. Lists'[a] = <<[key |-> k, val |-> plain[1].val]>> \o Tail(plain)
        BY <1>4, <4>4 DEF e
      <4>6. Language!AssignAt(a, k, plain)
        BY <4>3, <4>4, <4>5, SaidAssignAt
      <4> QED BY <1>4, <4>3, <4>6
    <3> QED BY <3>6, <3>7
  <2> QED BY <2>6, <2>7
<1> QED BY <1>6, <1>7

LEMMA ChangeSaid ==
    ASSUME Careful, ListInv, NEW a \in Name, NEW op \in Operator, Change(a, op) PROVE Wrote(a)
<1> DEFINE x == ValueFor(op)
           t == var[a]
           l == Lists[a]
<1>1. /\ x.v \in Nat /\ x.src = << >> /\ x.src \in Seq(Cell) /\ Distinct(x.src)
      /\ \A v \in Value : Combine(op, v) \in Nat
      /\ \A j \in 1 .. Len(x.src) : x.src[j].key # 0
  <2>1. x.v \in Nat /\ x.src = << >> /\ x.src \in Seq(Cell) /\ \A v \in Value : Combine(op, v) \in Nat
    BY ValueForTypes
  <2>2. Distinct(x.src) /\ Len(x.src) = 0 /\ 1 .. 0 = {}
    BY <2>1, EmptyCells
  <2> QED BY <2>1, <2>2
<1>2. Language!ValueFor(op) = x.v /\ \A v : Language!Combine(op, v) = Combine(op, v)
  BY SaidOps
<1>3. SUFFICES Language!Change(a, {}, op) /\ \E z : Made(a, z)
  BY WriteSaid
<1>4. CASE t.node = << >>
  <2>1. Stores(a, Created(0, x)) /\ ~Filled(t)
    BY <1>4 DEF Change, Filled
  <2> DEFINE e == [key |-> 0, val |-> x.v]
  <2>2. Made(a, <<e>> \o Cells(x.src)) /\ l = << >>
    <3> HIDE DEF x
    <3>1. Made(a, <<[key |-> 0, val |-> x.v]>> \o Cells(x.src)) /\ l = << >>
      BY <1>1, <2>1, CreatedMade
    <3> QED BY <3>1
  <2>3. e \in Item
    BY <1>1 DEF Item
  <2> HIDE DEF e
  <2>4. <<e>> \o Cells(x.src) = <<e>>
    BY <1>1, <2>3, EmptyCells, OnePlus
  <2>5. Append(l, e) = <<e>>
    BY <2>2
  <2>6. DOMAIN l = {}
    BY <2>2
  <2>7. Lists'[a] = Append(l, e) /\ Cursors'[a] = Cursors[a]
    BY <2>2, <2>4, <2>5 DEF Made
  <2>8. Lists'[a] = Append(Lists[a], [key |-> 0, val |-> Language!ValueFor(op)])
    BY <1>2, <2>7 DEF e
  <2>9. Language!Change(a, {}, op)
    BY <2>6, <2>7, <2>8, SaidChange
  <2> QED BY <2>2, <2>9
<1>5. CASE t.node # << >>
  <2> DEFINE o == t.node[head].val
             w == Combine(op, o)
  <2>1. NotUnset(a) /\ Stores(a, [t EXCEPT !.node[head].val = Combine(op, @)])
    BY <1>5 DEF Change
  <2>2. ~t.deleted /\ Filled(t) /\ Heap(t)
    <3>1. "write after unset" \in Avoided
      BY DEF Careful, Pitfall
    <3> QED BY <1>5, <2>1, <3>1, SeenNow DEF NotUnset, Filled
  <2>3. head \in 1 .. Len(t.node) /\ o \in Value /\ w \in Nat
    BY <1>1, <1>5, ListParts DEF ListInv
  <2>4. [t EXCEPT !.node[head].val = Combine(op, @)] = [t EXCEPT !.node[head].val = w]
    OBVIOUS
  <2> HIDE DEF w
  <2>5. [t EXCEPT !.node[head].val = w] = [t EXCEPT !.node[head].val = w, !.deleted = FALSE]
    <3> HIDE DEF t
    <3>1. t.deleted = FALSE
      BY <2>2 DEF Heap, Record
    <3> QED BY <2>2, <2>3, <3>1, ValAlone
  <2>6. Stores(a, [var[a] EXCEPT !.node[head].val = w, !.deleted = FALSE])
    BY <2>1, <2>4, <2>5
  <2> HIDE DEF o
  <2>7. head \in DOMAIN l /\ Made(a, [l EXCEPT ![head].val = w])
    BY <2>2, <2>3, <2>6, RevaluedMade
  <2>8. l[head] = [key |-> t.node[head].key, val |-> o]
    <3>1. \A i \in 1 .. Len(var[a].node) : Lists[a][i] = [key |-> var[a].node[i].key, val |-> var[a].node[i].val]
      BY <2>2, AtIs
    <3> QED BY <2>3, <3>1 DEF o
  <2>9. l[head].val = o
    BY <2>8
  <2>10. [l EXCEPT ![1].val = Language!Combine(op, @)] = [l EXCEPT ![1].val = w]
    BY <1>2, <2>9 DEF head, w
  <2>11. Lists'[a] = [Lists[a] EXCEPT ![1].val = Language!Combine(op, @)] /\ Cursors'[a] = Cursors[a] /\ 1 \in DOMAIN Lists[a]
    BY <2>7, <2>10 DEF Made, head
  <2>12. Language!Change(a, {}, op)
    BY <2>11, SaidChange
  <2> QED BY <2>7, <2>12
<1> QED BY <1>4, <1>5

LEMMA ChangeAtSaid ==
    ASSUME Careful, ListInv, NEW a \in Name, NEW k \in Index, NEW op \in Operator, ChangeAt(a, k, op) PROVE Wrote(a)
<1> DEFINE x == ValueFor(op)
           t == var[a]
           l == Lists[a]
           n == FindIndex(t, k)
           S == {i \in DOMAIN Lists[a] : Lists[a][i].key = k}
<1>1. /\ x.v \in Nat /\ x.src = << >> /\ x.src \in Seq(Cell) /\ Distinct(x.src) /\ k \in Nat
      /\ \A v \in Value : Combine(op, v) \in Nat
      /\ \A j \in 1 .. Len(x.src) : x.src[j].key # k
  <2>1. x.v \in Nat /\ x.src = << >> /\ x.src \in Seq(Cell) /\ \A v \in Value : Combine(op, v) \in Nat
    BY ValueForTypes
  <2>2. Distinct(x.src) /\ Len(x.src) = 0 /\ 1 .. 0 = {}
    BY <2>1, EmptyCells
  <2>3. k \in Nat
    BY ArraysAssumption DEF ArraysAssumption
  <2> QED BY <2>1, <2>2, <2>3
<1>2. Language!ValueFor(op) = x.v /\ \A v : Language!Combine(op, v) = Combine(op, v)
  BY SaidOps
<1>3. SUFFICES Language!Change(a, {k}, op) /\ \E z : Made(a, z)
  BY WriteSaid
<1> DEFINE e == [key |-> k, val |-> x.v]
<1>4. CASE t.node = << >>
  <2>1. Stores(a, Created(k, x)) /\ ~Filled(t)
    BY <1>4 DEF ChangeAt, Filled
  <2>2. Made(a, <<e>> \o Cells(x.src)) /\ l = << >>
    <3> HIDE DEF x
    <3>1. Made(a, <<[key |-> k, val |-> x.v]>> \o Cells(x.src)) /\ l = << >>
      BY <1>1, <2>1, CreatedMade
    <3> QED BY <3>1
  <2>3. e \in Item
    BY <1>1 DEF Item
  <2> HIDE DEF e
  <2>4. <<e>> \o Cells(x.src) = <<e>>
    BY <1>1, <2>3, EmptyCells, OnePlus
  <2>5. Append(l, e) = <<e>>
    BY <2>2
  <2>6. DOMAIN l = {}
    BY <2>2
  <2>a. S = {}
    BY <2>6
  <2>7. Lists'[a] = Append(l, e) /\ Cursors'[a] = Cursors[a]
    BY <2>2, <2>4, <2>5 DEF Made
  <2>8. Lists'[a] = Append(Lists[a], [key |-> k, val |-> Language!ValueFor(op)])
    BY <1>2, <2>7 DEF e
  <2>9. Language!Change(a, {k}, op)
    BY <2>a, <2>7, <2>8, SaidChangeAt
  <2> QED BY <2>2, <2>9
<1>5. CASE t.node # << >>
  <2>1. /\ NotUnset(a)
        /\ n = null => Stores(a, Linked(t, k, x))
        /\ n # null => /\ "mask element" \in Avoided => op # "and"
                       /\ Stores(a, IF op = "and" THEN t ELSE [t EXCEPT !.node[n].val = Combine(op, @)])
    BY <1>5 DEF ChangeAt
  <2>2. ~t.deleted /\ Filled(t) /\ Heap(t)
    <3>1. "write after unset" \in Avoided
      BY DEF Careful, Pitfall
    <3> QED BY <1>5, <2>1, <3>1, SeenNow DEF NotUnset, Filled
  <2>3. CASE n = null
    <3>1. FindIndex(var[a], k) = null /\ Filled(var[a]) /\ Stores(a, Linked(t, k, x))
      BY <2>1, <2>2, <2>3
    <3>2. S = {}
      BY <3>1, AtIs
    <3>3. \A i \in 1 .. Len(var[a].node) : var[a].node[i].key # k
      BY <3>1, AtIs
    <3> HIDE DEF x, S
    <3>4. Made(a, Append(l, e))
      BY <1>1, <3>1, <3>3, LinkedMade
    <3>5. Lists'[a] = Append(Lists[a], [key |-> k, val |-> Language!ValueFor(op)]) /\ Cursors'[a] = Cursors[a]
      BY <1>2, <3>4 DEF Made
    <3>6. Language!Change(a, {k}, op)
      BY <3>2, <3>5, SaidChangeAt DEF S
    <3> QED BY <3>4, <3>6
  <2>4. CASE n # null
    <3>1. FindIndex(var[a], k) # null /\ Filled(var[a])
      BY <2>2, <2>4
    <3>2. n \in 1 .. Len(t.node) /\ n \in S
      <4>1. FindIndex(var[a], k) \in 1 .. Len(var[a].node)
        BY <3>1, AtIs
      <4>2. FindIndex(var[a], k) \in S
        BY <3>1, AtIs
      <4> QED BY <4>1, <4>2
    <3>3. Stores(a, [t EXCEPT !.node[n].val = Combine(op, @)])
      <4>1. "mask element" \in Avoided
        BY DEF Careful, Pitfall
      <4> QED BY <2>1, <2>4, <4>1
    <3> HIDE DEF n, S
    <3> DEFINE o == t.node[n].val
               w == Combine(op, o)
    <3>4. o \in Value /\ w \in Nat
      BY <1>1, <3>2, ListParts DEF ListInv
    <3>5. [t EXCEPT !.node[n].val = Combine(op, @)] = [t EXCEPT !.node[n].val = w]
      OBVIOUS
    <3> HIDE DEF w
    <3>6. [t EXCEPT !.node[n].val = w] = [t EXCEPT !.node[n].val = w, !.deleted = FALSE]
      <4> HIDE DEF t
      <4>1. t.deleted = FALSE
        BY <2>2 DEF Heap, Record
      <4> QED BY <2>2, <3>2, <3>4, <4>1, ValAlone
    <3>7. Stores(a, [var[a] EXCEPT !.node[n].val = w, !.deleted = FALSE])
      BY <3>3, <3>5, <3>6
    <3> HIDE DEF o
    <3>8. n \in DOMAIN l /\ Made(a, [l EXCEPT ![n].val = w])
      BY <2>2, <3>2, <3>4, <3>7, RevaluedMade
    <3>9. l[n].val = o
      <4>1. \A i \in 1 .. Len(var[a].node) : Lists[a][i] = [key |-> var[a].node[i].key, val |-> var[a].node[i].val]
        BY <2>2, AtIs
      <4>2. l[n] = [key |-> t.node[n].key, val |-> o]
        BY <3>2, <4>1 DEF o
      <4> QED BY <4>2
    <3>10. [l EXCEPT ![n].val = Language!Combine(op, @)] = [l EXCEPT ![n].val = w]
      BY <1>2, <3>9 DEF w
    <3>11. Lists'[a] = [Lists[a] EXCEPT ![n].val = Language!Combine(op, @)] /\ Cursors'[a] = Cursors[a]
      BY <3>8, <3>10 DEF Made
    <3>12. Language!Change(a, {k}, op)
      <4>1. \E i \in {i \in DOMAIN Lists[a] : Lists[a][i].key = k} :
                 Lists'[a] = [Lists[a] EXCEPT ![i].val = Language!Combine(op, @)]
        BY <3>2, <3>11 DEF S
      <4> QED BY <3>11, <4>1, SaidChangeAt
    <3> QED BY <3>8, <3>12
  <2> QED BY <2>3, <2>4
<1> QED BY <1>4, <1>5

(* A call that changes nothing.                                            *)
LEMMA SameLists ==
    ASSUME ListInv, UNCHANGED var, out' \in OneNumber
    PROVE  /\ ListInv' /\ \A a \in Name : Lists'[a] = Lists[a] /\ Cursors'[a] = Cursors[a] /\ Language!Others(a)
           /\ Lists' = Lists /\ Cursors' = Cursors
<1>1. ListInv'
  BY DEF ListInv, TypeInv, Sized, Heap, Onward, Flat, Distinct
<1>2. ASSUME NEW a \in Name PROVE Lists'[a] = Lists[a] /\ Cursors'[a] = Cursors[a]
  <2>1. var'[a] = var[a] /\ Heap(var[a]) /\ Flat(var[a]) /\ Lists[a] = Els(var[a]) /\ Cursors[a] = Cur(var[a])
    BY SeenNow
  <2>2. Heap(var'[a]) /\ Flat(var'[a])
    BY <2>1
  <2>3. Lists'[a] = Els(var'[a]) /\ Cursors'[a] = Cur(var'[a])
    BY <2>2, SeenThen
  <2> QED BY <2>1, <2>3
<1>3. ASSUME NEW a \in Name PROVE Language!Others(a)
  BY <1>2 DEF Language!Others, Lists, Cursors
<1>4. Lists' = Lists /\ Cursors' = Cursors
  BY <1>2 DEF Lists, Cursors
<1> QED BY <1>1, <1>2, <1>3, <1>4

LEMMA UnSetSaid ==
    ASSUME ListInv, NEW a \in Name, UnSet(a) PROVE Wrote(a)
<1>1. SUFFICES Language!UnSet(a) /\ ListInv' /\ out' = << >> /\ Language!Others(a)
  BY DEF Wrote, Language!Write
<1>2. CASE ~GetVar(a)
  <2>1. UNCHANGED var /\ out' = << >>
    BY <1>2 DEF UnSet
  <2>2. ListInv' /\ Lists'[a] = Lists[a] /\ Cursors'[a] = Cursors[a] /\ Language!Others(a)
    BY <2>1, SameLists DEF OneNumber
  <2>3. Lists[a] = << >> /\ Cursors[a] = 0
    <3>1. ~Filled(var[a])
      BY <1>2 DEF GetVar, Filled
    <3> QED BY <3>1, SeenNow DEF Els, Cur
  <2> QED BY <2>1, <2>2, <2>3, SaidUnSet
<1>3. CASE GetVar(a)
  <2> DEFINE t == var[a]
             u == [t EXCEPT !.node = <<[t.node[head] EXCEPT !.next = null, !.prev = Before]>>, !.count = 1,
                            !.lacc = Before, !.lastnode = head, !.deleted = TRUE]
  <2>1. Stores(a, u)
    BY <1>3 DEF UnSet
  <2>2. Heap(t) /\ Flat(t) /\ t.node # << >>
    BY <1>3, SeenNow DEF GetVar
  <2> HIDE DEF t
  <2>3. Heap(u)
    BY <2>2, UnSetHeap
  <2> DEFINE z == u
  <2>4. z = [t EXCEPT !.node = <<[t.node[head] EXCEPT !.next = null, !.prev = Before]>>, !.count = 1,
                      !.lacc = Before, !.lastnode = head, !.deleted = TRUE]
    OBVIOUS
  <2> HIDE DEF z
  <2>5. Flat(z) /\ z.deleted
    BY <2>2, <2>4, FlatUnSet
  <2>6. Stores(a, z) /\ Heap(z)
    BY <2>1, <2>3, <2>4
  <2>7. Becomes(a, z)
    BY <2>5, <2>6, Stored
  <2>8. Els(z) = << >> /\ Cur(z) = 0
    BY <2>5 DEF Els, Cur, Filled
  <2> QED BY <2>7, <2>8, SaidUnSet DEF Becomes
<1> QED BY <1>2, <1>3

-----------------------------------------------------------------------------
(* Sorting.  The zeros first, then the ones: that there is an order at all. *)
LEMMA Orders ==
    ASSUME NEW n \in Nat, NEW s \in [1 .. n -> Value]
    PROVE  \E g \in Bijection(1 .. n, 1 .. n) : \A i, j \in 1 .. n : i < j => s[g[i]] <= s[g[j]]
<1> DEFINE D == 1 .. n
           Z == {i \in D : s[i] = 0}
           O == {i \in D : s[i] = 1}
           z == Cardinality(Z)
           o == Cardinality(O)
<1>1. IsFiniteSet(D) /\ Cardinality(D) = n
  <2>1. IsFiniteSet(1 .. n) /\ Cardinality(1 .. n) = IF 1 > n THEN 0 ELSE n - 1 + 1
    BY FS_Interval
  <2> QED BY <2>1
<1>2. Z \in SUBSET D /\ O \in SUBSET D /\ Z \cup O = D /\ Z \cap O = {}
  <2>1. \A i \in D : s[i] = 0 \/ s[i] = 1
    BY DEF Value
  <2> QED BY <2>1
<1>3. \A i \in Z : s[i] = 0
  OBVIOUS
<1>4. \A i \in O : s[i] = 1
  OBVIOUS
<1> HIDE DEF Z, O
<1>5. IsFiniteSet(Z) /\ IsFiniteSet(O)
  <2> HIDE DEF D
  <2> QED BY <1>1, <1>2, FS_Subset
<1>6. z \in Nat /\ o \in Nat /\ z + o = n
  <2>1. z \in Nat /\ o \in Nat
    BY <1>5, FS_CardinalityType
  <2>2. Cardinality(Z \cup O) = z + o - Cardinality(Z \cap O)
    BY <1>5, FS_Union
  <2>3. Cardinality(Z \cap O) = 0
    BY <1>2, FS_EmptySet
  <2>4. Cardinality(Z \cup O) = n
    BY <1>1, <1>2
  <2> HIDE DEF z, o
  <2> QED BY <2>1, <2>2, <2>3, <2>4
<1>7. ExistsBijection(1 .. z, Z) /\ ExistsBijection(1 .. o, O)
  BY <1>5, FS_CardinalityType
<1> HIDE DEF z, o
<1>8. PICK h \in Bijection(1 .. z, Z) : TRUE
  BY <1>7 DEF ExistsBijection
<1>9. PICK k \in Bijection(1 .. o, O) : TRUE
  BY <1>7 DEF ExistsBijection
<1>10. /\ h \in [1 .. z -> Z] /\ (\A a, b \in 1 .. z : h[a] = h[b] => a = b) /\ \A y \in Z : \E x \in 1 .. z : h[x] = y
  <2> DEFINE S == 1 .. z
  <2>1. h \in Bijection(S, Z)
    OBVIOUS
  <2> HIDE DEF S
  <2>2. h \in [S -> Z] /\ (\A a, b \in S : h[a] = h[b] => a = b) /\ \A y \in Z : \E x \in S : h[x] = y
    BY <2>1, Fun_BijectionProperties
  <2> QED BY <2>2 DEF S
<1>11. /\ k \in [1 .. o -> O] /\ (\A a, b \in 1 .. o : k[a] = k[b] => a = b) /\ \A y \in O : \E x \in 1 .. o : k[x] = y
  <2> DEFINE S == 1 .. o
  <2>1. k \in Bijection(S, O)
    OBVIOUS
  <2> HIDE DEF S
  <2>2. k \in [S -> O] /\ (\A a, b \in S : k[a] = k[b] => a = b) /\ \A y \in O : \E x \in S : k[x] = y
    BY <2>1, Fun_BijectionProperties
  <2> QED BY <2>2 DEF S
<1> DEFINE g == [i \in D |-> IF i <= z THEN h[i] ELSE k[i - z]]
<1>12. ASSUME NEW i \in D
       PROVE  /\ i <= z => i \in 1 .. z /\ g[i] = h[i] /\ g[i] \in Z
              /\ ~(i <= z) => i - z \in 1 .. o /\ g[i] = k[i - z] /\ g[i] \in O
  <2>1. CASE i <= z
    <3>1. i \in 1 .. z
      BY <1>6, <2>1
    <3> QED BY <1>10, <2>1, <3>1
  <2>2. CASE ~(i <= z)
    <3>1. i - z \in 1 .. o
      BY <1>6, <2>2
    <3> QED BY <1>11, <2>2, <3>1
  <2> QED BY <2>1, <2>2
<1>13. g \in [D -> D]
  BY <1>2, <1>12
<1>14. DOMAIN g = D
  OBVIOUS
<1>a. ASSUME NEW x \in 1 .. z PROVE x \in D /\ g[x] = h[x]
  <2>1. x \in D /\ x <= z
    BY <1>6
  <2> QED BY <1>12, <2>1
<1>b. ASSUME NEW x \in 1 .. o PROVE x + z \in D /\ g[x + z] = k[x]
  <2> DEFINE j == x + z
  <2>1. j \in D /\ ~(j <= z) /\ j - z = x
    BY <1>6
  <2> HIDE DEF j, g
  <2>2. g[j] = k[j - z]
    BY <1>12, <2>1
  <2> QED BY <2>1, <2>2 DEF j
<1> HIDE DEF g
<1>15. ASSUME NEW i \in D, NEW j \in D, g[i] = g[j] PROVE i = j
  <2>1. CASE i <= z /\ j <= z
    BY <1>10, <1>12, <1>15, <2>1
  <2>2. CASE ~(i <= z) /\ ~(j <= z)
    <3>1. i - z \in 1 .. o /\ j - z \in 1 .. o /\ k[i - z] = k[j - z]
      BY <1>12, <1>15, <2>2
    <3>2. i - z = j - z
      BY <1>11, <3>1
    <3> QED BY <1>6, <3>2
  <2>3. CASE (i <= z /\ ~(j <= z)) \/ (~(i <= z) /\ j <= z)
    <3>1. g[i] \in Z \cap O
      BY <1>12, <1>15, <2>3
    <3> QED BY <1>2, <3>1
  <2> QED BY <2>1, <2>2, <2>3
<1>16. ASSUME NEW y \in D PROVE \E x \in D : g[x] = y
  <2>1. CASE y \in Z
    <3>1. PICK x \in 1 .. z : h[x] = y
      BY <1>10, <2>1
    <3>2. x \in D /\ g[x] = y
      BY <1>a, <3>1
    <3> QED BY <3>2
  <2>2. CASE y \in O
    <3>1. PICK x \in 1 .. o : k[x] = y
      BY <1>11, <2>2
    <3>2. x + z \in D /\ g[x + z] = y
      BY <1>b, <3>1
    <3> QED BY <3>2
  <2> QED BY <1>2, <2>1, <2>2
<1>17. g \in Bijection(D, D)
  <2> HIDE DEF D
  <2> QED BY <1>13, <1>15, <1>16, Fun_IsBij
<1>18. ASSUME NEW i \in D, NEW j \in D, i < j PROVE s[g[i]] <= s[g[j]]
  <2>1. CASE i <= z
    <3>1. s[g[i]] = 0
      BY <1>3, <1>12, <2>1
    <3>2. g[j] \in D
      BY <1>13
    <3>3. s[g[j]] = 0 \/ s[g[j]] = 1
      BY <3>2 DEF Value
    <3> QED BY <3>1, <3>3
  <2>2. CASE ~(i <= z)
    <3>1. ~(j <= z)
      BY <1>6, <1>18, <2>2
    <3>2. s[g[i]] = 1 /\ s[g[j]] = 1
      BY <1>4, <1>12, <2>2, <3>1
    <3> QED BY <3>2
  <2> QED BY <2>1, <2>2
<1> QED BY <1>17, <1>18

(* What Sorted gives: the same values, as often as before, in order.        *)
InOrder(r, s, n) ==
    /\ r \in [1 .. n -> Value] /\ \A i, j \in 1 .. n : i < j => r[i] <= r[j]
    /\ \A v \in Value : Cardinality({i \in 1 .. n : r[i] = v}) = Cardinality({i \in 1 .. n : s[i] = v})

LEMMA SortedIs == ASSUME NEW n \in Nat, NEW s \in [1 .. n -> Value] PROVE InOrder(Sorted(s), s, n)
<1> DEFINE D == 1 .. n
           f == CHOOSE g \in Bijection(D, D) : \A i, j \in D : i < j => s[g[i]] <= s[g[j]]
           r == [i \in D |-> s[f[i]]]
<1>1. DOMAIN s = D
  OBVIOUS
<1>2. Sorted(s) = r
  BY <1>1 DEF Sorted
<1>3. f \in Bijection(D, D) /\ \A i, j \in D : i < j => s[f[i]] <= s[f[j]]
  <2>1. \E g \in Bijection(D, D) : \A i, j \in D : i < j => s[g[i]] <= s[g[j]]
    BY Orders
  <2> QED BY <2>1
<1> HIDE DEF f
<1>4. f \in [D -> D] /\ (\A i, j \in D : f[i] = f[j] => i = j) /\ \A y \in D : \E x \in D : f[x] = y
  <2> HIDE DEF D
  <2> QED BY <1>3, Fun_BijectionProperties
<1>5. r \in [D -> Value] /\ \A i \in D : r[i] = s[f[i]]
  BY <1>4
<1> HIDE DEF r
<1>6. \A i, j \in D : i < j => r[i] <= r[j]
  BY <1>3, <1>5
<1>7. ASSUME NEW v \in Value PROVE Cardinality({i \in D : r[i] = v}) = Cardinality({i \in D : s[i] = v})
  <2> DEFINE A == {i \in D : r[i] = v}
             B == {i \in D : s[i] = v}
             h == [i \in A |-> f[i]]
  <2>1. \A i \in A : i \in D /\ f[i] \in B
    BY <1>4, <1>5
  <2>2. \A y \in B : \E x \in A : f[x] = y
    BY <1>4, <1>5
  <2>3. A \in SUBSET D
    OBVIOUS
  <2> HIDE DEF A, B
  <2>4. h \in [A -> B]
    BY <2>1
  <2>5. \A i, j \in A : h[i] = h[j] => i = j
    BY <1>4, <2>1
  <2>6. \A y \in B : \E x \in A : h[x] = y
    BY <2>2
  <2> HIDE DEF h
  <2>7. h \in Bijection(A, B)
    BY <2>4, <2>5, <2>6, Fun_IsBij
  <2>8. ExistsBijection(A, B)
    BY <2>7 DEF ExistsBijection
  <2>9. IsFiniteSet(A)
    <3>1. IsFiniteSet(D)
      BY FS_Interval
    <3> HIDE DEF D
    <3> QED BY <2>3, <3>1, FS_Subset
  <2>10. Cardinality(B) = Cardinality(A)
    BY <2>8, <2>9, FS_Bijection
  <2> QED BY <2>10 DEF A, B
<1>8. InOrder(r, s, n)
  BY <1>5, <1>6, <1>7 DEF InOrder
<1> QED BY <1>2, <1>8
LEMMA SaidSort ==
    ASSUME NEW a, NEW n \in Nat, DOMAIN Lists[a] = 1 .. n, NEW r, NEW s, InOrder(r, s, n),
           \A i \in 1 .. n : Lists[a][i].val = s[i],
           Lists'[a] = [i \in 1 .. n |-> [Lists[a][i] EXCEPT !.val = r[i]]], Cursors'[a] = Cursors[a]
    PROVE  Language!Sort(a)
<1> DEFINE D == DOMAIN Lists[a]
<1>1. r \in [D -> Value] /\ DOMAIN r = D /\ \A i, j \in DOMAIN r : i < j => r[i] <= r[j]
  BY DEF InOrder
<1>2. ASSUME NEW v \in Value
      PROVE  Cardinality({i \in DOMAIN r : r[i] = v}) = Cardinality({i \in DOMAIN r : Lists[a][i].val = v})
  <2>1. {i \in DOMAIN r : Lists[a][i].val = v} = {i \in 1 .. n : s[i] = v} /\ DOMAIN r = 1 .. n
    BY <1>1
  <2> QED BY <2>1 DEF InOrder
<1>3. Lists'[a] = [i \in DOMAIN r |-> [Lists[a][i] EXCEPT !.val = r[i]]]
  BY <1>1
<1>4. \E vals \in [D -> Value] :
         /\ \A i, j \in DOMAIN vals : i < j => vals[i] <= vals[j]
         /\ \A v \in Value : Cardinality({i \in DOMAIN vals : vals[i] = v})
                               = Cardinality({i \in DOMAIN vals : Lists[a][i].val = v})
         /\ Lists'[a] = [i \in DOMAIN vals |-> [Lists[a][i] EXCEPT !.val = vals[i]]]
         /\ Cursors'[a] = Cursors[a]
  BY <1>1, <1>2, <1>3
<1>5. Language!Value = Value /\ \A S : Language!Cardinality(S) = Cardinality(S)
  <2>1. Language!Value = Value
    BY DEF Language!Value, Value
  <2>2. \A S : Language!Cardinality(S) = Cardinality(S)
    BY DEF Language!Cardinality, Cardinality
  <2> QED BY <2>1, <2>2
<1> HIDE DEF D
<1>6. Language!Sort(a) <=>
         \E vals \in [D -> Language!Value] :
            /\ \A i, j \in DOMAIN vals : i < j => vals[i] <= vals[j]
            /\ \A v \in Language!Value : Language!Cardinality({i \in DOMAIN vals : vals[i] = v})
                                           = Language!Cardinality({i \in DOMAIN vals : Lists[a][i].val = v})
            /\ Lists'[a] = [i \in DOMAIN vals |-> [Lists[a][i] EXCEPT !.val = vals[i]]]
            /\ Cursors'[a] = Cursors[a]
  BY DEF Language!Sort, Language!Keeps, Language!Points, Lists, Cursors, D
<1> QED BY <1>4, <1>5, <1>6

(* The nodes with the values sorted.                                        *)
Sorting(u, t, r) ==
    /\ Heap(u) /\ Flat(u) /\ Filled(u) /\ u.lacc = t.lacc
    /\ Cells(u.node) = [i \in 1 .. Len(t.node) |-> [Cells(t.node)[i] EXCEPT !.val = r[i]]]

LEMMA FlatSorted ==
    ASSUME NEW t, Heap(t), Flat(t), Filled(t), NEW r \in [1 .. Len(t.node) -> Value],
           NEW u, u = [t EXCEPT !.node = [i \in 1 .. Len(t.node) |-> [t.node[i] EXCEPT !.val = r[i]]]]
    PROVE  Sorting(u, t, r)
<1> DEFINE n == Len(t.node)
           z == [i \in 1 .. n |-> [t.node[i] EXCEPT !.val = r[i]]]
<1>1. t \in Record /\ t.node \in Seq(Cell) /\ n \in Nat /\ t.node # << >> /\ ~t.deleted /\ n > 0
  BY Nodes DEF Heap, Record, Filled
<1>2. ASSUME NEW i \in 1 .. n
      PROVE  /\ z[i] \in Cell /\ z[i].key = t.node[i].key /\ z[i].val = r[i]
             /\ z[i].next = t.node[i].next /\ z[i].prev = t.node[i].prev
  <2> DEFINE e == t.node[i]
             w == r[i]
             y == z[i]
  <2>1. e \in Cell /\ w \in Nat
    BY <1>1, Nodes DEF Value
  <2>2. y = [e EXCEPT !.val = w]
    OBVIOUS
  <2> HIDE DEF e, w, y
  <2>3. y \in Cell /\ y.key = e.key /\ y.val = w /\ y.next = e.next /\ y.prev = e.prev
    BY <2>1, <2>2 DEF Cell
  <2> QED BY <2>3 DEF e, w, y
<1>3. DOMAIN z = 1 .. n /\ z \in [1 .. n -> Cell]
  BY <1>2
<1>4. u = [t EXCEPT !.node = z]
  OBVIOUS
<1> HIDE DEF z
<1>5. z \in Seq(Cell) /\ Len(z) = n
  <2> DEFINE m == n
  <2>1. m \in Nat /\ z \in [1 .. m -> Cell] /\ DOMAIN z = 1 .. m
    BY <1>1, <1>3
  <2> HIDE DEF m
  <2>2. z \in Seq(Cell)
    BY <2>1, IsASeq
  <2>3. Len(z) = m
    BY <2>1, <2>2, LenProperties
  <2> QED BY <2>2, <2>3 DEF m
<1>6. /\ u \in Record /\ u.node = z /\ u.lacc = t.lacc /\ u.lastnode = t.lastnode /\ u.count = t.count
      /\ u.deleted = t.deleted
  BY <1>1, <1>4, <1>5 DEF Record
<1>7. Heap(u)
  BY <1>2, <1>5, <1>6, SameLinks
<1>8. z # << >>
  BY <1>1, <1>5, Nodes
<1>9. Distinct(z)
  BY <1>2, <1>5 DEF Flat, Distinct
<1>10. Flat(u)
  <2>1. u.count = n /\ u.lastnode = n /\ ~u.deleted
    BY <1>1, <1>6 DEF Flat
  <2>2. \A i \in 1 .. n : /\ z[i].next = IF i = n THEN null ELSE i + 1
                          /\ z[i].prev = IF i = 1 THEN Before ELSE i - 1
    BY <1>2 DEF Flat
  <2>3. \A i \in 1 .. Len(u.node) : /\ u.node[i].next = IF i = Len(u.node) THEN null ELSE i + 1
                                   /\ u.node[i].prev = IF i = 1 THEN Before ELSE i - 1
    BY <1>5, <1>6, <2>2
  <2>4. /\ u.count = Len(u.node) /\ u.lastnode = Len(u.node) /\ u.node # << >> /\ Distinct(u.node)
    BY <1>5, <1>6, <1>8, <1>9, <2>1
  <2> QED BY <2>1, <2>3, <2>4 DEF Flat
<1>11. Filled(u)
  BY <1>1, <1>6, <1>8 DEF Filled
<1>12. Cells(z) = [i \in 1 .. n |-> [Cells(t.node)[i] EXCEPT !.val = r[i]]]
  <2>1. /\ DOMAIN Cells(t.node) = 1 .. n
        /\ \A i \in 1 .. n : Cells(t.node)[i] = [key |-> t.node[i].key, val |-> t.node[i].val]
    BY <1>1, CellsAre
  <2>2. Cells(z) = [i \in 1 .. n |-> [key |-> z[i].key, val |-> z[i].val]]
    BY <1>5 DEF Cells
  <2>3. ASSUME NEW i \in 1 .. n
        PROVE  [key |-> z[i].key, val |-> z[i].val] = [Cells(t.node)[i] EXCEPT !.val = r[i]]
    <3> DEFINE g == Cells(t.node)[i]
               x == t.node[i].key
               y == t.node[i].val
               w == r[i]
    <3>1. g = [key |-> x, val |-> y] /\ z[i].key = x /\ z[i].val = w
      BY <1>2, <2>1
    <3> HIDE DEF g, x, y, w
    <3>2. [g EXCEPT !.val = w] = [key |-> x, val |-> w]
      BY <3>1
    <3> QED BY <3>1, <3>2 DEF g, w
  <2> QED BY <2>2, <2>3
<1> QED BY <1>6, <1>7, <1>10, <1>11, <1>12 DEF Sorting

LEMMA SortSaid == ASSUME ListInv, NEW a \in Name, Sort(a) PROVE Wrote(a)
<1>1. CASE ~GetVar(a)
  <2>1. UnSet(a)
    BY <1>1 DEF Sort, UnSet
  <2> QED BY <2>1, UnSetSaid
<1>2. CASE GetVar(a)
  <2> DEFINE t == var[a]
             n == Len(t.node)
             p == Chain(a)
             q == [i \in DOMAIN p |-> t.node[p[i]].val]
             s == [i \in 1 .. n |-> t.node[i].val]
             r == Sorted(s)
             array == Sorted(q)
             Of(m) == CHOOSE i \in DOMAIN p : p[i] = m
             y == [m \in DOMAIN t.node |-> IF m \in Range(p) THEN [t.node[m] EXCEPT !.val = array[Of(m)]]
                                           ELSE t.node[m]]
             z == [i \in 1 .. n |-> [t.node[i] EXCEPT !.val = r[i]]]
             u == [t EXCEPT !.node = y]
  <2>1. Stores(a, u)
    BY <1>2 DEF Sort
  <2>2. /\ Heap(t) /\ Flat(t) /\ Filled(t) /\ t.node # << >> /\ t.node \in Seq(Cell) /\ n \in Nat
        /\ DOMAIN t.node = 1 .. n /\ Lists[a] = Els(t) /\ Cursors[a] = Cur(t)
    BY <1>2, SeenNow, ListParts DEF GetVar, Filled, ListInv
  <2>3. p = [i \in 1 .. n |-> i]
    <3>1. p = Path(t, head)
      BY DEF Chain
    <3> HIDE DEF t
    <3> QED BY <2>2, <3>1, FlatPath
  <2>4. \A i \in 1 .. n : t.node[i].val \in Value
    BY ListParts DEF ListInv
  <2> HIDE DEF p
  <2>5. DOMAIN p = 1 .. n /\ \A i \in 1 .. n : p[i] = i
    BY <2>3
  <2>6. q = s
    BY <2>5
  <2>7. ASSUME NEW m \in 1 .. n PROVE m \in Range(p) /\ Of(m) = m
    <3>1. m \in DOMAIN p /\ p[m] = m
      BY <2>5
    <3>2. \E i \in DOMAIN p : p[i] = m
      BY <3>1
    <3>3. Of(m) \in DOMAIN p /\ p[Of(m)] = m
      BY <3>2
    <3>4. Of(m) = m
      BY <2>5, <3>3
    <3>5. m \in Range(p)
      BY <3>2 DEF Range
    <3> QED BY <3>4, <3>5
  <2>8. array = r
    BY <2>6
  <2> HIDE DEF Of, array, q
  <2>9. y = z
    BY <2>2, <2>7, <2>8
  <2>10. s \in [1 .. n -> Value]
    BY <2>4
  <2>11. \A i \in 1 .. n : s[i] = t.node[i].val
    OBVIOUS
  <2>12. InOrder(r, s, n)
    <3> HIDE DEF s, n
    <3> QED BY <2>2, <2>10, SortedIs
  <2> HIDE DEF r, s, y
  <2>13. r \in [1 .. n -> Value]
    BY <2>12 DEF InOrder
  <2>14. u = [t EXCEPT !.node = z]
    BY <2>9
  <2> HIDE DEF u
  <2>15. Sorting(u, t, r)
    <3> HIDE DEF t
    <3> QED BY <2>2, <2>13, <2>14, FlatSorted
  <2> HIDE DEF t
  <2>16. Becomes(a, u)
    BY <2>1, <2>15, Stored DEF Sorting
  <2>17. Els(u) = [i \in 1 .. n |-> [Els(t)[i] EXCEPT !.val = r[i]]] /\ Cur(u) = Cur(t)
    BY <2>2, <2>15 DEF Sorting, Els, Cur
  <2>18. DOMAIN Els(t) = 1 .. n /\ \A i \in 1 .. n : Els(t)[i].val = s[i]
    BY <2>2, <2>11, CellsAre DEF Els
  <2>19. Lists'[a] = [i \in 1 .. n |-> [Lists[a][i] EXCEPT !.val = r[i]]] /\ Cursors'[a] = Cursors[a]
    BY <2>2, <2>16, <2>17 DEF Becomes
  <2>20. DOMAIN Lists[a] = 1 .. n /\ \A i \in 1 .. n : Lists[a][i].val = s[i]
    BY <2>2, <2>18
  <2> HIDE DEF n
  <2>21. Language!Sort(a)
    BY <2>2, <2>12, <2>19, <2>20, SaidSort
  <2> QED BY <2>16, <2>21 DEF Becomes, Wrote, Language!Write
<1> QED BY <1>1, <1>2

-----------------------------------------------------------------------------
(* The calls that ask.  Where the cursor stands, for one at a node.         *)
CurAt(k) == IF k = Before THEN 0 ELSE IF k = null THEN -1 ELSE k

(* A list and its cursor, as the nodes of t show them.                      *)
Shown(t, l, c, n) ==
    /\ n \in Nat /\ n > 0 /\ Len(t.node) = n /\ DOMAIN l = 1 .. n /\ Len(l) = n /\ l # << >>
    /\ \A i \in 1 .. n : l[i].key = t.node[i].key /\ l[i].val = t.node[i].val
    /\ c = CurAt(t.lacc) /\ t.lacc \in {null, Before} \cup 1 .. n
    /\ t.lastnode = n /\ t.count = n /\ Distinct(t.node)
    /\ \A i \in 1 .. n : /\ t.node[i].next = IF i = n THEN null ELSE i + 1
                         /\ t.node[i].prev = IF i = 1 THEN Before ELSE i - 1

Asked(a) == ListInv' /\ out' # << >> /\ Lists'[a] = Lists[a] /\ Language!Others(a) /\ Language!Ask(a)

LEMMA NoneSeen == ASSUME ListInv, NEW a \in Name, ~GetVar(a) PROVE Lists[a] = << >> /\ Cursors[a] = 0
<1>1. ~Filled(var[a])
  BY DEF GetVar, Filled
<1> QED BY <1>1, SeenNow DEF Els, Cur

LEMMA ListSeen ==
    ASSUME ListInv, NEW a \in Name, GetVar(a) PROVE Shown(var[a], Lists[a], Cursors[a], Len(var[a].node))
<1> DEFINE t == var[a]
           n == Len(t.node)
           l == Lists[a]
           c == Cursors[a]
<1>1. Heap(t) /\ Flat(t) /\ Filled(t) /\ l = Els(t) /\ c = Cur(t) /\ t.node # << >> /\ t.node \in Seq(Cell)
  BY SeenNow DEF GetVar, Filled, Heap, Record
<1> HIDE DEF t, l, c
<1>2. n \in Nat /\ n > 0
  BY <1>1, Nodes
<1>3. l = Cells(t.node) /\ c = CurAt(t.lacc) /\ t.lacc \in {null, Before} \cup 1 .. n
  BY <1>1 DEF Els, Cur, CurAt, Heap
<1>4. DOMAIN l = 1 .. n /\ Len(l) = n /\ l \in Seq(Item)
      /\ \A i \in 1 .. n : l[i].key = t.node[i].key /\ l[i].val = t.node[i].val
  BY <1>1, <1>3, CellsAre
<1>5. l # << >>
  BY <1>2, <1>4, EmptySeq
<1>6. t.lastnode = n /\ t.count = n /\ Distinct(t.node)
  BY <1>1 DEF Flat
<1>7. \A i \in 1 .. n : /\ t.node[i].next = IF i = n THEN null ELSE i + 1
                        /\ t.node[i].prev = IF i = 1 THEN Before ELSE i - 1
  BY <1>1 DEF Flat
<1>8. Shown(t, l, c, n)
  BY <1>2, <1>3, <1>4, <1>5, <1>6, <1>7 DEF Shown
<1> QED BY <1>8 DEF t, l, c

(* A call that moves the cursor and nothing else.                           *)
Moved(a, k) == ListInv' /\ Lists'[a] = Lists[a] /\ Cursors'[a] = CurAt(k) /\ Language!Others(a) /\ out' # << >>

LEMMA CursorMoved ==
    ASSUME ListInv, NEW a \in Name, GetVar(a), NEW k \in {null, Before} \cup 1 .. Len(var[a].node), NEW m \in Int,
           var' = [var EXCEPT ![a].lacc = k], out' = <<m>>
    PROVE  Moved(a, k)
<1> DEFINE t == var[a]
           u == [t EXCEPT !.lacc = k]
<1>1. TypeInv' /\ ~t.deleted /\ t.node # << >>
  BY MovesTypes DEF ListInv, GetVar
<1>2. var' = [var EXCEPT ![a] = u] /\ DOMAIN var = Name
  BY DEF ListInv, TypeInv
<1>3. Heap(t) /\ Flat(t) /\ Lists[a] = Els(t)
  BY SeenNow
<1> HIDE DEF t
<1>4. /\ u.node = t.node /\ u.lacc = k /\ u.lastnode = t.lastnode /\ u.deleted = t.deleted /\ u.count = t.count
  BY <1>3 DEF Heap, Record
<1>a. Heap(u)
  <2>1. k \in {null, Before} \cup 1 .. Len(t.node)
    BY DEF t
  <2>2. k \in Int
    BY <1>3, <2>1, Nodes DEF Heap, Record, null, Before
  <2>3. u \in Record
    BY <1>3, <2>2 DEF Heap, Record
  <2> HIDE DEF u
  <2> QED BY <1>1, <1>3, <1>4, <2>1, <2>3 DEF Heap, Onward
<1> HIDE DEF u
<1>5. \A b \in Name : var'[b] = IF b = a THEN u ELSE var[b]
  BY <1>2
<1>6. Flat(u)
  BY <1>1, <1>3, <1>4 DEF Flat
<1>7. ListInv'
  <2>1. \A b \in Name : Flat(var'[b])
    BY <1>5, <1>6 DEF ListInv
  <2>2. (\A b \in Name : Flat(var[b]))'
    BY <2>1 DEF Flat, Distinct
  <2> QED BY <1>1, <2>2 DEF ListInv
<1>8. ASSUME NEW b \in Name PROVE Heap(var'[b]) /\ Flat(var'[b])
  BY <1>3, <1>4, <1>5, <1>6, SeenNow, <1>a
<1>9. Lists'[a] = Els(u) /\ Cursors'[a] = Cur(u)
  BY <1>5, <1>8, SeenThen
<1>10. Els(u) = Els(t) /\ Cur(u) = CurAt(k)
  BY <1>1, <1>4 DEF Els, Cur, CurAt, Filled
<1>11. ASSUME NEW b \in Name \ {a} PROVE Lists'[b] = Lists[b] /\ Cursors'[b] = Cursors[b]
  <2>1. var'[b] = var[b] /\ Lists[b] = Els(var[b]) /\ Cursors[b] = Cur(var[b])
    BY <1>5, SeenNow
  <2>2. Lists'[b] = Els(var'[b]) /\ Cursors'[b] = Cur(var'[b])
    BY <1>8, SeenThen
  <2> QED BY <2>1, <2>2
<1>12. Language!Others(a)
  BY <1>11 DEF Language!Others, Lists, Cursors
<1>13. out' # << >>
  OBVIOUS
<1> QED BY <1>3, <1>7, <1>9, <1>10, <1>12, <1>13 DEF Moved

(* What is answered at a node is the value of the element there.            *)
LEMMA AnswerAt ==
    ASSUME NEW t, NEW l, NEW c, NEW n, Shown(t, l, c, n), NEW k \in {null, Before} \cup 1 .. n
    PROVE  ValueOf(t, k) = IF CurAt(k) \in DOMAIN l THEN l[CurAt(k)].val ELSE -1
  BY DEF Shown, ValueOf, CurAt, null, Before, Blank

LEMMA SaidMoves ==
    ASSUME NEW a, NEW i, Cursors'[a] = i, NEW m, out' = <<m>>, m = IF i \in DOMAIN Lists[a] THEN Lists[a][i].val ELSE -1
    PROVE  Language!Moves(a, i)
  BY DEF Language!Moves, Language!Points, Language!Answers, Language!Blank, Lists, Cursors

LEMMA SaidNext1 ==
    ASSUME NEW a, NEW i, Language!Moves(a, i),
           i = IF Lists[a] = << >> THEN 0 ELSE IF Cursors[a] \in {-1, Len(Lists[a])} THEN -1 ELSE Cursors[a] + 1
    PROVE  Language!Next1(a)
  BY DEF Language!Next1, Language!IsSet, Language!Past, Lists, Cursors

LEMMA SaidPrev ==
    ASSUME NEW a, NEW i, Language!Moves(a, i),
           i = IF Cursors[a] = -1 THEN Len(Lists[a]) ELSE IF Cursors[a] = 0 THEN 0 ELSE Cursors[a] - 1
    PROVE  Language!Prev(a)
  BY DEF Language!Prev, Language!Past, Lists, Cursors

(* A call on a variable that is not set answers and changes nothing.        *)
LEMMA NothingAsked ==
    ASSUME ListInv, NEW a \in Name, NEW m \in Int, Pushes(m)
    PROVE  /\ ListInv' /\ out' # << >> /\ out' = <<m>> /\ Lists'[a] = Lists[a] /\ Cursors'[a] = Cursors[a]
           /\ Language!Others(a)
<1>1. UNCHANGED var /\ out' = <<m>> /\ out' \in OneNumber
  BY DEF Pushes, OneNumber
<1>2. ListInv' /\ Lists'[a] = Lists[a] /\ Cursors'[a] = Cursors[a] /\ Language!Others(a)
  BY <1>1, SameLists
<1>3. out' # << >>
  BY <1>1
<1> QED BY <1>1, <1>2, <1>3

LEMMA BlankAsked ==
    ASSUME ListInv, NEW a \in Name, ~GetVar(a), Pushes(Blank)
    PROVE  /\ ListInv' /\ out' # << >> /\ Lists'[a] = Lists[a] /\ Cursors'[a] = Cursors[a] /\ Language!Others(a)
           /\ out' = << -1 >> /\ Lists[a] = << >> /\ Cursors[a] = 0 /\ DOMAIN Lists[a] = {} /\ Len(Lists[a]) = 0
           /\ Language!Moves(a, 0)
<1> DEFINE m == Blank
<1>1. m \in Int /\ m = -1 /\ Pushes(m)
  BY DEF Blank
<1> HIDE DEF m
<1>2. /\ ListInv' /\ out' # << >> /\ out' = <<m>> /\ Lists'[a] = Lists[a] /\ Cursors'[a] = Cursors[a]
      /\ Language!Others(a)
  BY <1>1, NothingAsked
<1>3. Lists[a] = << >> /\ Cursors[a] = 0
  BY NoneSeen
<1>4. DOMAIN Lists[a] = {} /\ Len(Lists[a]) = 0
  BY <1>3
<1>5. Cursors'[a] = 0 /\ m = IF 0 \in DOMAIN Lists[a] THEN Lists[a][0].val ELSE -1
  BY <1>1, <1>2, <1>3, <1>4
<1>6. Language!Moves(a, 0)
  BY <1>2, <1>5, SaidMoves
<1> QED BY <1>1, <1>2, <1>3, <1>4, <1>6

LEMMA MovesAsked ==
    ASSUME ListInv, NEW a \in Name, GetVar(a), NEW k \in {null, Before} \cup 1 .. Len(var[a].node), Moves(a, k)
    PROVE  Moved(a, k) /\ Language!Moves(a, CurAt(k))
<1> DEFINE m == ValueOf(var[a], k)
<1>1. m \in Int
  BY ValueOfType DEF ListInv
<1>2. var' = [var EXCEPT ![a].lacc = k] /\ out' = <<m>>
  BY DEF Moves
<1>3. m = IF CurAt(k) \in DOMAIN Lists[a] THEN Lists[a][CurAt(k)].val ELSE -1
  BY ListSeen, AnswerAt
<1> HIDE DEF m
<1>4. Moved(a, k)
  BY <1>1, <1>2, CursorMoved
<1> DEFINE i == CurAt(k)
<1>5. Cursors'[a] = i /\ m = IF i \in DOMAIN Lists[a] THEN Lists[a][i].val ELSE -1
  BY <1>3, <1>4 DEF Moved
<1> HIDE DEF i
<1>6. Language!Moves(a, i)
  BY <1>2, <1>5, SaidMoves
<1> QED BY <1>4, <1>6 DEF i

LEMMA Next1Said == ASSUME ListInv, NEW a \in Name, Next1(a) PROVE Asked(a)
<1>1. CASE ~GetVar(a)
  <2>1. Pushes(Blank)
    BY <1>1 DEF Next1
  <2>2. Language!Next1(a)
    BY <1>1, <2>1, BlankAsked, SaidNext1
  <2> QED BY <1>1, <2>1, <2>2, BlankAsked DEF Asked, Language!Ask
<1>2. CASE GetVar(a)
  <2> DEFINE t == var[a]
             n == Len(t.node)
             l == Lists[a]
             c == Cursors[a]
             k == IF t.lacc = Before THEN head ELSE IF t.lacc = null THEN null ELSE t.node[t.lacc].next
  <2>1. Moves(a, k)
    BY <1>2 DEF Next1
  <2>2. Shown(t, l, c, n)
    BY <1>2, ListSeen
  <2>3. k \in {null, Before} \cup 1 .. n
    BY <1>2, OneOf DEF ListInv
  <2>4. CurAt(k) = IF l = << >> THEN 0 ELSE IF c \in {-1, Len(l)} THEN -1 ELSE c + 1
    <3> HIDE DEF t, l, c, n
    <3> QED BY <2>2 DEF Shown, CurAt, null, Before, head
  <2> HIDE DEF k
  <2>5. Moved(a, k) /\ Language!Moves(a, CurAt(k))
    BY <1>2, <2>1, <2>3, MovesAsked
  <2>6. Language!Next1(a)
    BY <2>4, <2>5, SaidNext1
  <2> QED BY <2>5, <2>6 DEF Moved, Asked, Language!Ask
<1> QED BY <1>1, <1>2

LEMMA PrevSaid == ASSUME ListInv, NEW a \in Name, Prev(a) PROVE Asked(a)
<1>1. CASE ~GetVar(a)
  <2>1. Pushes(Blank)
    BY <1>1 DEF Prev
  <2>2. Language!Prev(a)
    BY <1>1, <2>1, BlankAsked, SaidPrev
  <2> QED BY <1>1, <2>1, <2>2, BlankAsked DEF Asked, Language!Ask
<1>2. CASE GetVar(a)
  <2> DEFINE t == var[a]
             n == Len(t.node)
             l == Lists[a]
             c == Cursors[a]
             k == IF t.lacc = Before THEN Before ELSE IF t.lacc = null THEN t.lastnode ELSE t.node[t.lacc].prev
  <2>1. Moves(a, k)
    BY <1>2 DEF Prev
  <2>2. Shown(t, l, c, n)
    BY <1>2, ListSeen
  <2>3. k \in {null, Before} \cup 1 .. n
    BY <1>2, OneOf DEF ListInv
  <2>4. CurAt(k) = IF c = -1 THEN Len(l) ELSE IF c = 0 THEN 0 ELSE c - 1
    <3> HIDE DEF t, l, c, n
    <3> QED BY <2>2 DEF Shown, CurAt, null, Before, head
  <2> HIDE DEF k
  <2>5. Moved(a, k) /\ Language!Moves(a, CurAt(k))
    BY <1>2, <2>1, <2>3, MovesAsked
  <2>6. Language!Prev(a)
    BY <2>4, <2>5, SaidPrev
  <2> QED BY <2>5, <2>6 DEF Moved, Asked, Language!Ask
<1> QED BY <1>1, <1>2

LEMMA SaidReset ==
    ASSUME NEW a, NEW m, Cursors'[a] = 0, out' = <<m>>, m = IF Lists[a] # << >> THEN Lists[a][1].val ELSE -1
    PROVE  Language!Reset(a)
  BY DEF Language!Reset, Language!Points, Language!Answers, Language!IsSet, Language!Blank, Lists, Cursors

LEMMA ResetSaid == ASSUME ListInv, NEW a \in Name, Reset(a) PROVE Asked(a)
<1>1. CASE ~GetVar(a)
  <2>1. Pushes(Blank)
    BY <1>1 DEF Reset
  <2>2. Language!Reset(a)
    <3> DEFINE m == -1
    <3>1. Cursors'[a] = 0 /\ out' = <<m>> /\ m = IF Lists[a] # << >> THEN Lists[a][1].val ELSE -1
      BY <1>1, <2>1, BlankAsked
    <3> HIDE DEF m
    <3> QED BY <3>1, SaidReset
  <2> QED BY <1>1, <2>1, <2>2, BlankAsked DEF Asked, Language!Ask
<1>2. CASE GetVar(a)
  <2> DEFINE m == var[a].node[head].val
             k == Before
  <2>1. var' = [var EXCEPT ![a].lacc = k] /\ out' = <<m>>
    BY <1>2 DEF Reset
  <2>2. k \in {null, Before} \cup 1 .. Len(var[a].node) /\ CurAt(k) = 0
    BY DEF CurAt
  <2>3. m \in Int
    BY <1>2, OneOf DEF ListInv, Value
  <2>4. m = IF Lists[a] # << >> THEN Lists[a][1].val ELSE -1
    <3> DEFINE t == var[a]
               n == Len(t.node)
    <3>1. Shown(t, Lists[a], Cursors[a], n)
      BY <1>2, ListSeen
    <3>2. m = t.node[1].val
      BY DEF head
    <3> HIDE DEF t, n, m
    <3>3. 1 \in 1 .. n
      BY <3>1 DEF Shown
    <3> QED BY <3>1, <3>2, <3>3 DEF Shown
  <2> HIDE DEF m, k
  <2>5. Moved(a, k)
    BY <1>2, <2>1, <2>2, <2>3, CursorMoved
  <2>6. Language!Reset(a)
    BY <2>1, <2>2, <2>4, <2>5, SaidReset DEF Moved
  <2> QED BY <2>5, <2>6 DEF Moved, Asked, Language!Ask
<1> QED BY <1>1, <1>2

LEMMA SaidEnd ==
    ASSUME NEW a, NEW m, out' = <<m>>,
           IF Lists[a] # << >> THEN Cursors'[a] = Len(Lists[a]) - 1 /\ m = Lists[a][Len(Lists[a])].val
           ELSE Cursors'[a] = Cursors[a] /\ m = -1
    PROVE  Language!End(a)
  BY DEF Language!End, Language!Points, Language!Answers, Language!IsSet, Language!Blank, Lists, Cursors

LEMMA EndSaid == ASSUME ListInv, NEW a \in Name, End(a) PROVE Asked(a)
<1>1. CASE ~GetVar(a)
  <2>1. Pushes(Blank)
    BY <1>1 DEF End
  <2>2. Language!End(a)
    <3> DEFINE m == -1
    <3>1. Cursors'[a] = Cursors[a] /\ out' = <<m>> /\ Lists[a] = << >> /\ m = -1
      BY <1>1, <2>1, BlankAsked
    <3> HIDE DEF m
    <3> QED BY <3>1, SaidEnd
  <2> QED BY <1>1, <2>1, <2>2, BlankAsked DEF Asked, Language!Ask
<1>2. CASE GetVar(a)
  <2> DEFINE t == var[a]
             n == Len(t.node)
             l == Lists[a]
             e == t.node[t.lastnode]
             m == e.val
             k == e.prev
  <2>1. var' = [var EXCEPT ![a].lacc = k] /\ out' = <<m>>
    BY <1>2 DEF End
  <2>2. Shown(t, l, Cursors[a], n)
    BY <1>2, ListSeen
  <2>3. k \in {null, Before} \cup 1 .. n /\ m \in Value
    BY <1>2, OneOf DEF ListInv
  <2>4. m \in Int
    BY <2>3 DEF Value
  <2>5. /\ l # << >> /\ CurAt(k) = Len(l) - 1 /\ m = l[Len(l)].val
    <3> HIDE DEF t, n, l
    <3>1. n \in 1 .. n /\ t.lastnode = n
      BY <2>2 DEF Shown
    <3>2. k = (IF n = 1 THEN Before ELSE n - 1) /\ m = l[n].val /\ Len(l) = n /\ l # << >> /\ n \in Nat /\ n > 0
      BY <2>2, <3>1 DEF Shown
    <3> HIDE DEF k, m
    <3> QED BY <3>2 DEF CurAt, null, Before
  <2>6. k \in {null, Before} \cup 1 .. Len(var[a].node)
    BY <2>3
  <2> HIDE DEF m, k
  <2>7. Moved(a, k)
    BY <1>2, <2>1, <2>4, <2>6, CursorMoved
  <2>8. IF Lists[a] # << >> THEN Cursors'[a] = Len(Lists[a]) - 1 /\ m = Lists[a][Len(Lists[a])].val
        ELSE Cursors'[a] = Cursors[a] /\ m = -1
    BY <2>5, <2>7 DEF Moved
  <2>9. Language!End(a)
    BY <2>1, <2>8, SaidEnd
  <2> QED BY <2>7, <2>9 DEF Moved, Asked, Language!Ask
<1> QED BY <1>1, <1>2

LEMMA SaidKey ==
    ASSUME NEW a, NEW m, out' = <<m>>, Cursors'[a] = Cursors[a],
           m = IF Lists[a] = << >> \/ Cursors[a] = Len(Lists[a]) THEN -1
               ELSE IF Cursors[a] = -1 THEN Lists[a][1].key ELSE Lists[a][Cursors[a] + 1].key
    PROVE  Language!Key(a)
  BY DEF Language!Key, Language!Points, Language!Answers, Language!IsSet, Language!Blank, Language!Past, Lists, Cursors

LEMMA KeySaid == ASSUME ListInv, NEW a \in Name, Key(a) PROVE Asked(a)
<1> DEFINE t == var[a]
           l == Lists[a]
           c == Cursors[a]
           d == Len(t.node)
           n == IF t.lacc \in {null, Before} THEN head ELSE t.node[t.lacc].next
           m == IF GetVar(a) /\ n # null THEN t.node[n].key ELSE Blank
<1>1. Pushes(m)
  BY DEF Key
<1>2. CASE ~GetVar(a)
  <2>1. Pushes(Blank)
    BY <1>1, <1>2
  <2>2. Language!Key(a)
    <3> DEFINE r == -1
    <3>1. Cursors'[a] = Cursors[a] /\ out' = <<r>> /\ Lists[a] = << >> /\ r = -1
      BY <1>2, <2>1, BlankAsked
    <3> HIDE DEF r
    <3> QED BY <3>1, SaidKey
  <2> QED BY <1>2, <2>1, <2>2, BlankAsked DEF Asked, Language!Ask
<1>3. CASE GetVar(a)
  <2>1. Shown(t, l, c, d)
    BY <1>3, ListSeen
  <2>2. n \in {null} \cup 1 .. d
    BY <1>3, OneOf DEF ListInv
  <2>3. \A i \in 1 .. d : t.node[i].key \in Nat
    BY <1>3, OneOf DEF ListInv
  <2>4. m = IF n # null THEN t.node[n].key ELSE Blank
    BY <1>3
  <2> HIDE DEF m
  <2>5. m \in Int
    <3> HIDE DEF n, t, d
    <3>1. CASE n = null
      BY <2>4, <3>1 DEF Blank
    <3>2. CASE n # null
      <4>1. n \in 1 .. d
        BY <2>2, <3>2
      <4>2. t.node[n].key \in Nat
        BY <2>3, <4>1
      <4>3. m = t.node[n].key
        BY <2>4, <3>2
      <4> QED BY <4>2, <4>3
    <3> QED BY <3>1, <3>2
  <2>6. m = IF l = << >> \/ c = Len(l) THEN -1 ELSE IF c = -1 THEN l[1].key ELSE l[c + 1].key
    <3> HIDE DEF t, l, c, d
    <3>1. /\ d \in Nat /\ d > 0 /\ Len(l) = d /\ l # << >> /\ c = CurAt(t.lacc)
          /\ t.lacc \in {null, Before} \cup 1 .. d
          /\ \A i \in 1 .. d : l[i].key = t.node[i].key
          /\ \A i \in 1 .. d : t.node[i].next = IF i = d THEN null ELSE i + 1
      BY <2>1 DEF Shown
    <3>2. CASE t.lacc \in {null, Before}
      <4>1. n = 1 /\ 1 \in 1 .. d /\ n # null
        BY <3>1, <3>2 DEF head, null
      <4>2. m = l[1].key
        BY <2>4, <3>1, <4>1
      <4>3. (c = -1 \/ c = 0) /\ c # d
        BY <3>1, <3>2 DEF CurAt
      <4> QED BY <3>1, <4>2, <4>3
    <3>3. CASE t.lacc \in 1 .. d /\ t.lacc = d
      <4>1. n = null /\ c = d
        BY <3>1, <3>3 DEF CurAt, null, Before
      <4> QED BY <2>4, <3>1, <4>1 DEF Blank
    <3>4. CASE t.lacc \in 1 .. d /\ t.lacc # d
      <4>1. c = t.lacc /\ n = c + 1 /\ n \in 1 .. d /\ n # null /\ c # -1 /\ c # d
        BY <3>1, <3>4 DEF CurAt, null, Before
      <4> HIDE DEF n
      <4>2. m = l[c + 1].key
        BY <2>4, <3>1, <4>1
      <4> QED BY <3>1, <4>1, <4>2
    <3> QED BY <3>1, <3>2, <3>3, <3>4
  <2>7. /\ ListInv' /\ out' # << >> /\ out' = <<m>> /\ Lists'[a] = Lists[a] /\ Cursors'[a] = Cursors[a]
        /\ Language!Others(a)
    BY <1>1, <2>5, NothingAsked DEF m
  <2>8. Language!Key(a)
    BY <2>6, <2>7, SaidKey
  <2> QED BY <2>7, <2>8 DEF Asked, Language!Ask
<1> QED BY <1>2, <1>3

LEMMA SaidRead ==
    ASSUME NEW a, NEW k, NEW m, out' = <<m>>, Cursors'[a] = Cursors[a],
           \/ {i \in DOMAIN Lists[a] : Lists[a][i].key = k} = {} /\ m = -1
           \/ \E f : {i \in DOMAIN Lists[a] : Lists[a][i].key = k} = {f} /\ m = Lists[a][f].val
    PROVE  Language!Read(a, k)
<1> DEFINE S == Language!At(a, k)
<1>1. S = {i \in DOMAIN Lists[a] : Lists[a][i].key = k}
  BY DEF Language!At, Lists
<1>2. (S = {} /\ m = -1) \/ \E f : S = {f} /\ m = Lists[a][f].val
  BY <1>1
<1> HIDE DEF S
<1>3. m = IF S = {} THEN -1 ELSE Lists[a][CHOOSE i \in S : TRUE].val
  <2>1. CASE S = {} /\ m = -1
    BY <2>1
  <2>2. CASE \E f : S = {f} /\ m = Lists[a][f].val
    <3>1. PICK f : S = {f} /\ m = Lists[a][f].val
      BY <2>2
    <3>2. (CHOOSE i \in S : TRUE) = f /\ S # {}
      BY <3>1
    <3> QED BY <3>1, <3>2
  <2> QED BY <1>2, <2>1, <2>2
<1> QED BY <1>3 DEF Language!Read, Language!Points, Language!Answers, Language!Blank, Lists, Cursors, S

LEMMA ReadSaid == ASSUME ListInv, NEW a \in Name, NEW k \in Index, Read(a, k) PROVE Asked(a)
<1> DEFINE f == FindIndex(var[a], k)
           n == IF GetVar(a) THEN f ELSE null
           m == ValueOf(var[a], n)
           l == Lists[a]
           S == {i \in DOMAIN l : l[i].key = k}
<1>1. Pushes(m)
  BY DEF Read
<1>2. m \in Int /\ ((S = {} /\ m = -1) \/ \E g : S = {g} /\ m = l[g].val)
  <2>1. CASE ~GetVar(a)
    <3>1. m = -1
      BY <2>1 DEF ValueOf, Blank
    <3>2. l = << >>
      BY <2>1, NoneSeen
    <3> HIDE DEF m, l
    <3>3. S = {}
      BY <3>2
    <3> QED BY <3>1, <3>3
  <2>2. CASE GetVar(a)
    <3>1. Filled(var[a])
      BY <2>2 DEF GetVar, Filled
    <3>2. f = null => S = {}
      BY <3>1, AtIs
    <3>3. f # null => f \in 1 .. Len(var[a].node) /\ f \in S
      BY <3>1, AtIs
    <3> DEFINE t == var[a]
               d == Len(t.node)
    <3>4. Shown(t, l, Cursors[a], d)
      BY <2>2, ListSeen
    <3>5. m = IF f \in {null, Before} THEN Blank ELSE t.node[f].val
      BY <2>2 DEF ValueOf
    <3>6. \A i \in 1 .. d : t.node[i].val \in Value
      BY <2>2, OneOf DEF ListInv
    <3>7. f # null => f \in 1 .. d
      BY <3>3
    <3> HIDE DEF m, f, t, d, l
    <3>8. CASE f = null
      BY <3>2, <3>5, <3>8 DEF Blank
    <3>9. CASE f # null
      <4>1. f \in 1 .. d /\ f \in S /\ f # Before /\ DOMAIN l = 1 .. d
        BY <3>3, <3>4, <3>7, <3>9 DEF Before, Shown
      <4>2. m = t.node[f].val /\ l[f].val = t.node[f].val
        BY <3>4, <3>5, <3>9, <4>1 DEF Shown
      <4>3. m \in Int
        BY <3>6, <4>1, <4>2 DEF Value
      <4>4. ASSUME NEW i \in S PROVE i = f
        <5>1. i \in 1 .. d /\ l[i].key = k /\ l[f].key = k
          BY <4>1
        <5>2. t.node[i].key = t.node[f].key
          BY <3>4, <4>1, <5>1 DEF Shown
        <5> QED BY <3>4, <4>1, <5>1, <5>2 DEF Shown, Distinct
      <4> HIDE DEF S
      <4>5. S = {f}
        BY <4>1, <4>4
      <4> QED BY <4>2, <4>3, <4>5
    <3> QED BY <3>8, <3>9
  <2> QED BY <2>1, <2>2
<1> HIDE DEF m
<1>3. /\ ListInv' /\ out' # << >> /\ out' = <<m>> /\ Lists'[a] = Lists[a] /\ Cursors'[a] = Cursors[a]
      /\ Language!Others(a)
  BY <1>1, <1>2, NothingAsked
<1>4. Language!Read(a, k)
  BY <1>2, <1>3, SaidRead
<1> QED BY <1>3, <1>4 DEF Asked, Language!Ask

LEMMA CountSaid == ASSUME ListInv, NEW a \in Name, Count(a) PROVE Asked(a)
<1> DEFINE m == IF GetVar(a) THEN var[a].count ELSE 0
<1>1. Pushes(m)
  BY DEF Count
<1>2. m \in Int
  BY ListParts DEF Record, ListInv
<1>3. m = Len(Lists[a])
  <2>1. CASE ~GetVar(a)
    BY <2>1, NoneSeen
  <2>2. CASE GetVar(a)
    <3> DEFINE t == var[a]
               n == Len(t.node)
    <3>1. Shown(t, Lists[a], Cursors[a], n) /\ m = t.count
      BY <2>2, ListSeen
    <3> HIDE DEF m, t, n
    <3> QED BY <3>1 DEF Shown
  <2> QED BY <2>1, <2>2
<1> HIDE DEF m
<1>4. /\ ListInv' /\ out' # << >> /\ out' = <<m>> /\ Lists'[a] = Lists[a] /\ Cursors'[a] = Cursors[a]
      /\ Language!Others(a)
  BY <1>1, <1>2, NothingAsked
<1>5. Language!Count(a)
  BY <1>3, <1>4 DEF Language!Count, Language!Points, Language!Answers, Lists, Cursors
<1> QED BY <1>4, <1>5 DEF Asked, Language!Ask

(* The values of the elements are those of the nodes.                       *)
LEMMA ValuesSeen == ASSUME ListInv, NEW a \in Name, GetVar(a) PROVE Language!Values(a) = Values(a)
<1> DEFINE t == var[a]
           n == Len(t.node)
           p == Path(t, head)
           l == Lists[a]
<1>1. Values(a) = {t.node[i].val : i \in Range(p)}
  BY DEF Values, Chain
<1>2. Language!Values(a) = {l[i].val : i \in DOMAIN l}
  BY DEF Language!Values, Lists
<1>3. Shown(t, l, Cursors[a], n)
  BY ListSeen
<1>4. Heap(t) /\ Flat(t) /\ t.node # << >>
  BY SeenNow DEF GetVar
<1> HIDE DEF t
<1>5. p = [i \in 1 .. n |-> i]
  BY <1>4, FlatPath
<1> HIDE DEF p, l, n
<1>6. DOMAIN p = 1 .. n /\ \A i \in 1 .. n : p[i] = i
  BY <1>5
<1>7. Range(p) = 1 .. n
  BY <1>6 DEF Range
<1>8. DOMAIN l = 1 .. n /\ \A i \in 1 .. n : l[i].val = t.node[i].val
  BY <1>3 DEF Shown
<1> QED BY <1>1, <1>2, <1>7, <1>8

LEMMA SaidExtremes ==
    ASSUME NEW a, NEW m, out' = <<m>>, Cursors'[a] = Cursors[a],
           IF Lists[a] # << >> THEN m = Min(Language!Values(a)) \/ m = Max(Language!Values(a)) ELSE m = -1
    PROVE  Language!Extremes(a)
<1> DEFINE S == Language!Values(a)
<1>1. Language!Min(S) = Min(S) /\ Language!Max(S) = Max(S)
  <2> HIDE DEF S
  <2> QED BY DEF Language!Min, Language!Max, Min, Max
<1>2. IF Lists[a] # << >> THEN m = Language!Min(S) \/ m = Language!Max(S) ELSE m = -1
  BY <1>1
<1> HIDE DEF S
<1> QED BY <1>2 DEF Language!Extremes, Language!Points, Language!Answers, Language!IsSet, Language!Blank, Lists, Cursors, S

LEMMA ExtremeSaid == ASSUME ListInv, NEW a \in Name, ArrayMax(a) \/ ArrayMin(a) PROVE Asked(a)
<1>1. CASE ~GetVar(a)
  <2>1. Pushes(Blank)
    BY <1>1 DEF ArrayMax, ArrayMin
  <2>2. Language!Extremes(a)
    <3> DEFINE m == -1
    <3>1. Cursors'[a] = Cursors[a] /\ out' = <<m>> /\ Lists[a] = << >> /\ m = -1
      BY <1>1, <2>1, BlankAsked
    <3> HIDE DEF m
    <3> QED BY <3>1, SaidExtremes
  <2> QED BY <1>1, <2>1, <2>2, BlankAsked DEF Asked, Language!Ask
<1>2. CASE GetVar(a)
  <2> DEFINE S == Values(a)
  <2>1. S \subseteq Value /\ S # {}
    BY <1>2, ValuesParts DEF ListInv
  <2>2. Language!Values(a) = S
    BY <1>2, ValuesSeen
  <2>3. Pushes(Max(S)) \/ Pushes(Min(S))
    BY <1>2 DEF ArrayMax, ArrayMin
  <2> HIDE DEF S
  <2>4. PICK m \in S : Pushes(m) /\ (m = Min(S) \/ m = Max(S))
    BY <2>1, <2>3, Extremes
  <2>5. m \in Int
    BY <2>1 DEF Value
  <2>6. /\ ListInv' /\ out' # << >> /\ out' = <<m>> /\ Lists'[a] = Lists[a] /\ Cursors'[a] = Cursors[a]
        /\ Language!Others(a)
    BY <2>4, <2>5, NothingAsked
  <2>7. Lists[a] # << >>
    BY <1>2, ListSeen DEF Shown
  <2>8. Language!Extremes(a)
    BY <2>2, <2>4, <2>6, <2>7, SaidExtremes
  <2> QED BY <2>6, <2>8 DEF Asked, Language!Ask
<1> QED BY <1>1, <1>2

-----------------------------------------------------------------------------
LEMMA InitSaid == Init => ListInv /\ Language!Init
<1> SUFFICES ASSUME Init PROVE ListInv /\ Language!Init
  OBVIOUS
<1>1. \A a \in Name : var[a] = None
  BY DEF Init
<1>2. ListInv
  BY <1>1, InitTypes, FlatNone DEF ListInv
<1>3. \A a \in Name : Lists[a] = << >> /\ Cursors[a] = 0
  BY <1>1, <1>2, SeenNow, FlatNone
<1>4. Lists = [a \in Name |-> << >>] /\ Cursors = [a \in Name |-> 0]
  BY <1>3 DEF Lists, Cursors
<1>5. out = << >>
  BY DEF Init
<1>6. Language!Init
  BY <1>4, <1>5 DEF Language!Init, Lists, Cursors
<1> QED BY <1>2, <1>6

(* Each step of a careful page keeps the invariant, and is one of the       *)
(* language.                                                               *)
LEMMA StepSaid ==
    ASSUME Careful, ListInv, [Next]_vars PROVE ListInv' /\ [Language!Next]_(Language!avars)
<1>1. CASE UNCHANGED vars
  <2>1. UNCHANGED var /\ out' = out
    BY <1>1 DEF vars
  <2>2. out' \in OneNumber
    BY <2>1 DEF ListInv, TypeInv
  <2>3. ListInv' /\ Lists' = Lists /\ Cursors' = Cursors
    BY <2>1, <2>2, SameLists
  <2>4. Language!avars' = Language!avars
    BY <2>1, <2>3 DEF Language!avars, Lists, Cursors
  <2> QED BY <2>3, <2>4
<1>2. ASSUME NEW a \in Name, Write(a) PROVE ListInv' /\ Language!Next
  <2>1. Wrote(a)
    <3>1. ASSUME NEW x \in Source, Assign(a, x) PROVE Wrote(a)
      BY <3>1, AssignSaid
    <3>2. ASSUME NEW x \in Source, Append1(a, x) PROVE Wrote(a)
      BY <3>2, Append1Said
    <3>3. ASSUME NEW x \in Source, NEW k \in Index, AssignAt(a, k, x) PROVE Wrote(a)
      BY <3>3, AssignAtSaid
    <3>4. ASSUME NEW op \in Operator, Change(a, op) PROVE Wrote(a)
      BY <3>4, ChangeSaid
    <3>5. ASSUME NEW op \in Operator, NEW k \in Index, ChangeAt(a, k, op) PROVE Wrote(a)
      BY <3>5, ChangeAtSaid
    <3> QED BY <1>2, <3>1, <3>2, <3>3, <3>4, <3>5, UnSetSaid, SortSaid DEF Write
  <2> QED BY <2>1 DEF Wrote, Language!Next
<1>3. ASSUME NEW a \in Name, Ask(a) PROVE ListInv' /\ Language!Next
  <2>1. Asked(a)
    <3>1. ASSUME NEW k \in Index, Read(a, k) PROVE Asked(a)
      BY <3>1, ReadSaid
    <3> QED BY <1>3, <3>1, Next1Said, PrevSaid, ResetSaid, EndSaid, KeySaid, CountSaid, ExtremeSaid DEF Ask
  <2>2. Language!Others(a) /\ out' # << >> /\ Lists'[a] = Lists[a] /\ Language!Ask(a) /\ ListInv'
    BY <2>1 DEF Asked
  <2> QED BY <2>2 DEF Language!Next, Lists
<1> QED BY <1>1, <1>2, <1>3 DEF Next

LEMMA ListInductive == ASSUME Pitfall \subseteq Avoided PROVE Spec => []ListInv
<1>1. Careful
  BY DEF Careful
<1>2. ListInv /\ [Next]_vars => ListInv'
  BY <1>1, StepSaid
<1> QED BY <1>2, InitSaid, PTL DEF Spec

(* However the list of a variable came about, by appends, by indices, by    *)
(* copies and again after unset, next and prev walk it between its first    *)
(* and its last node, its count and cursor are its own, and no index names  *)
(* two elements (SetVar, GetVar, copyarray and deletearray of var.c), on    *)
(* any page that keeps clear of the pitfalls of the arrays.                 *)
THEOREM ArraysListWhole ==
    ASSUME Pitfall \subseteq Avoided PROVE Spec => []ListWhole
<1>1. ASSUME ListInv PROVE ListWhole
  <2>1. ASSUME NEW a \in Name, var[a].node # << >>
        PROVE  LET t == var[a]
                   p == Chain(a)
               IN  /\ t.lastnode = Last(p) /\ t.count = Len(p) /\ t.lacc \in {null, Before} \cup Range(p)
                   /\ \A i \in DOMAIN p : t.node[p[i]].prev = (IF i = 1 THEN Before ELSE p[i - 1])
                   /\ \A i, j \in DOMAIN p : t.node[p[i]].key = t.node[p[j]].key => i = j
    <3> DEFINE t == var[a]
               n == Len(t.node)
               p == Chain(a)
    <3>1. Heap(t) /\ Flat(t) /\ t.node # << >> /\ p = Path(t, head)
      BY <1>1, <2>1, SeenNow DEF Chain
    <3> HIDE DEF t
    <3>2. n \in Nat /\ n > 0
      BY <3>1, Nodes DEF Heap, Record
    <3>3. p = [i \in 1 .. n |-> i] /\ p \in Seq(1 .. n)
      BY <3>1, FlatPath, FromHead
    <3>4. t.lastnode = n /\ t.count = n /\ t.lacc \in {null, Before} \cup 1 .. n /\ Distinct(t.node)
      BY <3>1 DEF Flat, Heap
    <3>5. \A i \in 1 .. n : t.node[i].prev = IF i = 1 THEN Before ELSE i - 1
      BY <3>1 DEF Flat
    <3>6. \A i, j \in 1 .. n : t.node[i].key = t.node[j].key => i = j
      BY <3>4 DEF Distinct
    <3> HIDE DEF p, n
    <3>7. DOMAIN p = 1 .. n /\ \A i \in 1 .. n : p[i] = i
      BY <3>3
    <3>8. Len(p) = n
      BY <3>2, <3>3, <3>7, LenProperties
    <3>9. Last(p) = n
      <4>1. n \in 1 .. n
        BY <3>2
      <4> QED BY <3>7, <3>8, <4>1 DEF Last
    <3>10. Range(p) = 1 .. n
      BY <3>7 DEF Range
    <3>11. \A i \in DOMAIN p : t.node[p[i]].prev = (IF i = 1 THEN Before ELSE p[i - 1])
      <4> TAKE i \in DOMAIN p
      <4>1. CASE i = 1
        BY <3>5, <3>7, <4>1
      <4>2. CASE i # 1
        <5>1. i \in 1 .. n /\ i - 1 \in 1 .. n
          BY <3>2, <3>7, <4>2
        <5>2. p[i] = i /\ p[i - 1] = i - 1
          BY <3>7, <5>1
        <5> QED BY <3>5, <4>2, <5>1, <5>2
      <4> QED BY <4>1, <4>2
    <3>12. \A i, j \in DOMAIN p : t.node[p[i]].key = t.node[p[j]].key => i = j
      BY <3>6, <3>7
    <3>13. /\ t.lastnode = Last(p) /\ t.count = Len(p) /\ t.lacc \in {null, Before} \cup Range(p)
      BY <3>4, <3>8, <3>9, <3>10
    <3> QED BY <3>11, <3>12, <3>13 DEF t, p
  <2> QED BY <2>1 DEF ListWhole
<1> QED BY <1>1, ListInductive, PTL

(* What SetVar, unset, sort, next, prev, reset, end, key, count and the     *)
(* reads do to the linked nodes is what the page's language says of its     *)
(* lists and cursors, and they answer as it would: on any page that keeps   *)
(* clear of the pitfalls (var.c, sort.c).                                   *)
THEOREM ArraysKeepsArrays ==
    ASSUME Pitfall \subseteq Avoided PROVE Spec => KeepsArrays
<1>1. Careful
  BY DEF Careful
<1>2. ListInv /\ [Next]_vars => [Language!Next]_(Language!avars)
  BY <1>1, StepSaid
<1>3. Init => Language!Init
  BY InitSaid
<1>4. Spec => []ListInv
  BY ListInductive
<1> QED BY <1>2, <1>3, <1>4, PTL DEF Spec, KeepsArrays, Language!Spec

=============================================================================
