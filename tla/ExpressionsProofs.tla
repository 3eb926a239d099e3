-------------------------- MODULE ExpressionsProofs --------------------------
(***************************************************************************)
(* Proofs about Expressions, for any bounds: whatever mixture of the rules, *)
(* functions and texts a page is made of, the types are kept; and, if it    *)
(* keeps clear of the pitfalls, the values of an expression stay on the     *)
(* stack until they are used, and what is called gives one value or none.   *)
(***************************************************************************)
EXTENDS Expressions, SequenceTheorems, TLAPS

-----------------------------------------------------------------------------
(* Sequences.                                                              *)
LEMMA SameSeq ==
    ASSUME NEW S, NEW s \in Seq(S), NEW t \in Seq(S), Len(s) = Len(t), \A i \in 1 .. Len(s) : s[i] = t[i]
    PROVE  s = t
<1>1. DOMAIN s = 1 .. Len(s) /\ DOMAIN t = 1 .. Len(t) BY LenProperties
<1>2. s = [i \in DOMAIN s |-> s[i]] /\ t = [i \in DOMAIN t |-> t[i]] OBVIOUS
<1> QED BY <1>1, <1>2

LEMMA ConcatParts ==
    ASSUME NEW S, NEW a \in Seq(S), NEW b \in Seq(S)
    PROVE  /\ a \o b \in Seq(S) /\ Len(a \o b) = Len(a) + Len(b)
           /\ SubSeq(a \o b, 1, Len(a)) = a
           /\ SubSeq(a \o b, Len(a) + 1, Len(a \o b)) = b
<1> DEFINE c == a \o b
           x == SubSeq(c, 1, Len(a))
           y == SubSeq(c, Len(a) + 1, Len(c))
<1>1. /\ c \in Seq(S) /\ Len(c) = Len(a) + Len(b) /\ Len(a) \in Nat /\ Len(b) \in Nat
      /\ \A i \in 1 .. Len(a) + Len(b) : c[i] = IF i <= Len(a) THEN a[i] ELSE b[i - Len(a)]
  BY ConcatProperties, LenProperties
<1> HIDE DEF c
<1>2. \A i \in 1 .. Len(c) : c[i] \in S BY <1>1
<1>3. x \in Seq(S) /\ Len(x) = Len(a) /\ \A i \in 1 .. Len(a) : x[i] = c[i]
  <2>1. \A i \in 1 .. Len(a) : c[i] \in S BY <1>1, <1>2
  <2>2. /\ SubSeq(c, 1, Len(a)) \in Seq(S) /\ Len(SubSeq(c, 1, Len(a))) = (IF 1 <= Len(a) THEN Len(a) - 1 + 1 ELSE 0)
        /\ \A i \in 1 .. Len(a) - 1 + 1 : SubSeq(c, 1, Len(a))[i] = c[1 + i - 1]
    BY <1>1, <2>1, SubSeqProperties
  <2> QED BY <1>1, <2>2
<1>4. y \in Seq(S) /\ Len(y) = Len(b) /\ \A i \in 1 .. Len(b) : y[i] = c[Len(a) + i]
  <2> DEFINE m == Len(a) + 1
             n == Len(c)
  <2>0. m \in Int /\ n \in Int /\ n - m + 1 = Len(b) BY <1>1
  <2>1. \A i \in m .. n : c[i] \in S BY <1>1, <1>2
  <2>2. /\ SubSeq(c, m, n) \in Seq(S) /\ Len(SubSeq(c, m, n)) = (IF m <= n THEN n - m + 1 ELSE 0)
        /\ \A i \in 1 .. n - m + 1 : SubSeq(c, m, n)[i] = c[m + i - 1]
    <3> HIDE DEF m, n
    <3> QED BY <2>0, <2>1, SubSeqProperties
  <2> QED BY <1>1, <2>0, <2>2
<1> HIDE DEF x, y
<1>5. x = a BY <1>1, <1>3, SameSeq
<1>6. y = b
  <2>1. ASSUME NEW i \in 1 .. Len(b) PROVE y[i] = b[i]
    <3>1. Len(a) + i \in 1 .. Len(a) + Len(b) /\ ~(Len(a) + i <= Len(a)) /\ Len(a) + i - Len(a) = i BY <1>1
    <3>2. y[i] = c[Len(a) + i] BY <1>4
    <3>3. c[Len(a) + i] = b[Len(a) + i - Len(a)] BY <1>1, <3>1
    <3> QED BY <3>1, <3>2, <3>3
  <2> QED BY <1>4, <2>1, SameSeq
<1> QED BY <1>1, <1>5, <1>6 DEF c, x, y

LEMMA Regroup ==
    ASSUME NEW a \in Seq(Value), NEW b \in Seq(Value), NEW c \in Seq(Value)
    PROVE  (a \o b) \o c = a \o (b \o c) /\ a \o b \in Seq(Value) /\ b \o c \in Seq(Value) /\ a \o (b \o c) \in Seq(Value)
<1>1. a \o b \in Seq(Value) /\ b \o c \in Seq(Value) BY ConcatProperties
<1>2. (a \o b) \o c = a \o (b \o c) BY ConcatAssociative
<1>3. a \o (b \o c) \in Seq(Value)
  <2> DEFINE d == b \o c
  <2>1. d \in Seq(Value) BY <1>1
  <2> HIDE DEF d
  <2>2. a \o d \in Seq(Value) BY <2>1, ConcatProperties
  <2> QED BY <2>2 DEF d
<1> QED BY <1>1, <1>2, <1>3

LEMMA SplitAt ==
    ASSUME NEW S, NEW s \in Seq(S), NEW k \in 0 .. Len(s)
    PROVE  \E p, q \in Seq(S) : s = p \o q /\ Len(q) = k /\ Len(p) = Len(s) - k /\ SubSeq(s, 1, Len(s) - k) = p
<1> DEFINE n == Len(s)
           p == SubSeq(s, 1, n - k)
           q == SubSeq(s, n - k + 1, n)
<1>1. n \in Nat /\ k \in 0 .. n BY LenProperties
<1>2. p \o q = s
  <2> DEFINE j == n - k
  <2>1. 1 \in 1 .. n + 1 /\ j \in 1 - 1 .. n /\ n \in j .. n BY <1>1
  <2> HIDE DEF j
  <2>2. SubSeq(s, 1, j) \o SubSeq(s, j + 1, n) = SubSeq(s, 1, n) BY <2>1, ConcatAdjacentSubSeq
  <2> QED BY <2>2, SubSeqFull DEF j
<1>3. p \in Seq(S) /\ Len(p) = n - k
  <2>1. \A i \in 1 .. n - k : s[i] \in S BY <1>1
  <2> QED BY <1>1, <2>1, SubSeqProperties
<1>4. q \in Seq(S) /\ Len(q) = k
  <2> DEFINE m == n - k + 1
  <2>1. m \in Int /\ n \in Int /\ n - m + 1 = k /\ \A i \in m .. n : s[i] \in S BY <1>1
  <2>2. SubSeq(s, m, n) \in Seq(S) /\ Len(SubSeq(s, m, n)) = (IF m <= n THEN n - m + 1 ELSE 0)
    <3> HIDE DEF m, n
    <3> QED BY <2>1, SubSeqProperties
  <2> QED BY <1>1, <2>1, <2>2
<1> HIDE DEF p, q
<1>5. SubSeq(s, 1, Len(s) - k) = p BY DEF p
<1> QED BY <1>2, <1>3, <1>4, <1>5

(* A slice from the front, of whatever length, is of the same elements.     *)
LEMMA SliceIs ==
    ASSUME NEW S, NEW s \in Seq(S), NEW m \in Nat \ {0}, NEW n \in Int, n <= Len(s)
    PROVE  SubSeq(s, m, n) \in Seq(S)
<1>1. \A i \in m .. n : s[i] \in S BY LenProperties
<1> QED BY <1>1, SubSeqProperties

LEMMA PrefixIs ==
    ASSUME NEW S, NEW s \in Seq(S), NEW t \in Seq(S)
    PROVE  IsPrefix(s, t) <=> \E u \in Seq(S) : t = s \o u
<1>1. ASSUME NEW u \in Seq(S), t = s \o u PROVE IsPrefix(s, t)
  <2>1. Len(t) = Len(s) + Len(u) /\ SubSeq(t, 1, Len(s)) = s /\ Len(u) \in Nat /\ Len(s) \in Nat BY <1>1, ConcatParts, LenProperties
  <2>2. SubSeq(s, 1, Len(s)) = s BY SubSeqFull
  <2> QED BY <2>1, <2>2 DEF IsPrefix
<1>2. ASSUME IsPrefix(s, t) PROVE \E u \in Seq(S) : t = s \o u
  <2>1. Len(s) <= Len(t) /\ SubSeq(t, 1, Len(s)) = s BY <1>2, SubSeqFull DEF IsPrefix
  <2> DEFINE k == Len(t) - Len(s)
  <2>2. k \in 0 .. Len(t) /\ Len(t) - k = Len(s) BY <2>1, LenProperties
  <2> HIDE DEF k
  <2>3. PICK p, q \in Seq(S) : t = p \o q /\ Len(q) = k /\ Len(p) = Len(t) - k /\ SubSeq(t, 1, Len(t) - k) = p
    BY <2>2, SplitAt
  <2> QED BY <2>1, <2>2, <2>3
<1> QED BY <1>1, <1>2

LEMMA SuffixOf ==
    ASSUME NEW S, NEW s \in Seq(S), NEW u \in Seq(S)
    PROVE  IsSuffix(s, u \o s)
<1> DEFINE t == u \o s
           a == Reverse(s)
           b == Reverse(t)
           n == Len(s)
<1>1. /\ t \in Seq(S) /\ Len(t) = Len(u) + n /\ n \in Nat /\ Len(u) \in Nat
      /\ \A i \in 1 .. Len(u) + n : t[i] = IF i <= Len(u) THEN u[i] ELSE s[i - Len(u)]
  BY ConcatProperties, LenProperties
<1> HIDE DEF t
<1>2. a = [i \in 1 .. n |-> s[(n - i) + 1]] /\ b = [i \in 1 .. Len(t) |-> t[(Len(t) - i) + 1]] BY DEF Reverse
<1>3. a \in Seq(S) /\ Len(a) = n
  <2> HIDE DEF n, a
  <2>1. \A i \in 1 .. n : s[(n - i) + 1] \in S BY <1>1 DEF n
  <2>2. a \in [1 .. n -> S] BY <1>2, <2>1
  <2>0. n \in Nat BY <1>1
  <2>3. a \in Seq(S) BY <2>0, <2>2
  <2> QED BY <1>1, <2>2, <2>3, LenProperties
<1>4. b \in Seq(S) /\ Len(b) = Len(t)
  <2> HIDE DEF b
  <2>1. \A i \in 1 .. Len(t) : t[(Len(t) - i) + 1] \in S BY <1>1
  <2>2. b \in [1 .. Len(t) -> S] BY <1>2, <2>1
  <2>3. b \in Seq(S) /\ Len(t) \in Nat BY <1>1, <2>2
  <2> QED BY <2>2, <2>3, LenProperties
<1>5. \A i \in 1 .. n : a[i] = b[i]
  <2> SUFFICES ASSUME NEW i \in 1 .. n PROVE a[i] = b[i] OBVIOUS
  <2>1. a[i] = s[(n - i) + 1] BY <1>2
  <2>2. i \in 1 .. Len(t) BY <1>1
  <2>3. b[i] = t[(Len(t) - i) + 1] BY <1>2, <2>2
  <2>4. t[(Len(t) - i) + 1] = s[(n - i) + 1] BY <1>1
  <2> QED BY <2>1, <2>3, <2>4
<1> HIDE DEF a, b
<1>6. SubSeq(b, 1, n) = a
  <2>1. \A i \in 1 .. n : b[i] \in S BY <1>1, <1>4
  <2>2. SubSeq(b, 1, n) \in Seq(S) /\ Len(SubSeq(b, 1, n)) = n /\ \A i \in 1 .. n : SubSeq(b, 1, n)[i] = b[i]
    <3>1. /\ SubSeq(b, 1, n) \in Seq(S) /\ Len(SubSeq(b, 1, n)) = (IF 1 <= n THEN n - 1 + 1 ELSE 0)
          /\ \A i \in 1 .. n - 1 + 1 : SubSeq(b, 1, n)[i] = b[1 + i - 1]
      BY <1>1, <2>1, SubSeqProperties
    <3> QED BY <1>1, <3>1
  <2> QED BY <1>3, <1>5, <2>2, SameSeq
<1>7. SubSeq(a, 1, n) = a BY <1>3, SubSeqFull
<1>8. IsPrefix(a, b) BY <1>1, <1>3, <1>4, <1>6, <1>7 DEF IsPrefix
<1> QED BY <1>8 DEF IsSuffix, a, b, t

-----------------------------------------------------------------------------
(* What a function leaves fits what it was given: a stack of values, with   *)
(* those below the n it may take untouched.                                *)
Fits(s, n, r) == r \in Seq(Value) /\ (Has(s, n) => \E new \in Seq(Value) : r = Rest(s, n) \o new)
AllFit(s, n, R) == \A r \in R : Fits(s, n, r)

LEMMA Kinds ==
    /\ Number \subseteq Value /\ Double \subseteq Value /\ Text \subseteq Value /\ Read \subseteq Value
    /\ {"number"} \subseteq Value /\ {"double"} \subseteq Value /\ {"text"} \subseteq Value /\ {"empty"} \subseteq Value
    /\ Number \cup Text \subseteq Value /\ Number \cup Double \cup Text \subseteq Value
    /\ Read \cup Double \cup Text \subseteq Value /\ Number \cup Read \cup Text \subseteq Value
    /\ Value \ Read \subseteq Value /\ Text \cup Double \subseteq Value
BY DEF Number, Double, Text, Read, Value

LEMMA RestIs ==
    ASSUME NEW s \in Seq(Value), NEW n \in Nat
    PROVE  /\ Rest(s, n) \in Seq(Value)
           /\ Has(s, n) => \E q \in Seq(Value) : s = Rest(s, n) \o q /\ Len(q) = n
<1>1. Len(s) \in Nat BY LenProperties
<1>2. CASE Has(s, n)
  <2>1. n \in 0 .. Len(s) BY <1>1, <1>2 DEF Has
  <2>2. PICK p, q \in Seq(Value) : s = p \o q /\ Len(q) = n /\ Len(p) = Len(s) - n /\ SubSeq(s, 1, Len(s) - n) = p
    BY <2>1, SplitAt
  <2>3. Rest(s, n) = p BY <1>2, <2>2 DEF Rest
  <2> QED BY <2>2, <2>3
<1>3. CASE ~Has(s, n)
  <2>1. Rest(s, n) = << >> BY <1>3, SubSeqEmpty DEF Rest
  <2>2. << >> \in Seq(Value) OBVIOUS
  <2> QED BY <1>3, <2>1, <2>2
<1> QED BY <1>2, <1>3

LEMMA RestOf ==
    ASSUME NEW a \in Seq(Value), NEW b \in Seq(Value)
    PROVE  a \o b \in Seq(Value) /\ Has(a \o b, Len(b)) /\ Rest(a \o b, Len(b)) = a /\ Above(a \o b, Len(a)) = b
<1>1. /\ a \o b \in Seq(Value) /\ Len(a \o b) = Len(a) + Len(b) /\ SubSeq(a \o b, 1, Len(a)) = a
      /\ SubSeq(a \o b, Len(a) + 1, Len(a \o b)) = b /\ Len(a) \in Nat /\ Len(b) \in Nat
  BY ConcatParts, LenProperties
<1>2. Has(a \o b, Len(b)) /\ Len(a \o b) - Len(b) = Len(a) BY <1>1 DEF Has
<1>3. Rest(a \o b, Len(b)) = a BY <1>1, <1>2 DEF Rest
<1>4. ~(Len(a) < 0) BY <1>1
<1>5. Above(a \o b, Len(a)) = b BY <1>1, <1>4 DEF Above
<1> QED BY <1>1, <1>2, <1>3, <1>5

LEMMA RestFits ==
    ASSUME NEW s \in Seq(Value), NEW n \in Nat, NEW m \in 0 .. n
    PROVE  Fits(s, n, Rest(s, m))
<1>1. m \in Nat /\ Rest(s, m) \in Seq(Value) BY RestIs
<1>2. CASE Has(s, n)
  <2>1. PICK q \in Seq(Value) : s = Rest(s, n) \o q /\ Len(q) = n BY <1>2, RestIs
  <2> DEFINE p == Rest(s, n)
  <2>2. p \in Seq(Value) /\ m \in 0 .. Len(q) BY <2>1, RestIs
  <2>3. PICK u, v \in Seq(Value) : q = u \o v /\ Len(v) = m /\ Len(u) = Len(q) - m /\ SubSeq(q, 1, Len(q) - m) = u
    BY <2>2, SplitAt
  <2>4. s = p \o q BY <2>1
  <2> HIDE DEF p
  <2>5. s = (p \o u) \o v /\ p \o u \in Seq(Value)
    <3>0. p \in Seq(Value) /\ u \in Seq(Value) /\ v \in Seq(Value) BY <2>2
    <3>1. (p \o u) \o v = p \o (u \o v) /\ p \o u \in Seq(Value) BY <3>0, Regroup
    <3> QED BY <2>3, <2>4, <3>1
  <2>6. Rest((p \o u) \o v, Len(v)) = p \o u BY <2>5, <2>3, RestOf
  <2>7. Rest(s, m) = p \o u BY <2>3, <2>5, <2>6
  <2> QED BY <1>1, <2>3, <2>7 DEF Fits, p
<1> QED BY <1>1, <1>2 DEF Fits

LEMMA PushFits ==
    ASSUME NEW s \in Seq(Value), NEW n \in Nat, NEW m \in 0 .. n, NEW v \in Value
    PROVE  Fits(s, n, Append(Rest(s, m), v))
<1>1. Fits(s, n, Rest(s, m)) BY RestFits
<1>2. Append(Rest(s, m), v) \in Seq(Value) BY <1>1, AppendProperties DEF Fits
<1>3. CASE Has(s, n)
  <2>1. PICK new \in Seq(Value) : Rest(s, m) = Rest(s, n) \o new BY <1>1, <1>3 DEF Fits
  <2> DEFINE p == Rest(s, n)
             one == <<v>>
  <2>2. p \in Seq(Value) /\ one \in Seq(Value) BY RestIs
  <2>3. Append(p \o new, v) = (p \o new) \o one
    <3>1. p \o new \in Seq(Value) BY <2>2, ConcatProperties
    <3> HIDE DEF p
    <3> QED BY <3>1, AppendIsConcat
  <2> HIDE DEF p, one
  <2>4. (p \o new) \o one = p \o (new \o one) /\ new \o one \in Seq(Value) BY <2>2, ConcatAssociative, ConcatProperties
  <2>5. Append(Rest(s, m), v) = p \o (new \o one) BY <2>1, <2>3, <2>4 DEF p
  <2> QED BY <1>2, <2>4, <2>5 DEF Fits, p
<1> QED BY <1>2, <1>3 DEF Fits

LEMMA Shapes ==
    ASSUME NEW s \in Seq(Value), NEW n \in Nat, NEW m \in 0 .. n
    PROVE  /\ AllFit(s, n, Drops(s, m))
           /\ \A V : V \subseteq Value => /\ AllFit(s, n, Gives(s, m, V)) /\ AllFit(s, n, Answers(s, m, V))
                                          /\ AllFit(s, n, MayGive(s, m, V))
<1>1. AllFit(s, n, Drops(s, m)) BY RestFits DEF AllFit, Drops
<1>2. ASSUME NEW V, V \subseteq Value
      PROVE  AllFit(s, n, Gives(s, m, V)) /\ AllFit(s, n, Answers(s, m, V)) /\ AllFit(s, n, MayGive(s, m, V))
  <2>1. \A v \in V : Fits(s, n, Append(Rest(s, m), v)) BY <1>2, PushFits
  <2>2. AllFit(s, n, Answers(s, m, V)) BY <2>1 DEF AllFit, Answers
  <2>3. AllFit(s, n, Gives(s, m, V)) BY <1>1, <2>1 DEF AllFit, Gives
  <2>4. AllFit(s, n, MayGive(s, m, V)) BY <1>1, <2>3 DEF AllFit, MayGive
  <2> QED BY <2>2, <2>3, <2>4
<1> QED BY <1>1, <1>2

(* Those of a function that takes n values in any case.                     *)
Plain(s, n) ==
    /\ AllFit(s, n, Drops(s, n))
    /\ \A V : V \subseteq Value => /\ AllFit(s, n, Gives(s, n, V)) /\ AllFit(s, n, Answers(s, n, V))
                                   /\ AllFit(s, n, MayGive(s, n, V))

LEMMA Either == ASSUME NEW s, NEW n, NEW A, NEW B, AllFit(s, n, A), AllFit(s, n, B) PROVE AllFit(s, n, A \cup B)
BY DEF AllFit

-----------------------------------------------------------------------------
(* Each function of a page fits the number of values its rule hands it.     *)
LEMMA LiteralsFit ==
    ASSUME NEW s \in Seq(Value)
    PROVE  AllFit(s, 0, PushLiteral(s)) /\ AllFit(s, 0, PushVar(s)) /\ AllFit(s, 0, PushNext(s)) /\ AllFit(s, 1, PushIndexed(s))
<1>1. ASSUME NEW v \in Value PROVE Fits(s, 0, Append(s, v))
  <2>1. Fits(s, 0, Append(Rest(s, 0), v)) BY PushFits
  <2>2. Rest(s, 0) = s
    <3>1. Has(s, 0) /\ Len(s) - 0 = Len(s) BY LenProperties DEF Has
    <3> QED BY <3>1, SubSeqFull DEF Rest
  <2> QED BY <2>1, <2>2
<1>2. AllFit(s, 0, PushLiteral(s)) BY <1>1, Kinds DEF AllFit, PushLiteral
<1>3. AllFit(s, 0, PushVar(s)) BY <1>1, Kinds DEF AllFit, PushVar
<1>4. AllFit(s, 1, PushIndexed(s)) BY Shapes, Kinds DEF PushIndexed
<1> QED BY <1>2, <1>3, <1>4 DEF PushNext

LEMMA CalcFits ==
    ASSUME NEW s \in Seq(Value), NEW op PROVE AllFit(s, 2, Calc(s, op))
<1> DEFINE T == IF op = "/" THEN {"text"} ELSE {}
           B == IF Blank(s, 1) /\ Blank(s, 2) THEN {"empty"} ELSE {"text"}
<1>1. Number \cup T \subseteq Value /\ Double \cup T \subseteq Value /\ B \subseteq Value /\ Number \cup Text \subseteq Value BY Kinds
<1>2. Calc(s, op) \in {Drops(s, 2), Gives(s, 2, Number \cup T), Gives(s, 2, Double \cup T), Gives(s, 2, B), Gives(s, 2, Number \cup Text)}
  <2>1. CASE ~Has(s, 2) BY <2>1 DEF Calc
  <2>2. CASE Has(s, 2) /\ Arg(s, 2) \in Number \cup Read BY <2>2 DEF Calc, Number, Read, Double
  <2>3. CASE Has(s, 2) /\ ~(Arg(s, 2) \in Number \cup Read) /\ Arg(s, 2) \in Double BY <2>3 DEF Calc
  <2>4. CASE Has(s, 2) /\ ~(Arg(s, 2) \in Number \cup Read) /\ ~(Arg(s, 2) \in Double) BY <2>4 DEF Calc
  <2> QED BY <2>1, <2>2, <2>3, <2>4
<1> HIDE DEF T, B
<1>3. \A V : V \subseteq Value => AllFit(s, 2, Gives(s, 2, V)) BY Shapes
<1>4. AllFit(s, 2, Drops(s, 2)) BY Shapes
<1> QED BY <1>1, <1>2, <1>3, <1>4

LEMMA StringsFit ==
    ASSUME NEW s \in Seq(Value)
    PROVE  /\ AllFit(s, 1, StrLen(s)) /\ AllFit(s, 1, StrVal(s)) /\ AllFit(s, 1, GetType(s))
           /\ AllFit(s, 1, IntVal(s)) /\ AllFit(s, 1, DoubleVal(s)) /\ AllFit(s, 1, GoesOn(s))
           /\ AllFit(s, 1, StrToUpper(s)) /\ AllFit(s, 1, StrToLower(s)) /\ AllFit(s, 1, UrlEncode(s))
           /\ AllFit(s, 1, QuoteMeta(s)) /\ AllFit(s, 1, Ord(s)) /\ AllFit(s, 1, UcFirst(s))
           /\ AllFit(s, 1, Chr(s)) /\ AllFit(s, 1, HtmlSpecialChars(s)) /\ AllFit(s, 1, CryptNew(s))
           /\ AllFit(s, 1, Md5(s)) /\ AllFit(s, 1, goombencrypt(s))
           /\ AllFit(s, 2, SetType(s)) /\ AllFit(s, 2, Tokenizes(s)) /\ AllFit(s, 2, StrStr(s))
           /\ AllFit(s, 2, StrrChr(s)) /\ AllFit(s, 2, Sprintf(s)) /\ AllFit(s, 2, CryptSalt(s))
           /\ AllFit(s, 2, RegMatch(s)) /\ AllFit(s, 2, RegSearch(s))
           /\ AllFit(s, 3, SubStr(s)) /\ AllFit(s, 3, RegReplace(s))
<1>1. Plain(s, 1) BY Shapes DEF Plain
<1>2. /\ AllFit(s, 1, StrLen(s)) /\ AllFit(s, 1, GetType(s)) /\ AllFit(s, 1, IntVal(s))
      /\ AllFit(s, 1, DoubleVal(s)) /\ AllFit(s, 1, StrToUpper(s)) /\ AllFit(s, 1, StrToLower(s))
      /\ AllFit(s, 1, UrlEncode(s)) /\ AllFit(s, 1, QuoteMeta(s)) /\ AllFit(s, 1, Ord(s))
      /\ AllFit(s, 1, Chr(s)) /\ AllFit(s, 1, HtmlSpecialChars(s)) /\ AllFit(s, 1, Md5(s))
      /\ AllFit(s, 1, goombencrypt(s))
  BY <1>1, Kinds DEF Plain, StrLen, GetType, IntVal, DoubleVal, StrToUpper, StrToLower, UrlEncode, QuoteMeta, Ord, Chr,
                      HtmlSpecialChars, Md5, goombencrypt
<1>3. AllFit(s, 1, StrVal(s)) BY <1>1, Kinds DEF Plain, StrVal
<1>4. AllFit(s, 1, GoesOn(s)) BY <1>1, Kinds DEF Plain, GoesOn, StrTok
<1>5. AllFit(s, 1, UcFirst(s))
  <2> DEFINE V == IF Is(s, 1, Text \cup Double) THEN {Arg(s, 1)} ELSE Number
  <2>1. V \subseteq Value BY Kinds DEF Is
  <2> HIDE DEF V
  <2>2. AllFit(s, 1, Gives(s, 1, V)) BY <1>1, <2>1 DEF Plain
  <2> QED BY <2>2 DEF UcFirst, V
<1>6. AllFit(s, 1, CryptNew(s)) BY <1>1, Kinds DEF Plain, CryptNew, Crypt
<1>7. Plain(s, 2) BY Shapes DEF Plain
<1>8. /\ AllFit(s, 2, SetType(s)) /\ AllFit(s, 2, StrStr(s)) /\ AllFit(s, 2, StrrChr(s))
      /\ AllFit(s, 2, Sprintf(s)) /\ AllFit(s, 2, RegMatch(s)) /\ AllFit(s, 2, RegSearch(s))
  BY <1>7, Kinds DEF Plain, SetType, StrStr, StrrChr, Sprintf, RegMatch, RegSearch
<1>9. AllFit(s, 2, Tokenizes(s)) BY <1>7, Kinds DEF Plain, Tokenizes, StrTok
<1>10. AllFit(s, 2, CryptSalt(s)) BY <1>7, Kinds DEF Plain, CryptSalt, Crypt
<1>11. Plain(s, 3) BY Shapes DEF Plain
<1>12. /\ AllFit(s, 3, SubStr(s)) /\ AllFit(s, 3, RegReplace(s))
  BY <1>11, Kinds DEF Plain, SubStr, RegReplace
<1> QED BY <1>2, <1>3, <1>4, <1>5, <1>6, <1>8, <1>9, <1>10, <1>12

LEMMA NumbersFit ==
    ASSUME NEW s \in Seq(Value)
    PROVE  /\ AllFit(s, 0, Rand(s)) /\ AllFit(s, 0, GetRandMax(s)) /\ AllFit(s, 0, MicroTime(s))
           /\ AllFit(s, 0, UnixTime(s))
           /\ AllFit(s, 1, BinDec(s)) /\ AllFit(s, 1, DecBin(s)) /\ AllFit(s, 1, DecHex(s))
           /\ AllFit(s, 1, HexDec(s)) /\ AllFit(s, 1, OctDec(s)) /\ AllFit(s, 1, DecOct(s))
           /\ AllFit(s, 1, Abs(s)) /\ AllFit(s, 1, Exp(s)) /\ AllFit(s, 1, mathLog(s))
           /\ AllFit(s, 1, mathLog10(s)) /\ AllFit(s, 1, Sin(s)) /\ AllFit(s, 1, Cos(s)) /\ AllFit(s, 1, Tan(s))
           /\ AllFit(s, 1, Sqrt(s)) /\ AllFit(s, 1, Srand(s)) /\ AllFit(s, 1, DateNow(s))
           /\ AllFit(s, 2, DateOf(s))
<1>1. Plain(s, 0) BY Shapes DEF Plain
<1>2. /\ AllFit(s, 0, Rand(s)) /\ AllFit(s, 0, GetRandMax(s)) /\ AllFit(s, 0, MicroTime(s))
      /\ AllFit(s, 0, UnixTime(s))
  BY <1>1, Kinds DEF Plain, Rand, GetRandMax, MicroTime, UnixTime
<1>3. Plain(s, 1) BY Shapes DEF Plain
<1>4. /\ AllFit(s, 1, BinDec(s)) /\ AllFit(s, 1, DecBin(s)) /\ AllFit(s, 1, DecHex(s))
      /\ AllFit(s, 1, HexDec(s)) /\ AllFit(s, 1, OctDec(s)) /\ AllFit(s, 1, DecOct(s)) /\ AllFit(s, 1, Exp(s))
      /\ AllFit(s, 1, mathLog(s)) /\ AllFit(s, 1, mathLog10(s)) /\ AllFit(s, 1, Sin(s)) /\ AllFit(s, 1, Cos(s))
      /\ AllFit(s, 1, Tan(s)) /\ AllFit(s, 1, Sqrt(s)) /\ AllFit(s, 1, Srand(s))
  BY <1>3, Kinds DEF Plain, BinDec, DecBin, DecHex, HexDec, OctDec, DecOct, Exp, mathLog, mathLog10, Sin, Cos, Tan, Sqrt,
                      Srand
<1>5. AllFit(s, 1, Abs(s)) BY <1>3, Kinds DEF Plain, Abs
<1>6. AllFit(s, 1, DateNow(s)) BY <1>3, Kinds DEF Plain, DateNow, Date
<1>7. Plain(s, 2) BY Shapes DEF Plain
<1>8. AllFit(s, 2, DateOf(s)) BY <1>7, Kinds DEF Plain, DateOf, Date
<1> QED BY <1>2, <1>4, <1>5, <1>6, <1>8

LEMMA VariablesFit ==
    ASSUME NEW s \in Seq(Value)
    PROVE  /\ AllFit(s, 0, IsSet(s)) /\ AllFit(s, 0, Reset(s)) /\ AllFit(s, 0, End(s)) /\ AllFit(s, 0, Key(s))
           /\ AllFit(s, 0, NextItem(s)) /\ AllFit(s, 0, Prev(s))
           /\ AllFit(s, 1, Count(s)) /\ AllFit(s, 1, ArrayMax(s)) /\ AllFit(s, 1, ArrayMin(s))
           /\ AllFit(s, 1, Sort(s)) /\ AllFit(s, 1, SecureVar(s)) /\ AllFit(s, 1, PutEnv(s))
           /\ AllFit(s, 1, GetEnv(s))
<1>1. Plain(s, 0) BY Shapes DEF Plain
<1>2. /\ AllFit(s, 0, IsSet(s)) /\ AllFit(s, 0, Reset(s)) /\ AllFit(s, 0, End(s)) /\ AllFit(s, 0, Key(s))
      /\ AllFit(s, 0, NextItem(s)) /\ AllFit(s, 0, Prev(s))
  BY <1>1, Kinds DEF Plain, IsSet, Reset, End, Key, NextItem, Prev
<1>3. Plain(s, 1) BY Shapes DEF Plain
<1>4. /\ AllFit(s, 1, Count(s)) /\ AllFit(s, 1, Sort(s)) /\ AllFit(s, 1, SecureVar(s))
      /\ AllFit(s, 1, PutEnv(s))
  BY <1>3, Kinds DEF Plain, Count, Sort, SecureVar, PutEnv
<1>5. AllFit(s, 1, ArrayMax(s)) BY <1>3, Kinds DEF Plain, ArrayMax
<1>6. AllFit(s, 1, ArrayMin(s)) BY <1>3, Kinds DEF Plain, ArrayMin
<1>7. AllFit(s, 1, GetEnv(s)) BY <1>3, Kinds DEF Plain, GetEnv
<1> QED BY <1>2, <1>4, <1>5, <1>6, <1>7

LEMMA FilesFit ==
    ASSUME NEW s \in Seq(Value)
    PROVE  /\ AllFit(s, 0, CloseDir(s)) /\ AllFit(s, 0, RewindDir(s)) /\ AllFit(s, 0, ReadDir(s))
           /\ AllFit(s, 1, FileFunc(s)) /\ AllFit(s, 1, Unlink(s)) /\ AllFit(s, 1, Sleep(s))
           /\ AllFit(s, 1, USleep(s)) /\ AllFit(s, 1, Fclose(s)) /\ AllFit(s, 1, Pclose(s))
           /\ AllFit(s, 1, Feof(s)) /\ AllFit(s, 1, Rewind(s)) /\ AllFit(s, 1, Ftell(s))
           /\ AllFit(s, 1, File(s)) /\ AllFit(s, 1, cremove(s)) /\ AllFit(s, 1, OpenDir(s))
           /\ AllFit(s, 1, ChDir(s))
           /\ AllFit(s, 2, TempNam(s)) /\ AllFit(s, 2, Rename(s)) /\ AllFit(s, 2, Fopen(s))
           /\ AllFit(s, 2, Popen(s)) /\ AllFit(s, 2, Fgets(s)) /\ AllFit(s, 2, Fgetss(s))
           /\ AllFit(s, 2, Fputs(s)) /\ AllFit(s, 2, Fseek(s)) /\ AllFit(s, 2, ChMod(s))
           /\ AllFit(s, 2, ChOwn(s)) /\ AllFit(s, 2, ChGrp(s)) /\ AllFit(s, 2, MkDir(s))
           /\ AllFit(s, 2, FSockOpen(s))
<1>1. Plain(s, 0) BY Shapes DEF Plain
<1>2. /\ AllFit(s, 0, CloseDir(s)) /\ AllFit(s, 0, RewindDir(s)) /\ AllFit(s, 0, ReadDir(s))
  BY <1>1, Kinds DEF Plain, CloseDir, RewindDir, ReadDir
<1>3. Plain(s, 1) BY Shapes DEF Plain
<1>4. /\ AllFit(s, 1, FileFunc(s)) /\ AllFit(s, 1, Unlink(s)) /\ AllFit(s, 1, Sleep(s))
      /\ AllFit(s, 1, USleep(s)) /\ AllFit(s, 1, Fclose(s)) /\ AllFit(s, 1, Pclose(s)) /\ AllFit(s, 1, Feof(s))
      /\ AllFit(s, 1, Rewind(s)) /\ AllFit(s, 1, Ftell(s)) /\ AllFit(s, 1, cremove(s))
      /\ AllFit(s, 1, OpenDir(s)) /\ AllFit(s, 1, ChDir(s))
  BY <1>3, Kinds DEF Plain, FileFunc, Unlink, Sleep, USleep, Fclose, Pclose, Feof, Rewind, Ftell, cremove, OpenDir,
                      ChDir
<1>5. AllFit(s, 1, File(s)) BY <1>3, Kinds DEF Plain, File
<1>6. Plain(s, 2) BY Shapes DEF Plain
<1>7. /\ AllFit(s, 2, TempNam(s)) /\ AllFit(s, 2, Fgets(s)) /\ AllFit(s, 2, Fgetss(s)) /\ AllFit(s, 2, Fseek(s))
      /\ AllFit(s, 2, ChMod(s)) /\ AllFit(s, 2, MkDir(s)) /\ AllFit(s, 2, FSockOpen(s))
  BY <1>6, Kinds DEF Plain, TempNam, Fgets, Fgetss, Fseek, ChMod, MkDir, FSockOpen
<1>8. AllFit(s, 2, Rename(s)) BY <1>6, Kinds, Shapes DEF Plain, Rename
<1>9. AllFit(s, 2, Fopen(s)) BY <1>6, Kinds, Shapes DEF Plain, Fopen
<1>10. AllFit(s, 2, Popen(s)) BY <1>6, Kinds, Shapes DEF Plain, Popen
<1>11. AllFit(s, 2, Fputs(s)) BY <1>6, Kinds, Shapes DEF Plain, Fputs
<1>12. AllFit(s, 2, ChOwn(s))
  <2>1. AllFit(s, 2, Drops(s, 1)) /\ AllFit(s, 2, Gives(s, 2, Number)) BY <1>6, Kinds, Shapes DEF Plain
  <2> QED BY <2>1, Either DEF ChOwn
<1>13. AllFit(s, 2, ChGrp(s))
  <2>1. AllFit(s, 2, Drops(s, 1)) /\ AllFit(s, 2, Gives(s, 2, Number)) BY <1>6, Kinds, Shapes DEF Plain
  <2> QED BY <2>1, Either DEF ChGrp
<1> QED BY <1>2, <1>4, <1>5, <1>7, <1>8, <1>9, <1>10, <1>11, <1>12, <1>13

LEMMA SystemsFit ==
    ASSUME NEW s \in Seq(Value)
    PROVE  /\ AllFit(s, 0, Info(s)) /\ AllFit(s, 0, GetAccDir(s)) /\ AllFit(s, 0, GetLogDir(s))
           /\ AllFit(s, 0, GetLogFile(s)) /\ AllFit(s, 0, GetLastHost(s)) /\ AllFit(s, 0, GetLastRef(s))
           /\ AllFit(s, 0, GetLastEmail(s)) /\ AllFit(s, 0, GetLastBrowser(s)) /\ AllFit(s, 0, GetLastAccess(s))
           /\ AllFit(s, 0, GetStartLogging(s)) /\ AllFit(s, 0, GetLastMod(s)) /\ AllFit(s, 0, GetTotal(s))
           /\ AllFit(s, 0, GetToday(s)) /\ AllFit(s, 0, GetMyUid(s)) /\ AllFit(s, 0, GetMyInode(s))
           /\ AllFit(s, 0, GetMyPid(s)) /\ AllFit(s, 0, goombaver(s))
           /\ AllFit(s, 1, Exec(s)) /\ AllFit(s, 1, EscapeShellCmd(s)) /\ AllFit(s, 1, GetHostByAddr(s))
           /\ AllFit(s, 1, GetHostByName(s)) /\ AllFit(s, 1, SetErrorReporting(s))
           /\ AllFit(s, 1, SetLogging(s)) /\ AllFit(s, 1, SetShowInfo(s))
<1>1. Plain(s, 0) BY Shapes DEF Plain
<1>2. /\ AllFit(s, 0, Info(s)) /\ AllFit(s, 0, GetAccDir(s)) /\ AllFit(s, 0, GetLogDir(s))
      /\ AllFit(s, 0, GetLogFile(s)) /\ AllFit(s, 0, GetLastHost(s)) /\ AllFit(s, 0, GetLastRef(s))
      /\ AllFit(s, 0, GetLastEmail(s)) /\ AllFit(s, 0, GetLastBrowser(s)) /\ AllFit(s, 0, GetLastAccess(s))
      /\ AllFit(s, 0, GetStartLogging(s)) /\ AllFit(s, 0, GetLastMod(s)) /\ AllFit(s, 0, GetTotal(s))
      /\ AllFit(s, 0, GetToday(s)) /\ AllFit(s, 0, GetMyUid(s)) /\ AllFit(s, 0, GetMyInode(s))
      /\ AllFit(s, 0, GetMyPid(s)) /\ AllFit(s, 0, goombaver(s))
  BY <1>1, Kinds DEF Plain, Info, GetAccDir, GetLogDir, GetLogFile, GetLastHost, GetLastRef, GetLastEmail,
                      GetLastBrowser, GetLastAccess, GetStartLogging, GetLastMod, GetTotal, GetToday, GetMyUid,
                      GetMyInode, GetMyPid, goombaver
<1>3. Plain(s, 1) BY Shapes DEF Plain
<1>4. /\ AllFit(s, 1, Exec(s)) /\ AllFit(s, 1, GetHostByAddr(s)) /\ AllFit(s, 1, GetHostByName(s))
      /\ AllFit(s, 1, SetErrorReporting(s)) /\ AllFit(s, 1, SetLogging(s)) /\ AllFit(s, 1, SetShowInfo(s))
  BY <1>3, Kinds DEF Plain, Exec, GetHostByAddr, GetHostByName, SetErrorReporting, SetLogging, SetShowInfo
<1>5. AllFit(s, 1, EscapeShellCmd(s))
  <2> DEFINE V == IF Is(s, 1, Text \cup Double) THEN {Arg(s, 1)} ELSE Number
  <2>1. V \subseteq Value BY Kinds DEF Is
  <2> HIDE DEF V
  <2>2. AllFit(s, 1, Gives(s, 1, V)) BY <1>3, <2>1 DEF Plain
  <2> QED BY <2>2 DEF EscapeShellCmd, V
<1> QED BY <1>2, <1>4, <1>5

LEMMA ImagesFit ==
    ASSUME NEW s \in Seq(Value)
    PROVE  /\ AllFit(s, 1, ImageCreateFromGif(s)) /\ AllFit(s, 1, ImageDestroy(s)) /\ AllFit(s, 1, GifToPage(s))
           /\ AllFit(s, 2, ImageCreate(s)) /\ AllFit(s, 2, GifToFile(s))
           /\ AllFit(s, 2, ImageColorTransparent(s)) /\ AllFit(s, 2, ImageInterlace(s))
           /\ AllFit(s, 4, ImageColorAllocate(s)) /\ AllFit(s, 4, ImageSetPixel(s))
           /\ AllFit(s, 4, ImageFill(s)) /\ AllFit(s, 4, ImagePolygon(s))
           /\ AllFit(s, 5, ImageFillToBorder(s))
           /\ AllFit(s, 6, ImageLine(s)) /\ AllFit(s, 6, ImageRectangle(s))
           /\ AllFit(s, 6, ImageFilledRectangle(s)) /\ AllFit(s, 6, ImageChar(s))
           /\ AllFit(s, 8, ImageArc(s))
           /\ AllFit(s, 10, ImageCopyResized(s))
<1>1. Plain(s, 1) BY Shapes DEF Plain
<1>2. /\ AllFit(s, 1, ImageCreateFromGif(s)) /\ AllFit(s, 1, ImageDestroy(s)) /\ AllFit(s, 1, GifToPage(s))
  BY <1>1, Kinds DEF Plain, ImageCreateFromGif, ImageDestroy, GifToPage, ImageGif
<1>3. Plain(s, 2) BY Shapes DEF Plain
<1>4. /\ AllFit(s, 2, ImageCreate(s)) /\ AllFit(s, 2, GifToFile(s)) /\ AllFit(s, 2, ImageColorTransparent(s))
      /\ AllFit(s, 2, ImageInterlace(s))
  BY <1>3, Kinds DEF Plain, ImageCreate, GifToFile, ImageColorTransparent, ImageInterlace, ImageGif
<1>5. Plain(s, 4) BY Shapes DEF Plain
<1>6. /\ AllFit(s, 4, ImageColorAllocate(s)) /\ AllFit(s, 4, ImageSetPixel(s)) /\ AllFit(s, 4, ImageFill(s))
  BY <1>5, Kinds DEF Plain, ImageColorAllocate, ImageSetPixel, ImageFill
<1>7. AllFit(s, 4, ImagePolygon(s))
  <2>1. AllFit(s, 4, Drops(s, 3)) /\ AllFit(s, 4, Drops(s, 4)) BY Shapes
  <2>2. AllFit(s, 4, Drops(s, 3) \cup Drops(s, 4)) BY <2>1, Either
  <2> QED BY <2>1, <2>2 DEF ImagePolygon
<1>8. Plain(s, 5) BY Shapes DEF Plain
<1>9. /\ AllFit(s, 5, ImageFillToBorder(s))
  BY <1>8, Kinds DEF Plain, ImageFillToBorder
<1>10. Plain(s, 6) BY Shapes DEF Plain
<1>11. /\ AllFit(s, 6, ImageLine(s)) /\ AllFit(s, 6, ImageRectangle(s)) /\ AllFit(s, 6, ImageFilledRectangle(s))
      /\ AllFit(s, 6, ImageChar(s))
  BY <1>10, Kinds DEF Plain, ImageLine, ImageRectangle, ImageFilledRectangle, ImageChar
<1>12. Plain(s, 8) BY Shapes DEF Plain
<1>13. /\ AllFit(s, 8, ImageArc(s))
  BY <1>12, Kinds DEF Plain, ImageArc
<1>14. Plain(s, 10) BY Shapes DEF Plain
<1>15. AllFit(s, 10, ImageCopyResized(s))
  <2>1. AllFit(s, 10, Drops(s, 9)) /\ AllFit(s, 10, Drops(s, 10)) BY Shapes
  <2> QED BY <2>1, Either DEF ImageCopyResized
<1> QED BY <1>2, <1>4, <1>6, <1>7, <1>9, <1>11, <1>13, <1>15

LEMMA MsqlsFit ==
    ASSUME NEW s \in Seq(Value)
    PROVE  /\ AllFit(s, 0, MsqlListDBs(s))
           /\ AllFit(s, 1, MsqlConnect(s)) /\ AllFit(s, 1, MsqlFreeResult(s)) /\ AllFit(s, 1, MsqlNumRows(s))
           /\ AllFit(s, 1, MsqlNumFields(s)) /\ AllFit(s, 1, MsqlRegCase(s)) /\ AllFit(s, 1, MsqlListTables(s))
           /\ AllFit(s, 1, MsqlCreateDB(s)) /\ AllFit(s, 1, MySqlQuery(s))
           /\ AllFit(s, 2, Msql(s)) /\ AllFit(s, 2, MsqlField(s)) /\ AllFit(s, 2, MsqlTableName(s))
           /\ AllFit(s, 2, MsqlDBName(s)) /\ AllFit(s, 2, MsqlDropDB(s))
           /\ AllFit(s, 3, MsqlResult(s))
<1>1. Plain(s, 0) BY Shapes DEF Plain
<1>2. /\ AllFit(s, 0, MsqlListDBs(s))
  BY <1>1, Kinds DEF Plain, MsqlListDBs
<1>3. Plain(s, 1) BY Shapes DEF Plain
<1>4. /\ AllFit(s, 1, MsqlFreeResult(s)) /\ AllFit(s, 1, MsqlNumRows(s)) /\ AllFit(s, 1, MsqlNumFields(s))
      /\ AllFit(s, 1, MsqlListTables(s)) /\ AllFit(s, 1, MsqlCreateDB(s)) /\ AllFit(s, 1, MySqlQuery(s))
  BY <1>3, Kinds DEF Plain, MsqlFreeResult, MsqlNumRows, MsqlNumFields, MsqlListTables, MsqlCreateDB, MySqlQuery
<1>5. AllFit(s, 1, MsqlConnect(s)) BY <1>3, Kinds DEF Plain, MsqlConnect
<1>6. AllFit(s, 1, MsqlRegCase(s)) BY <1>3, Kinds DEF Plain, MsqlRegCase
<1>7. Plain(s, 2) BY Shapes DEF Plain
<1>8. /\ AllFit(s, 2, Msql(s)) /\ AllFit(s, 2, MsqlField(s)) /\ AllFit(s, 2, MsqlTableName(s))
      /\ AllFit(s, 2, MsqlDBName(s))
  BY <1>7, Kinds DEF Plain, Msql, MsqlField, MsqlTableName, MsqlDBName
<1>9. AllFit(s, 2, MsqlDropDB(s)) BY <1>7, Kinds, Shapes DEF Plain, MsqlDropDB
<1>10. Plain(s, 3) BY Shapes DEF Plain
<1>11. /\ AllFit(s, 3, MsqlResult(s))
  BY <1>10, Kinds DEF Plain, MsqlResult
<1> QED BY <1>2, <1>4, <1>5, <1>6, <1>8, <1>9, <1>11

LEMMA PostgresFit ==
    ASSUME NEW s \in Seq(Value)
    PROVE  /\ AllFit(s, 0, PGgetlastoid(s))
           /\ AllFit(s, 1, PGfreeResult(s)) /\ AllFit(s, 1, PGclose(s)) /\ AllFit(s, 1, PGnumRows(s))
           /\ AllFit(s, 1, PGnumFields(s)) /\ AllFit(s, 1, PGhost(s)) /\ AllFit(s, 1, PGdbName(s))
           /\ AllFit(s, 1, PGoptions(s)) /\ AllFit(s, 1, PGport(s)) /\ AllFit(s, 1, PGtty(s))
           /\ AllFit(s, 2, PGexec(s)) /\ AllFit(s, 2, PGfieldName(s)) /\ AllFit(s, 2, PGfieldType(s))
           /\ AllFit(s, 2, PGfieldNum(s)) /\ AllFit(s, 2, PGfieldSize(s))
           /\ AllFit(s, 3, PG_result(s)) /\ AllFit(s, 3, PGfieldPrtLen(s))
           /\ AllFit(s, 5, PGconnect(s))
<1>1. Plain(s, 0) BY Shapes DEF Plain
<1>2. /\ AllFit(s, 0, PGgetlastoid(s))
  BY <1>1, Kinds DEF Plain, PGgetlastoid
<1>3. Plain(s, 1) BY Shapes DEF Plain
<1>4. /\ AllFit(s, 1, PGfreeResult(s)) /\ AllFit(s, 1, PGclose(s)) /\ AllFit(s, 1, PGnumRows(s))
      /\ AllFit(s, 1, PGnumFields(s)) /\ AllFit(s, 1, PGhost(s)) /\ AllFit(s, 1, PGdbName(s))
      /\ AllFit(s, 1, PGoptions(s)) /\ AllFit(s, 1, PGport(s)) /\ AllFit(s, 1, PGtty(s))
  BY <1>3, Kinds DEF Plain, PGfreeResult, PGclose, PGnumRows, PGnumFields, PGhost, PGdbName, PGoptions, PGport, PGtty
<1>5. Plain(s, 2) BY Shapes DEF Plain
<1>6. /\ AllFit(s, 2, PGexec(s)) /\ AllFit(s, 2, PGfieldName(s)) /\ AllFit(s, 2, PGfieldType(s))
      /\ AllFit(s, 2, PGfieldNum(s)) /\ AllFit(s, 2, PGfieldSize(s))
  BY <1>5, Kinds DEF Plain, PGexec, PGfieldName, PGfieldType, PGfieldNum, PGfieldSize
<1>7. Plain(s, 3) BY Shapes DEF Plain
<1>8. /\ AllFit(s, 3, PG_result(s))
  BY <1>7, Kinds DEF Plain, PG_result
<1>9. AllFit(s, 3, PGfieldPrtLen(s))
  <2>1. AllFit(s, 3, Answers(s, 3, Number)) /\ AllFit(s, 3, Drops(s, 3)) BY <1>7, Kinds DEF Plain
  <2> QED BY <2>1, Either DEF PGfieldPrtLen
<1>10. Plain(s, 5) BY Shapes DEF Plain
<1>11. /\ AllFit(s, 5, PGconnect(s))
  BY <1>10, Kinds DEF Plain, PGconnect
<1> QED BY <1>2, <1>4, <1>6, <1>8, <1>9, <1>11

LEMMA DbmsFit ==
    ASSUME NEW s \in Seq(Value)
    PROVE  /\ AllFit(s, 0, ListSupportedDBs(s))
           /\ AllFit(s, 1, dbmClose(s)) /\ AllFit(s, 1, dbmFirstKey(s)) /\ AllFit(s, 1, SelectGDB(s))
           /\ AllFit(s, 1, InsertGDB(s)) /\ AllFit(s, 1, PutGDB(s))
           /\ AllFit(s, 2, dbmOpen(s)) /\ AllFit(s, 2, dbmFetch(s)) /\ AllFit(s, 2, dbmExists(s))
           /\ AllFit(s, 2, dbmDelete(s)) /\ AllFit(s, 2, dbmNextKey(s))
           /\ AllFit(s, 3, dbmInsert(s)) /\ AllFit(s, 3, dbmReplace(s))
<1>1. Plain(s, 0) BY Shapes DEF Plain
<1>2. /\ AllFit(s, 0, ListSupportedDBs(s))
  BY <1>1, Kinds DEF Plain, ListSupportedDBs
<1>3. Plain(s, 1) BY Shapes DEF Plain
<1>4. /\ AllFit(s, 1, dbmClose(s)) /\ AllFit(s, 1, dbmFirstKey(s)) /\ AllFit(s, 1, SelectGDB(s))
      /\ AllFit(s, 1, InsertGDB(s)) /\ AllFit(s, 1, PutGDB(s))
  BY <1>3, Kinds DEF Plain, dbmClose, dbmFirstKey, SelectGDB, InsertGDB, PutGDB
<1>5. Plain(s, 2) BY Shapes DEF Plain
<1>6. /\ AllFit(s, 2, dbmOpen(s)) /\ AllFit(s, 2, dbmFetch(s)) /\ AllFit(s, 2, dbmExists(s))
      /\ AllFit(s, 2, dbmDelete(s)) /\ AllFit(s, 2, dbmNextKey(s))
  BY <1>5, Kinds DEF Plain, dbmOpen, dbmFetch, dbmExists, dbmDelete, dbmNextKey
<1>7. Plain(s, 3) BY Shapes DEF Plain
<1>8. /\ AllFit(s, 3, dbmInsert(s)) /\ AllFit(s, 3, dbmReplace(s))
  BY <1>7, Kinds DEF Plain, dbmInsert, dbmReplace
<1> QED BY <1>2, <1>4, <1>6, <1>8

LEMMA RulesFit ==
    ASSUME NEW s \in Seq(Value)
    PROVE  /\ AllFit(s, 1, Not(s)) /\ AllFit(s, 2, Logic(s)) /\ AllFit(s, 2, Compare(s))
           /\ AllFit(s, 2, Add(s)) /\ AllFit(s, 2, Subtract(s)) /\ AllFit(s, 2, Times(s)) /\ AllFit(s, 2, Divide(s))
           /\ AllFit(s, 1, CalcInc(s)) /\ AllFit(s, 1, Neg(s))
<1>1. Plain(s, 1) BY Shapes DEF Plain
<1>2. Plain(s, 2) BY Shapes DEF Plain
<1>3. AllFit(s, 1, Not(s)) BY <1>1, Kinds DEF Plain, Not
<1>4. AllFit(s, 2, Logic(s)) /\ AllFit(s, 2, Compare(s)) BY <1>2, Kinds DEF Plain, Logic, Compare
<1>5. AllFit(s, 2, Add(s)) /\ AllFit(s, 2, Subtract(s)) /\ AllFit(s, 2, Times(s)) /\ AllFit(s, 2, Divide(s))
  BY CalcFits DEF Add, Subtract, Times, Divide
<1>6. ASSUME NEW v \in Value PROVE AllFit(s, 1, ToVariableOr(s, v))
  <2>1. {v} \subseteq Value OBVIOUS
  <2> QED BY <1>1, <2>1 DEF Plain, ToVariableOr
<1>7. "number" \in Value /\ "double" \in Value BY Kinds
<1>8. AllFit(s, 1, CalcInc(s)) /\ AllFit(s, 1, Neg(s)) BY <1>6, <1>7 DEF CalcInc, Neg
<1> QED BY <1>3, <1>4, <1>5, <1>8

-----------------------------------------------------------------------------
(* Rules and functions alike: some of the operands and the literals read    *)
(* with them are handed over, and what is left fits.                       *)
Takes(k, s) ==
    /\ stack' = s
    /\ \E named \in 0 .. MaxNamed :
           here' = [here EXCEPT !.named = named,
                                !.operands = SubSeq(@, 1, Len(@) - k) \o Above(s, Len(Lexed) - k)]
    /\ ClearIt' = LexedFlag
    /\ UNCHANGED <<LastToken, eval_mode, texts>>

Rewrites == \E n \in Nat : \E k \in Operands(n) : \E s \in Seq(Value) : Takes(k, s)
Reduced  == \E n \in Nat : \E k \in Operands(n) : \E s : Fits(Lexed \o Numbers(n - k), n, s) /\ Takes(k, s)

LEMMA MinIs ==
    ASSUME NEW a \in Nat, NEW b \in Nat
    PROVE  Min({a, b}) \in {a, b} /\ Min({a, b}) <= a /\ Min({a, b}) <= b
<1>1. \E x \in {a, b} : \A y \in {a, b} : x <= y
  <2>1. CASE a <= b BY <2>1
  <2>2. CASE b <= a BY <2>2
  <2> QED BY <2>1, <2>2
<1>2. Min({a, b}) \in {a, b} /\ \A y \in {a, b} : Min({a, b}) <= y BY <1>1 DEF Min
<1> QED BY <1>2

LEMMA NumbersAre == ASSUME NEW n \in Nat PROVE Numbers(n) \in Seq(Value) /\ Len(Numbers(n)) = n
<1>1. Numbers(n) \in [1 .. n -> Value] BY Kinds DEF Numbers
<1>2. Numbers(n) \in Seq(Value) BY <1>1
<1> QED BY <1>1, <1>2, LenProperties

LEMMA TypesAre ==
    ASSUME ExpressionsAssumption, TypeOK
    PROVE  /\ stack \in Seq(Value) /\ here \in Statement /\ here.operands \in Seq(Value) /\ here.named \in 0 .. MaxNamed
           /\ here.returns \in BOOLEAN /\ Len(here.operands) \in Nat
           /\ here = [operands |-> here.operands, named |-> here.named, returns |-> here.returns]
           /\ texts \in Seq([kind : {"function", "eval"}, kept : Seq(Value), here : Statement])
           /\ Lexed \in Seq(Value) /\ MaxNamed \in Nat \ {0} /\ ClearIt \in BOOLEAN /\ LexedFlag \in BOOLEAN
<1>1. /\ stack \in Seq(Value) /\ here \in Statement /\ ClearIt \in BOOLEAN
      /\ texts \in Seq([kind : {"function", "eval"}, kept : Seq(Value), here : Statement])
  BY DEF TypeOK
<1>2. /\ here.operands \in Seq(Value) /\ here.named \in 0 .. MaxNamed /\ here.returns \in BOOLEAN
      /\ here = [operands |-> here.operands, named |-> here.named, returns |-> here.returns]
  BY <1>1 DEF Statement
<1>3. << >> \in Seq(Value) OBVIOUS
<1>4. Lexed \in Seq(Value) BY <1>1, <1>3 DEF Lexed, ClearStack
<1>5. LexedFlag \in BOOLEAN BY <1>1 DEF LexedFlag
<1>6. MaxNamed \in Nat \ {0} BY DEF ExpressionsAssumption
<1>7. Len(here.operands) \in Nat BY <1>2, LenProperties
<1> QED BY <1>1, <1>2, <1>4, <1>5, <1>6, <1>7

LEMMA Handed ==
    ASSUME ExpressionsAssumption, TypeOK, NEW n \in Nat, NEW k \in Operands(n)
    PROVE  /\ k \in 0 .. n /\ k \in 0 .. Len(here.operands) /\ n - k \in Nat
           /\ Lexed \o Numbers(n - k) \in Seq(Value)
<1>1. Len(here.operands) \in Nat /\ Lexed \in Seq(Value) BY TypesAre
<1>2. k \in 0 .. Min({n, Len(here.operands)}) BY DEF Operands
<1>3. k \in 0 .. n /\ k \in 0 .. Len(here.operands)
  <2> DEFINE l == Len(here.operands)
  <2>1. l \in Nat /\ k \in 0 .. Min({n, l}) BY <1>1, <1>2
  <2> HIDE DEF l
  <2>2. Min({n, l}) \in {n, l} /\ Min({n, l}) <= n /\ Min({n, l}) <= l BY <2>1, MinIs
  <2>3. k \in 0 .. n /\ k \in 0 .. l BY <2>1, <2>2
  <2> QED BY <2>3 DEF l
<1>4. n - k \in Nat BY <1>3
<1>5. Numbers(n - k) \in Seq(Value)
  <2> DEFINE j == n - k
  <2>1. j \in Nat BY <1>4
  <2> HIDE DEF j
  <2>2. Numbers(j) \in Seq(Value) BY <2>1, NumbersAre
  <2> QED BY <2>2 DEF j
<1>6. Lexed \o Numbers(n - k) \in Seq(Value)
  <2> DEFINE a == Lexed
             b == Numbers(n - k)
  <2>1. a \in Seq(Value) /\ b \in Seq(Value) BY <1>1, <1>5
  <2> HIDE DEF a, b
  <2>2. a \o b \in Seq(Value) BY <2>1, ConcatProperties
  <2> QED BY <2>2 DEF a, b
<1> QED BY <1>3, <1>4, <1>6

LEMMA Arities == 3 \in Nat /\ 4 \in Nat /\ 5 \in Nat /\ 6 \in Nat /\ 8 \in Nat /\ 10 \in Nat
OBVIOUS

(* The conditions under which a rule hands over what its function takes.    *)
Handing ==
    /\ \A n \in Nat : \A k \in Operands(n) : Lexed \o Numbers(n - k) \in Seq(Value)
    /\ here.named \in 0 .. MaxNamed
    /\ here.named > 0 => here.named - 1 \in 0 .. MaxNamed

LEMMA HandingIs == ASSUME ExpressionsAssumption, TypeOK PROVE Handing
<1>1. here.named \in 0 .. MaxNamed /\ MaxNamed \in Nat BY TypesAre
<1> QED BY <1>1, Handed DEF Handing

LEMMA StringCallIs == ASSUME Handing, StringCall PROVE Reduced
<1>1. ASSUME Calls(1, StrLen) \/ Calls(1, StrVal) \/ Calls(1, GetType) \/ Calls(2, SetType) \/ Calls(1, IntVal) PROVE Reduced
  BY <1>1, Arities, StringsFit DEF Handing, Calls, Reduces, Reduced, Takes, AllFit
<1>2. ASSUME Calls(1, DoubleVal) \/ Calls(1, GoesOn) \/ Calls(2, Tokenizes) \/ Calls(1, StrToUpper) \/ Calls(1, StrToLower) PROVE Reduced
  BY <1>2, Arities, StringsFit DEF Handing, Calls, Reduces, Reduced, Takes, AllFit
<1>3. ASSUME Calls(2, StrStr) \/ Calls(2, StrrChr) \/ Calls(3, SubStr) \/ Calls(1, UrlEncode) \/ Calls(1, QuoteMeta) PROVE Reduced
  BY <1>3, Arities, StringsFit DEF Handing, Calls, Reduces, Reduced, Takes, AllFit
<1>4. ASSUME Calls(1, Ord) \/ Calls(1, UcFirst) \/ Calls(2, Sprintf) \/ Calls(1, Chr) \/ Calls(1, HtmlSpecialChars) PROVE Reduced
  BY <1>4, Arities, StringsFit DEF Handing, Calls, Reduces, Reduced, Takes, AllFit
<1>5. ASSUME Calls(1, CryptNew) \/ Calls(2, CryptSalt) \/ Calls(1, Md5) \/ Calls(1, goombencrypt) \/ Calls(2, RegMatch) PROVE Reduced
  BY <1>5, Arities, StringsFit DEF Handing, Calls, Reduces, Reduced, Takes, AllFit
<1>6. ASSUME Calls(2, RegSearch) \/ Calls(3, RegReplace) PROVE Reduced
  BY <1>6, Arities, StringsFit DEF Handing, Calls, Reduces, Reduced, Takes, AllFit
<1> QED BY <1>1, <1>2, <1>3, <1>4, <1>5, <1>6 DEF StringCall

LEMMA NumberCallIs == ASSUME Handing, NumberCall PROVE Reduced
<1>1. ASSUME Calls(1, BinDec) \/ Calls(1, DecBin) \/ Calls(1, DecHex) \/ Calls(1, HexDec) \/ Calls(1, OctDec) PROVE Reduced
  BY <1>1, Arities, NumbersFit DEF Handing, Calls, Reduces, Reduced, Takes, AllFit
<1>2. ASSUME Calls(1, DecOct) \/ Calls(1, Abs) \/ Calls(1, Exp) \/ Calls(1, mathLog) \/ Calls(1, mathLog10) PROVE Reduced
  BY <1>2, Arities, NumbersFit DEF Handing, Calls, Reduces, Reduced, Takes, AllFit
<1>3. ASSUME Calls(1, Sin) \/ Calls(1, Cos) \/ Calls(1, Tan) \/ Calls(1, Sqrt) \/ Calls(1, Srand) PROVE Reduced
  BY <1>3, Arities, NumbersFit DEF Handing, Calls, Reduces, Reduced, Takes, AllFit
<1>4. ASSUME Calls(0, Rand) \/ Calls(0, GetRandMax) \/ Calls(0, MicroTime) \/ Calls(0, UnixTime) \/ Calls(1, DateNow) PROVE Reduced
  BY <1>4, Arities, NumbersFit DEF Handing, Calls, Reduces, Reduced, Takes, AllFit
<1>5. ASSUME Calls(2, DateOf) PROVE Reduced
  BY <1>5, Arities, NumbersFit DEF Handing, Calls, Reduces, Reduced, Takes, AllFit
<1> QED BY <1>1, <1>2, <1>3, <1>4, <1>5 DEF NumberCall

LEMMA VariableCallIs == ASSUME Handing, VariableCall PROVE Reduced
<1>1. ASSUME Calls(0, IsSet) \/ Calls(0, Reset) \/ Calls(0, End) \/ Calls(0, Key) \/ Calls(0, NextItem) PROVE Reduced
  BY <1>1, Arities, VariablesFit DEF Handing, Calls, Reduces, Reduced, Takes, AllFit
<1>2. ASSUME Calls(0, Prev) \/ Calls(1, Count) \/ Calls(1, ArrayMax) \/ Calls(1, ArrayMin) \/ Calls(1, Sort) PROVE Reduced
  BY <1>2, Arities, VariablesFit DEF Handing, Calls, Reduces, Reduced, Takes, AllFit
<1>3. ASSUME Calls(1, SecureVar) \/ Calls(1, PutEnv) \/ Calls(1, GetEnv) PROVE Reduced
  BY <1>3, Arities, VariablesFit DEF Handing, Calls, Reduces, Reduced, Takes, AllFit
<1> QED BY <1>1, <1>2, <1>3 DEF VariableCall

LEMMA FileCallIs == ASSUME Handing, FileCall PROVE Reduced
<1>1. ASSUME Calls(1, FileFunc) \/ Calls(2, TempNam) \/ Calls(1, Unlink) \/ Calls(2, Rename) \/ Calls(1, Sleep) PROVE Reduced
  BY <1>1, Arities, FilesFit DEF Handing, Calls, Reduces, Reduced, Takes, AllFit
<1>2. ASSUME Calls(1, USleep) \/ Calls(2, Fopen) \/ Calls(2, Popen) \/ Calls(1, Fclose) \/ Calls(1, Pclose) PROVE Reduced
  BY <1>2, Arities, FilesFit DEF Handing, Calls, Reduces, Reduced, Takes, AllFit
<1>3. ASSUME Calls(1, Feof) \/ Calls(2, Fgets) \/ Calls(2, Fgetss) \/ Calls(2, Fputs) \/ Calls(1, Rewind) PROVE Reduced
  BY <1>3, Arities, FilesFit DEF Handing, Calls, Reduces, Reduced, Takes, AllFit
<1>4. ASSUME Calls(1, Ftell) \/ Calls(2, Fseek) \/ Calls(2, ChMod) \/ Calls(2, ChOwn) \/ Calls(2, ChGrp) PROVE Reduced
  BY <1>4, Arities, FilesFit DEF Handing, Calls, Reduces, Reduced, Takes, AllFit
<1>5. ASSUME Calls(2, MkDir) \/ Calls(1, File) \/ Calls(2, FSockOpen) \/ Calls(1, cremove) \/ Calls(1, OpenDir) PROVE Reduced
  BY <1>5, Arities, FilesFit DEF Handing, Calls, Reduces, Reduced, Takes, AllFit
<1>6. ASSUME Calls(0, CloseDir) \/ Calls(1, ChDir) \/ Calls(0, RewindDir) \/ Calls(0, ReadDir) PROVE Reduced
  BY <1>6, Arities, FilesFit DEF Handing, Calls, Reduces, Reduced, Takes, AllFit
<1> QED BY <1>1, <1>2, <1>3, <1>4, <1>5, <1>6 DEF FileCall

LEMMA SystemCallIs == ASSUME Handing, SystemCall PROVE Reduced
<1>1. ASSUME Calls(1, Exec) \/ Calls(1, EscapeShellCmd) \/ Calls(1, GetHostByAddr) \/ Calls(1, GetHostByName) \/ Calls(0, Info) PROVE Reduced
  BY <1>1, Arities, SystemsFit DEF Handing, Calls, Reduces, Reduced, Takes, AllFit
<1>2. ASSUME Calls(1, SetErrorReporting) \/ Calls(1, SetLogging) \/ Calls(1, SetShowInfo) \/ Calls(0, GetAccDir) \/ Calls(0, GetLogDir) PROVE Reduced
  BY <1>2, Arities, SystemsFit DEF Handing, Calls, Reduces, Reduced, Takes, AllFit
<1>3. ASSUME Calls(0, GetLogFile) \/ Calls(0, GetLastHost) \/ Calls(0, GetLastRef) \/ Calls(0, GetLastEmail) \/ Calls(0, GetLastBrowser) PROVE Reduced
  BY <1>3, Arities, SystemsFit DEF Handing, Calls, Reduces, Reduced, Takes, AllFit
<1>4. ASSUME Calls(0, GetLastAccess) \/ Calls(0, GetStartLogging) \/ Calls(0, GetLastMod) \/ Calls(0, GetTotal) \/ Calls(0, GetToday) PROVE Reduced
  BY <1>4, Arities, SystemsFit DEF Handing, Calls, Reduces, Reduced, Takes, AllFit
<1>5. ASSUME Calls(0, GetMyUid) \/ Calls(0, GetMyInode) \/ Calls(0, GetMyPid) \/ Calls(0, goombaver) PROVE Reduced
  BY <1>5, Arities, SystemsFit DEF Handing, Calls, Reduces, Reduced, Takes, AllFit
<1> QED BY <1>1, <1>2, <1>3, <1>4, <1>5 DEF SystemCall

LEMMA ImageCallIs == ASSUME Handing, ImageCall PROVE Reduced
<1>1. ASSUME Calls(2, ImageCreate) \/ Calls(1, ImageCreateFromGif) \/ Calls(1, ImageDestroy) \/ Calls(4, ImageColorAllocate) \/ Calls(1, GifToPage) PROVE Reduced
  BY <1>1, Arities, ImagesFit DEF Handing, Calls, Reduces, Reduced, Takes, AllFit
<1>2. ASSUME Calls(2, GifToFile) \/ Calls(4, ImageSetPixel) \/ Calls(6, ImageLine) \/ Calls(6, ImageRectangle) \/ Calls(6, ImageFilledRectangle) PROVE Reduced
  BY <1>2, Arities, ImagesFit DEF Handing, Calls, Reduces, Reduced, Takes, AllFit
<1>3. ASSUME Calls(8, ImageArc) \/ Calls(5, ImageFillToBorder) \/ Calls(4, ImageFill) \/ Calls(2, ImageColorTransparent) \/ Calls(2, ImageInterlace) PROVE Reduced
  BY <1>3, Arities, ImagesFit DEF Handing, Calls, Reduces, Reduced, Takes, AllFit
<1>4. ASSUME Calls(6, ImageChar) \/ Calls(4, ImagePolygon) \/ Calls(10, ImageCopyResized) PROVE Reduced
  BY <1>4, Arities, ImagesFit DEF Handing, Calls, Reduces, Reduced, Takes, AllFit
<1> QED BY <1>1, <1>2, <1>3, <1>4 DEF ImageCall

LEMMA MsqlCallIs == ASSUME Handing, MsqlCall PROVE Reduced
<1>1. ASSUME Calls(2, Msql) \/ Calls(1, MsqlConnect) \/ Calls(3, MsqlResult) \/ Calls(1, MsqlFreeResult) \/ Calls(1, MsqlNumRows) PROVE Reduced
  BY <1>1, Arities, MsqlsFit DEF Handing, Calls, Reduces, Reduced, Takes, AllFit
<1>2. ASSUME Calls(1, MsqlNumFields) \/ Calls(2, MsqlField) \/ Calls(1, MsqlRegCase) \/ Calls(2, MsqlTableName) \/ Calls(2, MsqlDBName) PROVE Reduced
  BY <1>2, Arities, MsqlsFit DEF Handing, Calls, Reduces, Reduced, Takes, AllFit
<1>3. ASSUME Calls(1, MsqlListTables) \/ Calls(0, MsqlListDBs) \/ Calls(1, MsqlCreateDB) \/ Calls(2, MsqlDropDB) \/ Calls(1, MySqlQuery) PROVE Reduced
  BY <1>3, Arities, MsqlsFit DEF Handing, Calls, Reduces, Reduced, Takes, AllFit
<1> QED BY <1>1, <1>2, <1>3 DEF MsqlCall

LEMMA PostgresCallIs == ASSUME Handing, PostgresCall PROVE Reduced
<1>1. ASSUME Calls(2, PGexec) \/ Calls(3, PG_result) \/ Calls(1, PGfreeResult) \/ Calls(5, PGconnect) \/ Calls(1, PGclose) PROVE Reduced
  BY <1>1, Arities, PostgresFit DEF Handing, Calls, Reduces, Reduced, Takes, AllFit
<1>2. ASSUME Calls(1, PGnumRows) \/ Calls(1, PGnumFields) \/ Calls(2, PGfieldName) \/ Calls(2, PGfieldType) \/ Calls(2, PGfieldNum) PROVE Reduced
  BY <1>2, Arities, PostgresFit DEF Handing, Calls, Reduces, Reduced, Takes, AllFit
<1>3. ASSUME Calls(3, PGfieldPrtLen) \/ Calls(2, PGfieldSize) \/ Calls(1, PGhost) \/ Calls(1, PGdbName) \/ Calls(1, PGoptions) PROVE Reduced
  BY <1>3, Arities, PostgresFit DEF Handing, Calls, Reduces, Reduced, Takes, AllFit
<1>4. ASSUME Calls(1, PGport) \/ Calls(1, PGtty) \/ Calls(0, PGgetlastoid) PROVE Reduced
  BY <1>4, Arities, PostgresFit DEF Handing, Calls, Reduces, Reduced, Takes, AllFit
<1> QED BY <1>1, <1>2, <1>3, <1>4 DEF PostgresCall

LEMMA DbmCallIs == ASSUME Handing, DbmCall PROVE Reduced
<1>1. ASSUME Calls(2, dbmOpen) \/ Calls(1, dbmClose) \/ Calls(3, dbmInsert) \/ Calls(3, dbmReplace) \/ Calls(2, dbmFetch) PROVE Reduced
  BY <1>1, Arities, DbmsFit DEF Handing, Calls, Reduces, Reduced, Takes, AllFit
<1>2. ASSUME Calls(2, dbmExists) \/ Calls(2, dbmDelete) \/ Calls(1, dbmFirstKey) \/ Calls(2, dbmNextKey) \/ Calls(0, ListSupportedDBs) PROVE Reduced
  BY <1>2, Arities, DbmsFit DEF Handing, Calls, Reduces, Reduced, Takes, AllFit
<1>3. ASSUME Calls(1, SelectGDB) \/ Calls(1, InsertGDB) \/ Calls(1, PutGDB) PROVE Reduced
  BY <1>3, Arities, DbmsFit DEF Handing, Calls, Reduces, Reduced, Takes, AllFit
<1> QED BY <1>1, <1>2, <1>3 DEF DbmCall

LEMMA LiteralIs == ASSUME Handing, Literal PROVE Reduced
BY LiteralsFit DEF Handing, Literal, Rule, Reduces, Reduced, Takes, AllFit

LEMMA ConditionIs == ASSUME Handing, Condition PROVE Reduced
BY RulesFit DEF Handing, Condition, Rule, Reduces, Reduced, Takes, AllFit

LEMMA OperatorIs == ASSUME Handing, Operator PROVE Reduced
<1>1. ASSUME Rule(2, Add) \/ Rule(2, Subtract) \/ Rule(2, Times) PROVE Reduced
  BY <1>1, RulesFit DEF Handing, Rule, Reduces, Reduced, Takes, AllFit
<1>2. ASSUME Rule(2, Divide) \/ Rule(1, CalcInc) \/ Rule(1, Neg) PROVE Reduced
  BY <1>2, RulesFit DEF Handing, Rule, Reduces, Reduced, Takes, AllFit
<1> QED BY <1>1, <1>2 DEF Operator

(* All but mktime, which pops a value more than it is handed.               *)
Applies == \/ Literal \/ Condition \/ Operator \/ StringCall \/ NumberCall \/ VariableCall \/ FileCall \/ SystemCall
           \/ ImageCall \/ MsqlCall \/ PostgresCall \/ DbmCall

LEMMA AppliesIs == ASSUME Handing, Applies PROVE Reduced
BY LiteralIs, ConditionIs, OperatorIs, StringCallIs, NumberCallIs, VariableCallIs, FileCallIs, SystemCallIs,
   ImageCallIs, MsqlCallIs, PostgresCallIs, DbmCallIs DEF Applies

LEMMA MkTimeLeaves ==
    ASSUME NEW s \in Seq(Value), NEW n \in Nat PROVE \A r \in MkTime(s, n) : r \in Seq(Value)
<1>1. n + 1 \in Nat BY SMT
<1>2. AllFit(s, n + 1, Answers(s, n + 1, Number)) BY <1>1, Shapes, Kinds
<1> QED BY <1>2 DEF MkTime, AllFit, Fits

LEMMA MkTimeIs == ASSUME Handing, MkTimeCall PROVE Rewrites
<1>1. ASSUME Calls(1, MkTime1) PROVE Rewrites BY <1>1, MkTimeLeaves DEF Handing, Calls, Reduces, Rewrites, Takes, MkTime1
<1>2. ASSUME Calls(2, MkTime2) PROVE Rewrites BY <1>2, MkTimeLeaves DEF Handing, Calls, Reduces, Rewrites, Takes, MkTime2
<1>3. ASSUME Calls(6, MkTime6) PROVE Rewrites BY <1>3, MkTimeLeaves DEF Handing, Calls, Reduces, Rewrites, Takes, MkTime6
<1> QED BY <1>1, <1>2, <1>3 DEF MkTimeCall

LEMMA RulesRewrite ==
    ASSUME ExpressionsAssumption, TypeOK, Literal \/ Condition \/ Operator \/ cmd_table PROVE Rewrites
<1>1. Handing BY HandingIs
<1>2. Reduced => Rewrites BY DEF Reduced, Rewrites, Fits
<1>3. Applies \/ MkTimeCall BY DEF Applies, cmd_table
<1> QED BY <1>1, <1>2, <1>3, AppliesIs, MkTimeIs

-----------------------------------------------------------------------------
(* No step leaves the types, whatever the page avoids.                      *)
TextRecord == [kind : {"function", "eval"}, kept : Seq(Value), here : Statement]

LEMMA StatementIs ==
    ASSUME NEW o \in Seq(Value), NEW n \in 0 .. MaxNamed, NEW r \in BOOLEAN
    PROVE  [operands |-> o, named |-> n, returns |-> r] \in Statement
BY DEF Statement

LEMMA Changed ==
    ASSUME NEW h \in Statement, NEW n, NEW c
    PROVE  [h EXCEPT !.named = n, !.operands = c] = [operands |-> c, named |-> n, returns |-> h.returns]
<1>1. h = [operands |-> h.operands, named |-> h.named, returns |-> h.returns] BY DEF Statement
<1> DEFINE g == [h EXCEPT !.named = n]
<1>2. g = [operands |-> h.operands, named |-> n, returns |-> h.returns] BY <1>1
<1>3. [g EXCEPT !.operands = c] = [operands |-> c, named |-> n, returns |-> h.returns]
  <2> HIDE DEF g
  <2> QED BY <1>2
<1>4. [h EXCEPT !.named = n, !.operands = c] = [g EXCEPT !.operands = c] BY Zenon
<1> QED BY <1>3, <1>4

LEMMA Trimmed ==
    ASSUME NEW h \in Statement, NEW k
    PROVE  [h EXCEPT !.operands = SubSeq(@, 1, Len(@) - k)] =
               [operands |-> SubSeq(h.operands, 1, Len(h.operands) - k), named |-> h.named, returns |-> h.returns]
<1>1. h = [operands |-> h.operands, named |-> h.named, returns |-> h.returns] BY DEF Statement
<1> DEFINE p == SubSeq(h.operands, 1, Len(h.operands) - k)
<1>2. [h EXCEPT !.operands = SubSeq(@, 1, Len(@) - k)] = [h EXCEPT !.operands = p] OBVIOUS
<1> HIDE DEF p
<1>3. [h EXCEPT !.operands = p] = [operands |-> p, named |-> h.named, returns |-> h.returns] BY <1>1
<1> QED BY <1>2, <1>3 DEF p

LEMMA TypeTakes ==
    ASSUME ExpressionsAssumption, TypeOK, Rewrites PROVE TypeOK'
<1>0. PICK n \in Nat : \E k \in Operands(n) : \E s \in Seq(Value) : Takes(k, s) BY DEF Rewrites
<1>1. PICK k \in Operands(n), s \in Seq(Value) : Takes(k, s) BY <1>0
<1>2. PICK named \in 0 .. MaxNamed :
          here' = [here EXCEPT !.named = named, !.operands = SubSeq(@, 1, Len(@) - k) \o Above(s, Len(Lexed) - k)]
  BY <1>1 DEF Takes
<1> DEFINE o == here.operands
           p == SubSeq(o, 1, Len(o) - k)
           b == Above(s, Len(Lexed) - k)
<1>3. o \in Seq(Value) /\ Len(o) \in Nat /\ here.returns \in BOOLEAN /\ LexedFlag \in BOOLEAN
      /\ here = [operands |-> o, named |-> here.named, returns |-> here.returns] /\ Lexed \in Seq(Value)
  BY TypesAre
<1>4. k \in 0 .. Len(o) BY <1>1, Handed
<1>5. here' = [operands |-> p \o b, named |-> named, returns |-> here.returns]
  <2>1. here' = [here EXCEPT !.named = named, !.operands = SubSeq(@, 1, Len(@) - k) \o b] BY <1>2
  <2>2. here \in Statement BY TypesAre
  <2> HIDE DEF b
  <2>3. here' = [here EXCEPT !.named = named, !.operands = p \o b] BY <2>1
  <2> DEFINE c == p \o b
             h == here
  <2>4. here' = [h EXCEPT !.named = named, !.operands = c] /\ h \in Statement BY <2>2, <2>3
  <2> HIDE DEF c, h
  <2>5. here' = [operands |-> c, named |-> named, returns |-> h.returns] BY <2>4, Changed
  <2> QED BY <2>5 DEF c, h
<1>6. p \in Seq(Value)
  <2> DEFINE m == Len(o) - k
  <2>1. m \in Int /\ m <= Len(o) BY <1>3, <1>4
  <2> HIDE DEF m, o
  <2>2. SubSeq(o, 1, m) \in Seq(Value) BY <1>3, <2>1, SliceIs
  <2> QED BY <2>2 DEF m
<1>7. b \in Seq(Value)
  <2> DEFINE d == Len(Lexed) - k
             m == IF d < 0 THEN 1 ELSE d + 1
  <2>1. d \in Int BY <1>3, <1>4, LenProperties
  <2> HIDE DEF d
  <2>2. m \in Nat \ {0} BY <2>1
  <2>3. Len(s) \in Int /\ Len(s) <= Len(s) BY LenProperties
  <2> HIDE DEF m
  <2>4. SubSeq(s, m, Len(s)) \in Seq(Value) BY <2>2, <2>3, SliceIs
  <2> QED BY <2>4 DEF m, d, Above
<1>8. p \o b \in Seq(Value)
  <2> HIDE DEF p, b
  <2> QED BY <1>6, <1>7, ConcatProperties
<1>9. here' \in Statement
  <2> DEFINE q == p \o b
  <2>1. q \in Seq(Value) /\ here' = [operands |-> q, named |-> named, returns |-> here.returns] BY <1>5, <1>8
  <2> HIDE DEF q
  <2> QED BY <1>3, <2>1, StatementIs
<1>10. stack' \in Seq(Value) /\ ClearIt' \in BOOLEAN /\ UNCHANGED <<LastToken, eval_mode, texts>> BY <1>1, <1>3 DEF Takes
<1> QED BY <1>9, <1>10 DEF TypeOK

LEMMA FreshIs == Fresh \in Statement /\ Fresh.operands = << >> /\ Fresh.named = 0 /\ Fresh.returns = FALSE
<1>1. << >> \in Seq(Value) /\ 0 \in 0 .. MaxNamed BY ExpressionsAssumption DEF ExpressionsAssumption
<1> QED BY <1>1, StatementIs DEF Fresh

(* A statement that ends has its values taken off.                         *)
EndsIn(n) ==
    /\ ~here.returns /\ here.named = 0 /\ Len(here.operands) <= n
    /\ stack' = Rest(Lexed \o Numbers(n - Len(here.operands)), n)
    /\ here' = Fresh /\ ClearIt' = TRUE
    /\ UNCHANGED <<LastToken, eval_mode, texts>>

LEMMA StatementEndsIn ==
    ASSUME StatementEnds PROVE \E n \in Nat : EndsIn(n)
<1>1. ASSUME Ends(1, Assigns) \/ Ends(1, Echo1) \/ Ends(1, Include) \/ Ends(1, Header) PROVE EndsIn(1)
  BY <1>1 DEF Ends, EndsIn, Assigns, SetVar, Echo1, Echo, Include, Header, Drops
<1>2. ASSUME Ends(2, AssignsItem) \/ Ends(2, Echo2) PROVE EndsIn(2)
  BY <1>2 DEF Ends, EndsIn, AssignsItem, SetVar, Echo2, Echo, Drops
<1>3. ASSUME Ends(5, Echo5) PROVE EndsIn(5)
  BY <1>3 DEF Ends, EndsIn, Echo5, Echo, Drops
<1> QED BY <1>1, <1>2, <1>3, Arities DEF StatementEnds

LEMMA EndsTypes == ASSUME ExpressionsAssumption, TypeOK, NEW n \in Nat, EndsIn(n) PROVE TypeOK'
<1> DEFINE l == Len(here.operands)
           g == Lexed \o Numbers(n - l)
<1>1. l \in Nat /\ l <= n /\ Lexed \in Seq(Value) BY TypesAre DEF EndsIn
<1> HIDE DEF l
<1>2. g \in Seq(Value)
  <2> DEFINE j == n - l
             a == Lexed
  <2>1. j \in Nat /\ a \in Seq(Value) BY <1>1
  <2> HIDE DEF j, a
  <2>2. Numbers(j) \in Seq(Value) BY <2>1, NumbersAre
  <2>3. a \o Numbers(j) \in Seq(Value) BY <2>1, <2>2, ConcatProperties
  <2> QED BY <2>3 DEF j, a
<1>3. stack' = Rest(g, n) BY DEF EndsIn, l
<1> HIDE DEF g
<1>4. stack' \in Seq(Value) BY <1>2, <1>3, RestIs
<1>5. here' \in Statement /\ ClearIt' \in BOOLEAN /\ UNCHANGED <<LastToken, eval_mode, texts>> BY FreshIs DEF EndsIn
<1> QED BY <1>4, <1>5 DEF TypeOK

LEMMA LookupTypes == ASSUME ExpressionsAssumption, TypeOK, CommandLookup \/ ReturnLookup PROVE TypeOK'
<1>1. << >> \in Seq(Value) OBVIOUS
<1>2. /\ stack \in Seq(Value) /\ ClearIt \in BOOLEAN /\ here.operands \in Seq(Value) /\ here.named \in 0 .. MaxNamed
      /\ here.returns \in BOOLEAN /\ here = [operands |-> here.operands, named |-> here.named, returns |-> here.returns]
      /\ MaxNamed \in Nat
  BY TypesAre
<1>3. stack' \in Seq(Value) /\ ClearIt' \in BOOLEAN /\ LastToken' \in {"return", "another"} /\ UNCHANGED <<eval_mode, texts>>
  BY <1>1, <1>2 DEF CommandLookup, ReturnLookup, LooksUp, ClearStack
<1>4. here' \in Statement
  <2>1. CASE CommandLookup
    <3>1. here.named < MaxNamed /\ here' = [here EXCEPT !.named = @ + 1] BY <2>1 DEF CommandLookup
    <3>2. here' = [operands |-> here.operands, named |-> here.named + 1, returns |-> here.returns] BY <1>2, <3>1
    <3>3. here.named + 1 \in 0 .. MaxNamed BY <1>2, <3>1
    <3> QED BY <1>2, <3>2, <3>3, StatementIs
  <2>2. CASE ReturnLookup
    <3>1. here' = [here EXCEPT !.returns = TRUE] BY <2>2 DEF ReturnLookup
    <3>2. here' = [operands |-> here.operands, named |-> here.named, returns |-> TRUE] BY <1>2, <3>1
    <3> QED BY <1>2, <3>2, StatementIs
  <2> QED BY <2>1, <2>2
<1> QED BY <1>3, <1>4 DEF TypeOK

(* A text that is entered, in parts.                                       *)
LEMMA EnterTypes ==
    ASSUME ExpressionsAssumption, TypeOK, NEW kind \in {"function", "eval"}, NEW n \in Nat, NEW m \in Nat,
           NEW rest \in Statement, Enters(kind, n, m, rest), eval_mode' \in BOOLEAN
    PROVE  TypeOK'
<1>1. PICK k \in Operands(n) :
          /\ stack' = Rest(Lexed \o Numbers(n - k), m)
          /\ texts' = Append(texts, [kind |-> kind, kept |-> Rest(Lexed, k),
                                     here |-> [rest EXCEPT !.operands = SubSeq(@, 1, Len(@) - k)]])
          /\ here' = Fresh /\ ClearIt' = LexedFlag /\ UNCHANGED LastToken
  BY DEF Enters
<1>2. k \in 0 .. n /\ n - k \in Nat /\ Lexed \o Numbers(n - k) \in Seq(Value) /\ Lexed \in Seq(Value) /\ LexedFlag \in BOOLEAN
  BY Handed, TypesAre
<1>3. stack' \in Seq(Value)
  <2> DEFINE g == Lexed \o Numbers(n - k)
  <2>1. g \in Seq(Value) /\ stack' = Rest(g, m) BY <1>1, <1>2
  <2> HIDE DEF g
  <2> QED BY <2>1, RestIs
<1>4. Rest(Lexed, k) \in Seq(Value)
  <2> DEFINE g == Lexed
  <2>1. g \in Seq(Value) /\ k \in Nat BY <1>2
  <2> HIDE DEF g
  <2>2. Rest(g, k) \in Seq(Value) BY <2>1, RestIs
  <2> QED BY <2>2 DEF g
<1> DEFINE o == rest.operands
           p == SubSeq(o, 1, Len(o) - k)
           h == [rest EXCEPT !.operands = SubSeq(@, 1, Len(@) - k)]
           t == [kind |-> kind, kept |-> Rest(Lexed, k), here |-> h]
<1>5. o \in Seq(Value) /\ rest = [operands |-> o, named |-> rest.named, returns |-> rest.returns]
      /\ rest.named \in 0 .. MaxNamed /\ rest.returns \in BOOLEAN
  BY DEF Statement
<1>6. p \in Seq(Value)
  <2> DEFINE d == Len(o) - k
  <2>1. d \in Int /\ d <= Len(o) BY <1>2, <1>5, LenProperties
  <2> HIDE DEF d, o
  <2>2. SubSeq(o, 1, d) \in Seq(Value) BY <1>5, <2>1, SliceIs
  <2> QED BY <2>2 DEF d
<1>7. h = [operands |-> p, named |-> rest.named, returns |-> rest.returns]
  <2> QED BY Trimmed
<1> HIDE DEF p, h
<1>8. h \in Statement BY <1>5, <1>6, <1>7, StatementIs
<1>9. t \in TextRecord BY <1>4, <1>8 DEF TextRecord
<1>10. texts' \in Seq(TextRecord)
  <2>1. texts \in Seq(TextRecord) /\ texts' = Append(texts, t) BY <1>1 DEF TypeOK, TextRecord, h
  <2> HIDE DEF t
  <2> QED BY <1>9, <2>1, AppendProperties
<1>11. here' \in Statement /\ ClearIt' \in BOOLEAN /\ UNCHANGED LastToken BY <1>1, <1>2, FreshIs
<1> QED BY <1>3, <1>10, <1>11 DEF TypeOK, TextRecord

(* A text that was entered is taken off again.                              *)
LEMMA PushPop ==
    ASSUME NEW S, NEW s \in Seq(S), NEW e \in S
    PROVE  /\ Append(s, e) \in Seq(S) /\ Append(s, e) # << >> /\ Len(Append(s, e)) = Len(s) + 1
           /\ Front(Append(s, e)) = s /\ Last(Append(s, e)) = e
<1> DEFINE t == Append(s, e)
<1>1. t \in Seq(S) /\ t # << >> /\ Len(t) = Len(s) + 1 BY AppendProperties
<1>2. Last(t) = e BY AppendProperties DEF Last
<1>3. Front(t) = SubSeq(t, 1, Len(s)) BY <1>1, LenProperties DEF Front
<1>4. SubSeq(t, 1, Len(s)) = s BY <1>1, SMT
<1> QED BY <1>1, <1>2, <1>3, <1>4

LEMMA PopPush ==
    ASSUME NEW S, NEW s \in Seq(S), s # << >>
    PROVE  /\ Front(s) \in Seq(S) /\ Last(s) \in S /\ Len(s) \in Nat \ {0}
           /\ Len(Front(s)) = Len(s) - 1 /\ s = Append(Front(s), Last(s)) /\ Last(s) = s[Len(s)]
           /\ \A i \in 1 .. Len(s) - 1 : Front(s)[i] = s[i]
<1>1. PICK t \in Seq(S), e \in S : s = Append(t, e) BY SequenceEmptyOrAppend
<1>2. Front(s) = t /\ Last(s) = e BY <1>1, PushPop
<1>3. Len(t) \in Nat /\ Len(s) = Len(t) + 1 /\ \A i \in 1 .. Len(t) : s[i] = t[i]
  BY <1>1, AppendProperties, LenProperties
<1> QED BY <1>1, <1>2, <1>3 DEF Last

LEMMA AboveIs == ASSUME NEW s \in Seq(Value), NEW d \in Int PROVE Above(s, d) \in Seq(Value)
<1> DEFINE m == IF d < 0 THEN 1 ELSE d + 1
<1>1. m \in Nat \ {0} OBVIOUS
<1>2. Len(s) \in Int /\ Len(s) <= Len(s) BY LenProperties
<1> HIDE DEF m
<1>3. SubSeq(s, m, Len(s)) \in Seq(Value) BY <1>1, <1>2, SliceIs
<1> QED BY <1>3 DEF m, Above

(* The caller's statement, with the values it finds above its own.          *)
LEMMA PopTypes ==
    ASSUME TypeOK, FilePop
    PROVE  /\ texts \in Seq(TextRecord) /\ Last(texts) \in TextRecord /\ Front(texts) \in Seq(TextRecord)
           /\ Last(texts).kept \in Seq(Value) /\ Last(texts).here \in Statement
           /\ Last(texts).here.operands \in Seq(Value) /\ Above(stack, Len(Last(texts).kept)) \in Seq(Value)
           /\ here'.operands = Last(texts).here.operands \o Above(stack, Len(Last(texts).kept))
           /\ here' \in Statement
<1>1. texts \in Seq(TextRecord) /\ texts # << >> /\ stack \in Seq(Value) BY DEF TypeOK, TextRecord, FilePop
<1>2. Last(texts) \in TextRecord /\ Front(texts) \in Seq(TextRecord) BY <1>1, PopPush
<1> DEFINE h == Last(texts).here
           kept == Last(texts).kept
           b == Above(stack, Len(kept))
           o == h.operands
           v == o \o b
<1>3. kept \in Seq(Value) /\ h \in Statement BY <1>2 DEF TextRecord
<1>4. here' = [h EXCEPT !.operands = v] BY DEF FilePop
<1> HIDE DEF kept
<1>5. b \in Seq(Value)
  <2> DEFINE d == Len(kept)
  <2>1. d \in Int BY <1>3, LenProperties
  <2> HIDE DEF d
  <2>2. Above(stack, d) \in Seq(Value) BY <1>1, <2>1, AboveIs
  <2> QED BY <2>2 DEF d
<1> HIDE DEF h, b
<1>6. h = [operands |-> o, named |-> h.named, returns |-> h.returns] /\ o \in Seq(Value)
      /\ h.named \in 0 .. MaxNamed /\ h.returns \in BOOLEAN
  BY <1>3 DEF Statement
<1>7. v \in Seq(Value) BY <1>5, <1>6, ConcatProperties
<1> HIDE DEF v
<1>8. here' = [operands |-> v, named |-> h.named, returns |-> h.returns] BY <1>4, <1>6
<1>9. here' \in Statement BY <1>6, <1>7, <1>8, StatementIs
<1>10. here'.operands = o \o b BY <1>8 DEF v
<1> QED BY <1>1, <1>2, <1>3, <1>5, <1>6, <1>9, <1>10 DEF h, b, kept

LEMMA TypeNext == ASSUME ExpressionsAssumption, TypeOK, [Next]_vars PROVE TypeOK'
<1>0. TypeOK BY DEF TypeOK
<1>1. CASE Literal \/ Condition \/ Operator \/ cmd_table BY <1>1, RulesRewrite, TypeTakes
<1>2. CASE CommandLookup \/ ReturnLookup BY <1>2, LookupTypes
<1>3. CASE StatementEnds
  <2>1. PICK n \in Nat : EndsIn(n) BY <1>3, StatementEndsIn
  <2> QED BY <2>1, EndsTypes
<1>4. CASE ExpressionEnds
  <2>1. stack' \in Seq(Value) BY <1>4, TypesAre DEF ExpressionEnds
  <2>2. here' \in Statement BY <1>4, FreshIs DEF ExpressionEnds
  <2> QED BY <1>4, <2>1, <2>2 DEF TypeOK, ExpressionEnds
<1>5. CASE SkipsText BY <1>5 DEF TypeOK, SkipsText
<1>6. ASSUME NEW a \in 0 .. 2, NEW p \in 0 .. 2, RunFunc(a, p) PROVE TypeOK'
  <2>0. Enters("function", a, p, here) /\ eval_mode' = eval_mode BY <1>6, Zenon DEF RunFunc
  <2>1. a \in Nat /\ p \in Nat OBVIOUS
  <2>2. here \in Statement /\ eval_mode' \in BOOLEAN BY <2>0 DEF TypeOK
  <2> QED BY <2>0, <2>1, <2>2, EnterTypes
<1>7. CASE EvalText
  <2> DEFINE rest == [here EXCEPT !.named = @ - 1]
  <2>1. Enters("eval", 1, 1, rest) /\ eval_mode' \in BOOLEAN /\ here.named > 0 BY <1>7 DEF EvalText
  <2>2. here.operands \in Seq(Value) /\ here.returns \in BOOLEAN /\ here.named - 1 \in 0 .. MaxNamed
        /\ here = [operands |-> here.operands, named |-> here.named, returns |-> here.returns]
    BY <2>1, TypesAre
  <2>3. rest = [operands |-> here.operands, named |-> here.named - 1, returns |-> here.returns] BY <2>2
  <2>4. rest \in Statement BY <2>2, <2>3, StatementIs
  <2> HIDE DEF rest
  <2> QED BY <2>1, <2>4, EnterTypes
<1>8. CASE FilePop
  <2>1. here' \in Statement /\ Front(texts) \in Seq(TextRecord) BY <1>8, PopTypes
  <2>2. texts' = Front(texts) /\ eval_mode' = FALSE /\ ClearIt' = (ClearIt \/ here.returns) /\ UNCHANGED <<stack, LastToken>>
    BY <1>8 DEF FilePop
  <2>3. ClearIt' \in BOOLEAN BY <2>2, TypesAre
  <2> QED BY <2>1, <2>2, <2>3 DEF TypeOK, TextRecord
<1>9. CASE UNCHANGED vars BY <1>9 DEF vars, TypeOK
<1> QED BY <1>1, <1>2, <1>3, <1>4, <1>5, <1>6, <1>7, <1>8, <1>9 DEF Next

LEMMA TypeInit == ASSUME ExpressionsAssumption, Init PROVE TypeOK
<1>1. << >> \in Seq(Value) /\ << >> \in Seq(TextRecord) OBVIOUS
<1>2. here \in Statement BY FreshIs DEF Init
<1> QED BY <1>1, <1>2 DEF Init, TypeOK, TextRecord

(* The types are kept whatever a page does, the pitfalls included: every    *)
(* rule and function leaves a stack of values, and every text that ends     *)
(* finds the statement it interrupted.                                     *)
THEOREM ExpressionsTypeOK == Spec => []TypeOK
<1>1. Init => TypeOK BY ExpressionsAssumption, TypeInit
<1>2. TypeOK /\ [Next]_vars => TypeOK' BY ExpressionsAssumption, TypeNext
<1> QED BY <1>1, <1>2, PTL DEF Spec

-----------------------------------------------------------------------------
(* The operands of the statement are on top of the stack.  What is under    *)
(* them is what the last caller left, and nothing on a page whose stack is  *)
(* not about to be emptied.                                                *)
Tops ==
    \E u \in Seq(Value) :
        /\ stack = u \o here.operands
        /\ texts = << >> /\ ~ClearIt => u = << >>
        /\ texts # << >> => u = Last(texts).kept

(* So they were when each text that waits called: its own operands on top,  *)
(* and under them what its caller left.                                    *)
Waits ==
    \A i \in DOMAIN texts :
        \E u \in Seq(Value) :
            /\ texts[i].kept = u \o texts[i].here.operands
            /\ i = 1 /\ ~ClearIt => u = << >>
            /\ i > 1 => u = texts[i - 1].kept

(* What a text left grows with the calls that followed.                     *)
Nested ==
    \A i, j \in DOMAIN texts : i <= j => \E v \in Seq(Value) : texts[j].kept = texts[i].kept \o v

(* The next token does not empty the stack under an expression.             *)
Unemptied == here.operands # << >> => ~Clears(LastToken)

(* A string is evaluated on its own; elsewhere functions wait for functions. *)
Modes == IF eval_mode THEN Len(texts) = 1 ELSE \A i \in DOMAIN texts : texts[i].kind = "function"

ExprInv == TypeOK /\ Tops /\ Waits /\ Nested /\ Unemptied /\ Modes

LEMMA TextsAre ==
    ASSUME TypeOK
    PROVE  /\ texts \in Seq(TextRecord) /\ Len(texts) \in Nat /\ DOMAIN texts = 1 .. Len(texts)
           /\ texts # << >> => 1 \in DOMAIN texts /\ Len(texts) \in DOMAIN texts /\ Last(texts) = texts[Len(texts)]
           /\ \A i \in DOMAIN texts : texts[i] \in TextRecord
<1>1. texts \in Seq(TextRecord) BY DEF TypeOK, TextRecord
<1>2. Len(texts) \in Nat /\ DOMAIN texts = 1 .. Len(texts) /\ \A i \in DOMAIN texts : texts[i] \in TextRecord
  BY <1>1, LenProperties, ElementOfSeq
<1>3. texts # << >> => 1 \in DOMAIN texts /\ Len(texts) \in DOMAIN texts BY <1>1, <1>2, EmptySeq
<1> QED BY <1>1, <1>2, <1>3 DEF Last

(* The stack is emptied on the page only.                                  *)
LEMMA ClearsPage == ASSUME TypeOK, Modes, NEW x, Clears(x) PROVE texts = << >> /\ ClearIt
<1>1. ~eval_mode /\ ~cur_func /\ ClearIt BY DEF Clears
<1>2. \A i \in DOMAIN texts : FALSE BY <1>1 DEF Modes, cur_func
<1> QED BY <1>1, <1>2, TextsAre

(* A step that enters and leaves no text.                                  *)
LEMMA SameTexts ==
    ASSUME Waits, Nested, Modes, UNCHANGED <<texts, eval_mode>>, texts # << >> /\ ~ClearIt' => ~ClearIt
    PROVE  Waits' /\ Nested' /\ Modes'
<1>1. Nested' /\ Modes' BY DEF Nested, Modes
<1>2. ASSUME NEW i \in DOMAIN texts
      PROVE  \E u \in Seq(Value) : /\ texts[i].kept = u \o texts[i].here.operands
                                   /\ i = 1 /\ ~ClearIt' => u = << >>
                                   /\ i > 1 => u = texts[i - 1].kept
  <2>1. texts # << >> OBVIOUS
  <2> QED BY <2>1 DEF Waits
<1>3. Waits' BY <1>2 DEF Waits
<1> QED BY <1>1, <1>3

LEMMA LexedIs ==
    ASSUME ExpressionsAssumption, ExprInv
    PROVE  \E base \in Seq(Value) :
               /\ Lexed = base \o here.operands
               /\ texts = << >> /\ ~LexedFlag => base = << >>
               /\ texts # << >> => base = Last(texts).kept /\ LexedFlag = ClearIt
<1>1. CASE Clears(LastToken)
  <2>1. here.operands = << >> /\ texts = << >> BY <1>1, ClearsPage DEF ExprInv, Unemptied
  <2>2. Lexed = << >> /\ << >> \in Seq(Value) BY <1>1 DEF Lexed, ClearStack
  <2>3. << >> \o << >> = << >> BY <2>2, ConcatEmptySeq
  <2> QED BY <2>1, <2>2, <2>3
<1>2. CASE ~Clears(LastToken)
  <2>1. Lexed = stack /\ LexedFlag = ClearIt BY <1>2, TypesAre DEF Lexed, LexedFlag, ExprInv
  <2> QED BY <2>1 DEF ExprInv, Tops
<1> QED BY <1>1, <1>2

(* What is under the operands that a rule hands over.                       *)
Regrouped(base, p, q, nums) ==
    /\ base \o p \in Seq(Value) /\ q \o nums \in Seq(Value) /\ Len(q \o nums) = Len(q) + Len(nums)
    /\ (base \o (p \o q)) \o nums = (base \o p) \o (q \o nums)
    /\ Len(base \o (p \o q)) = Len(base \o p) + Len(q)

LEMMA RegroupedIs ==
    ASSUME NEW base \in Seq(Value), NEW p \in Seq(Value), NEW q \in Seq(Value), NEW nums \in Seq(Value)
    PROVE  Regrouped(base, p, q, nums)
<1> DEFINE low == base \o p
<1>1. low \in Seq(Value) /\ low \o q = base \o (p \o q) BY Regroup
<1>2. Len(q \o nums) = Len(q) + Len(nums) /\ q \o nums \in Seq(Value) BY ConcatProperties
<1> HIDE DEF low
<1>3. (low \o q) \o nums = low \o (q \o nums) BY <1>1, Regroup
<1>4. Len(low \o q) = Len(low) + Len(q) BY <1>1, ConcatProperties
<1>5. /\ low \in Seq(Value) /\ (base \o (p \o q)) \o nums = low \o (q \o nums)
      /\ Len(base \o (p \o q)) = Len(low) + Len(q)
  BY <1>1, <1>3, <1>4
<1> QED BY <1>2, <1>5 DEF low, Regrouped

Divides(base, ops, nums, k) ==
    \E p, low, high \in Seq(Value) :
        /\ SubSeq(ops, 1, Len(ops) - k) = p /\ low = base \o p /\ (base \o ops) \o nums = low \o high
        /\ Len(high) = k + Len(nums) /\ Len(base \o ops) - k = Len(low)

LEMMA DividesIs ==
    ASSUME NEW base \in Seq(Value), NEW ops \in Seq(Value), NEW nums \in Seq(Value), NEW k \in 0 .. Len(ops)
    PROVE  Divides(base, ops, nums, k)
<1>1. PICK p, q \in Seq(Value) : ops = p \o q /\ Len(q) = k /\ Len(p) = Len(ops) - k /\ SubSeq(ops, 1, Len(ops) - k) = p
  BY SplitAt
<1>2. Regrouped(base, p, q, nums) BY RegroupedIs
<1> DEFINE low == base \o p
           high == q \o nums
<1>3. /\ low \in Seq(Value) /\ high \in Seq(Value) /\ Len(high) = Len(q) + Len(nums)
      /\ (base \o (p \o q)) \o nums = low \o high /\ Len(base \o (p \o q)) = Len(low) + Len(q)
  BY <1>2 DEF Regrouped
<1>4. low = base \o p OBVIOUS
<1> HIDE DEF low, high
<1>5. (base \o ops) \o nums = low \o high /\ Len(base \o ops) = Len(low) + k /\ Len(high) = k + Len(nums)
  BY <1>1, <1>3
<1>6. Len(base \o ops) - k = Len(low) BY <1>3, <1>5, LenProperties
<1> QED BY <1>1, <1>3, <1>4, <1>5, <1>6 DEF Divides

(* What a function that fits leaves: all that was under its operands.       *)
Rebuilt(base, ops, k, s) ==
    \E p, new \in Seq(Value) :
        /\ s = (base \o p) \o new
        /\ SubSeq(ops, 1, Len(ops) - k) = p /\ Above(s, Len(base \o ops) - k) = new

LEMMA RebuiltIs ==
    ASSUME NEW base \in Seq(Value), NEW ops \in Seq(Value), NEW n \in Nat, NEW k \in 0 .. Len(ops), k <= n,
           NEW nums \in Seq(Value), Len(nums) = n - k, NEW s, Fits((base \o ops) \o nums, n, s)
    PROVE  Rebuilt(base, ops, k, s)
<1> DEFINE given == (base \o ops) \o nums
           l == Len(base \o ops)
<1>0. Divides(base, ops, nums, k) BY DividesIs
<1>1. PICK p, low, high \in Seq(Value) :
          /\ SubSeq(ops, 1, Len(ops) - k) = p /\ low = base \o p /\ given = low \o high
          /\ Len(high) = k + Len(nums) /\ l - k = Len(low)
  BY <1>0 DEF Divides
<1>2. Fits(given, n, s) OBVIOUS
<1> HIDE DEF given, l
<1>3. Len(high) = n BY <1>1
<1>4. Has(given, n) /\ Rest(given, n) = low BY <1>1, <1>3, RestOf
<1>5. PICK new \in Seq(Value) : s = low \o new BY <1>2, <1>4 DEF Fits
<1>6. Above(s, l - k) = new
  <2>1. Above(low \o new, Len(low)) = new BY RestOf
  <2> QED BY <1>1, <1>5, <2>1, Zenon
<1>7. s = (base \o p) \o new BY <1>1, <1>5
<1> QED BY <1>1, <1>6, <1>7 DEF l, Rebuilt

-----------------------------------------------------------------------------
(* Each step in turn.  A rule rebuilds the operands on the same base.       *)
Base(base) ==
    /\ base \in Seq(Value) /\ Lexed = base \o here.operands
    /\ texts = << >> /\ ~LexedFlag => base = << >>
    /\ texts # << >> => base = Last(texts).kept /\ LexedFlag = ClearIt

Rebuilds(base, k, s) ==
    \E p, new \in Seq(Value) :
        /\ s = (base \o p) \o new
        /\ SubSeq(here.operands, 1, Len(here.operands) - k) = p /\ Above(s, Len(Lexed) - k) = new

LEMMA RebuildKeeps ==
    ASSUME ExpressionsAssumption, ExprInv, NEW base, Base(base), NEW k, NEW s, Takes(k, s), Rebuilds(base, k, s)
    PROVE  Tops' /\ Waits' /\ Nested' /\ Unemptied' /\ Modes'
<1>1. PICK p, new \in Seq(Value) :
          /\ s = (base \o p) \o new
          /\ SubSeq(here.operands, 1, Len(here.operands) - k) = p /\ Above(s, Len(Lexed) - k) = new
  BY DEF Rebuilds
<1>2. PICK named \in 0 .. MaxNamed :
          here' = [here EXCEPT !.named = named, !.operands = SubSeq(@, 1, Len(@) - k) \o Above(s, Len(Lexed) - k)]
  BY DEF Takes
<1>3. here'.operands = p \o new
  <2> DEFINE q == SubSeq(here.operands, 1, Len(here.operands) - k)
             b == Above(s, Len(Lexed) - k)
             c == q \o b
             h == here
  <2>1. h \in Statement BY TypesAre DEF ExprInv
  <2>2. here' = [h EXCEPT !.named = named, !.operands = c]
    <3>1. here' = [here EXCEPT !.named = named, !.operands = SubSeq(@, 1, Len(@) - k) \o b] BY <1>2
    <3> HIDE DEF b
    <3> QED BY <3>1
  <2>3. c = p \o new BY <1>1
  <2> HIDE DEF c, h
  <2>4. here' = [operands |-> c, named |-> named, returns |-> h.returns] BY <2>1, <2>2, Changed
  <2> QED BY <2>3, <2>4
<1>4. stack' = s /\ ClearIt' = LexedFlag /\ UNCHANGED <<LastToken, eval_mode, texts>> BY DEF Takes
<1>5. stack' = base \o (p \o new)
  <2>1. base \in Seq(Value) BY DEF Base
  <2>2. (base \o p) \o new = base \o (p \o new) BY <2>1, Regroup
  <2> QED BY <1>1, <1>4, <2>2
<1>6. Tops'
  <2>1. stack' = base \o here'.operands BY <1>3, <1>5
  <2>2. texts' = << >> /\ ~ClearIt' => base = << >> BY <1>4 DEF Base
  <2>3. texts' # << >> => base = Last(texts').kept BY <1>4 DEF Base
  <2>4. base \in Seq(Value) BY DEF Base
  <2> QED BY <2>1, <2>2, <2>3, <2>4 DEF Tops
<1>7. Waits' /\ Nested' /\ Modes'
  <2>1. texts # << >> /\ ~ClearIt' => ~ClearIt BY <1>4 DEF Base
  <2> QED BY <1>4, <2>1, SameTexts DEF ExprInv
<1>8. Unemptied'
  <2>1. ASSUME ClearIt' PROVE ~Clears(LastToken) /\ ClearIt BY <1>4, <2>1 DEF LexedFlag
  <2>2. Clears(LastToken)' => ClearIt' BY DEF Clears
  <2>3. ClearIt' = ClearIt => (Clears(LastToken)' <=> Clears(LastToken)) BY <1>4 DEF Clears, cur_func
  <2>4. ASSUME Clears(LastToken)' PROVE FALSE
    <3>1. ClearIt' = TRUE /\ ClearIt = TRUE BY <1>4, <2>1, <2>2, <2>4, TypesAre DEF ExprInv
    <3> QED BY <2>1, <2>3, <2>4, <3>1
  <2> QED BY <2>4 DEF Unemptied
<1> QED BY <1>6, <1>7, <1>8

LEMMA BaseIs == ASSUME ExpressionsAssumption, ExprInv PROVE \E base : Base(base)
BY LexedIs DEF Base

LEMMA ReducedKeeps ==
    ASSUME ExpressionsAssumption, ExprInv, Reduced
    PROVE  Tops' /\ Waits' /\ Nested' /\ Unemptied' /\ Modes'
<1>1. PICK base : Base(base) BY BaseIs
<1>2. PICK n \in Nat : \E k \in Operands(n) : \E s : Fits(Lexed \o Numbers(n - k), n, s) /\ Takes(k, s) BY DEF Reduced
<1>3. PICK k \in Operands(n) : \E s : Fits(Lexed \o Numbers(n - k), n, s) /\ Takes(k, s) BY <1>2
<1>4. PICK s : Fits(Lexed \o Numbers(n - k), n, s) /\ Takes(k, s) BY <1>3
<1>5. TypeOK BY DEF ExprInv
<1>6. k \in 0 .. n /\ k \in 0 .. Len(here.operands) /\ n - k \in Nat BY <1>5, Handed
<1>7. Rebuilds(base, k, s)
  <2> DEFINE ops == here.operands
             nums == Numbers(n - k)
             all == Lexed
             j == n - k
  <2>0. j \in Nat BY <1>6
  <2>1. base \in Seq(Value) /\ ops \in Seq(Value) /\ all = base \o ops /\ k \in 0 .. Len(ops) /\ k <= n
        /\ Fits(all \o nums, n, s)
    BY <1>1, <1>4, <1>5, <1>6, TypesAre DEF Base
  <2> HIDE DEF j
  <2>2. Numbers(j) \in Seq(Value) /\ Len(Numbers(j)) = j BY <2>0, NumbersAre
  <2>3. nums \in Seq(Value) /\ Len(nums) = n - k BY <2>2 DEF j
  <2> HIDE DEF nums, all, ops
  <2>4. Fits((base \o ops) \o nums, n, s) BY <2>1
  <2>5. Rebuilt(base, ops, k, s) BY <2>1, <2>3, <2>4, RebuiltIs
  <2>6. PICK p, new \in Seq(Value) :
            /\ s = (base \o p) \o new
            /\ SubSeq(ops, 1, Len(ops) - k) = p /\ Above(s, Len(base \o ops) - k) = new
    BY <2>5 DEF Rebuilt
  <2>7. Above(s, Len(all) - k) = new BY <2>1, <2>6
  <2> QED BY <2>6, <2>7 DEF Rebuilds, ops, all
<1> QED BY <1>1, <1>4, <1>7, RebuildKeeps

(* mktime, called with nothing on the stack.                               *)
LEMMA MkTimeKeeps ==
    ASSUME ExpressionsAssumption, Pitfall \subseteq Avoided, ExprInv, MkTimeCall
    PROVE  Tops' /\ Waits' /\ Nested' /\ Unemptied' /\ Modes'
<1>0. TypeOK BY DEF ExprInv
<1>1. PICK base : Base(base) BY BaseIs
<1>2. Lexed = << >> BY DEF MkTimeCall, Pitfall
<1>3. Rewrites BY <1>0, HandingIs, MkTimeIs
<1>4. PICK n \in Nat : \E k \in Operands(n) : \E s \in Seq(Value) : Takes(k, s) BY <1>3 DEF Rewrites
<1>5. PICK k \in Operands(n), s \in Seq(Value) : Takes(k, s) BY <1>4
<1>6. base = << >> /\ here.operands = << >>
  <2> DEFINE ops == here.operands
             all == Lexed
  <2>1. base \in Seq(Value) /\ ops \in Seq(Value) /\ all = base \o ops /\ all = << >> BY <1>0, <1>1, <1>2, TypesAre DEF Base
  <2> HIDE DEF ops, all
  <2>2. Len(all) = Len(base) + Len(ops) /\ Len(base) \in Nat /\ Len(ops) \in Nat BY <2>1, ConcatProperties, LenProperties
  <2>3. Len(all) = 0 BY <2>1
  <2>4. Len(base) = 0 /\ Len(ops) = 0
    <3> DEFINE a == Len(base)
               b == Len(ops)
    <3>1. 0 = a + b /\ a \in Nat /\ b \in Nat BY <2>2, <2>3
    <3> HIDE DEF a, b
    <3>2. a = 0 /\ b = 0 BY <3>1
    <3> QED BY <3>2 DEF a, b
  <2>5. base = << >> /\ ops = << >> BY <2>1, <2>4, EmptySeq
  <2> QED BY <2>5 DEF ops
<1>7. k = 0
  <2>1. k \in 0 .. Len(here.operands) BY <1>0, Handed
  <2>2. Len(here.operands) = 0 BY <1>6
  <2> QED BY <2>1, <2>2
<1>8. Rebuilds(base, k, s)
  <2> DEFINE p == << >>
  <2>0. p \in Seq(Value) OBVIOUS
  <2>1. SubSeq(here.operands, 1, Len(here.operands) - k) = p BY <1>6, <1>7
  <2>2. Above(s, Len(Lexed) - k) = s
    <3>1. Len(Lexed) - k = 0 BY <1>2, <1>7
    <3>2. SubSeq(s, 1, Len(s)) = s BY SubSeqFull
    <3> QED BY <3>1, <3>2 DEF Above
  <2>3. s = (base \o p) \o s BY <1>6, ConcatEmptySeq
  <2> HIDE DEF p
  <2> QED BY <2>0, <2>1, <2>2, <2>3 DEF Rebuilds
<1> QED BY <1>1, <1>5, <1>8, RebuildKeeps

LEMMA LookupKeeps ==
    ASSUME ExpressionsAssumption, Pitfall \subseteq Avoided, ExprInv, CommandLookup \/ ReturnLookup
    PROVE  Tops' /\ Waits' /\ Nested' /\ Unemptied' /\ Modes'
<1>1. here'.operands = here.operands
  <2>1. here \in Statement BY TypesAre DEF ExprInv
  <2>2. here' = [here EXCEPT !.named = @ + 1] \/ here' = [here EXCEPT !.returns = TRUE] BY DEF CommandLookup, ReturnLookup
  <2> QED BY <2>1, <2>2 DEF Statement
<1>2. PICK name \in {"return", "another"} : LooksUp(name) /\ (name = "return" => here = Fresh)
  BY DEF CommandLookup, ReturnLookup
<1> DEFINE clears == Clears(LastToken) \/ Clears(name)
<1>3. /\ LastToken' = name /\ UNCHANGED <<eval_mode, texts>>
      /\ clears => stack' = << >> /\ ClearIt' = FALSE
      /\ ~clears => stack' = stack /\ ClearIt' = ClearIt
  BY <1>2, TypesAre DEF LooksUp, ClearStack, ExprInv
<1>4. clears => texts = << >> /\ here.operands = << >>
  <2>1. clears => texts = << >> BY ClearsPage DEF ExprInv
  <2>2. Clears(LastToken) => here.operands = << >> BY DEF ExprInv, Unemptied
  <2>3. here = Fresh => here.operands = << >> BY FreshIs
  <2>4. Clears(name) => here.operands = << >> BY <1>2, <2>3 DEF LooksUp, Pitfall
  <2> QED BY <2>1, <2>2, <2>4
<1>5. Tops'
  <2>1. CASE clears
    <3>1. << >> \in Seq(Value) OBVIOUS
    <3>2. << >> \o << >> = << >> BY <3>1, ConcatEmptySeq
    <3>3. stack' = << >> \o here'.operands /\ texts' = << >> BY <1>1, <1>3, <1>4, <2>1, <3>2
    <3> QED BY <3>1, <3>3 DEF Tops
  <2>2. CASE ~clears BY <1>1, <1>3, <2>2 DEF ExprInv, Tops
  <2> QED BY <2>1, <2>2
<1>6. Waits' /\ Nested' /\ Modes'
  <2>1. texts # << >> /\ ~ClearIt' => ~ClearIt BY <1>3, <1>4
  <2> QED BY <1>3, <2>1, SameTexts DEF ExprInv
<1>7. Unemptied'
  <2>1. CASE clears BY <1>1, <1>4, <2>1 DEF Unemptied
  <2>2. CASE ~clears
    <3>1. Clears(LastToken)' = Clears(name) BY <1>3, <2>2 DEF Clears, cur_func
    <3> QED BY <2>2, <3>1 DEF Unemptied
  <2> QED BY <2>1, <2>2
<1> QED BY <1>5, <1>6, <1>7

(* A statement that ended.                                                 *)
LEMMA EmptyKeeps ==
    ASSUME ExprInv, here'.operands = << >>, ClearIt' = TRUE, UNCHANGED <<eval_mode, texts>>,
           stack' \in Seq(Value), texts # << >> => stack' = Last(texts).kept
    PROVE  Tops' /\ Waits' /\ Nested' /\ Unemptied' /\ Modes'
<1>1. stack' = stack' \o here'.operands BY ConcatEmptySeq
<1>2. Tops' BY <1>1 DEF Tops
<1>3. Waits' /\ Nested' /\ Modes' BY SameTexts DEF ExprInv
<1>4. Unemptied' BY DEF Unemptied
<1> QED BY <1>2, <1>3, <1>4

LEMMA EndsKeeps ==
    ASSUME ExpressionsAssumption, ExprInv, NEW n \in Nat, EndsIn(n)
    PROVE  Tops' /\ Waits' /\ Nested' /\ Unemptied' /\ Modes'
<1>0. TypeOK BY DEF ExprInv
<1>1. PICK base : Base(base) BY BaseIs
<1>2. base \in Seq(Value) BY <1>1 DEF Base
<1>3. stack' = base
  <2> DEFINE ops == here.operands
             l == Len(ops)
             j == n - l
             all == Lexed
             nums == Numbers(j)
  <2>1. ops \in Seq(Value) /\ l \in Nat /\ l <= n /\ all = base \o ops /\ stack' = Rest(all \o nums, n)
    BY <1>0, <1>1, TypesAre DEF Base, EndsIn
  <2>2. j \in Nat BY <2>1
  <2> HIDE DEF j
  <2>3. nums \in Seq(Value) /\ Len(nums) = j BY <2>2, NumbersAre
  <2> HIDE DEF all, ops, nums, l
  <2> DEFINE high == ops \o nums
  <2>4. high \in Seq(Value) /\ Len(high) = l + j /\ (base \o ops) \o nums = base \o high
    <3>1. high \in Seq(Value) /\ Len(high) = Len(ops) + Len(nums) BY <2>1, <2>3, ConcatProperties
    <3>2. (base \o ops) \o nums = base \o high BY <1>2, <2>1, <2>3, Regroup
    <3> QED BY <2>3, <3>1, <3>2 DEF l
  <2> HIDE DEF high
  <2>5. Len(high) = n BY <2>1, <2>4 DEF j
  <2>6. Rest(base \o high, n) = base BY <1>2, <2>4, <2>5, RestOf
  <2> QED BY <2>1, <2>4, <2>6
<1>4. here'.operands = << >> /\ ClearIt' = TRUE /\ UNCHANGED <<eval_mode, texts>> BY FreshIs DEF EndsIn
<1>5. texts # << >> => stack' = Last(texts).kept BY <1>1, <1>3 DEF Base
<1> QED BY <1>2, <1>3, <1>4, <1>5, EmptyKeeps

LEMMA SkippedKeeps ==
    ASSUME ExpressionsAssumption, Pitfall \subseteq Avoided, ExprInv, ExpressionEnds \/ SkipsText
    PROVE  Tops' /\ Waits' /\ Nested' /\ Unemptied' /\ Modes'
<1>1. here'.operands = << >> /\ ClearIt' = TRUE /\ UNCHANGED <<eval_mode, texts>> BY FreshIs DEF ExpressionEnds, SkipsText
<1>2. CASE ExpressionEnds
  <2>1. texts = << >> /\ stack' \in Seq(Value) BY <1>2, TypesAre DEF ExpressionEnds, Pitfall, ExprInv
  <2> QED BY <1>1, <2>1, EmptyKeeps
<1>3. CASE SkipsText
  <2>1. stack' = stack /\ here.operands = << >> BY <1>3, FreshIs DEF SkipsText
  <2>2. PICK u \in Seq(Value) : stack = u \o here.operands /\ (texts # << >> => u = Last(texts).kept) BY DEF ExprInv, Tops
  <2>3. stack = u BY <2>1, <2>2, ConcatEmptySeq
  <2> QED BY <1>1, <2>1, <2>2, <2>3, EmptyKeeps
<1> QED BY <1>2, <1>3

(* What a text that is entered leaves below: its caller's base and those of *)
(* its operands that are not handed over.                                  *)
LEMMA EnterLeaves ==
    ASSUME ExpressionsAssumption, ExprInv, NEW base, Base(base), NEW n \in Nat, NEW k \in Operands(n)
    PROVE  \E p \in Seq(Value) :
               /\ SubSeq(here.operands, 1, Len(here.operands) - k) = p /\ base \o p \in Seq(Value)
               /\ Rest(Lexed \o Numbers(n - k), n) = base \o p /\ Rest(Lexed, k) = base \o p
<1>0. TypeOK BY DEF ExprInv
<1> DEFINE ops == here.operands
           all == Lexed
           j == n - k
           nums == Numbers(j)
           none == << >>
<1>1. k \in 0 .. n /\ k \in 0 .. Len(ops) /\ j \in Nat BY <1>0, Handed
<1>2. base \in Seq(Value) /\ ops \in Seq(Value) /\ all = base \o ops /\ none \in Seq(Value) /\ Len(none) = 0
  BY <1>0, TypesAre DEF Base
<1> HIDE DEF j
<1>3. nums \in Seq(Value) /\ Len(nums) = j BY <1>1, NumbersAre
<1> HIDE DEF all, ops, nums
<1>4. (base \o ops) \o none = all
  <2>1. all \in Seq(Value) BY <1>2, ConcatProperties
  <2> QED BY <1>2, <2>1, ConcatEmptySeq
<1> HIDE DEF none
<1>5. Divides(base, ops, nums, k) /\ Divides(base, ops, none, k) BY <1>1, <1>2, <1>3, DividesIs
<1>6. PICK p, low, high \in Seq(Value) :
          /\ SubSeq(ops, 1, Len(ops) - k) = p /\ low = base \o p /\ (base \o ops) \o nums = low \o high
          /\ Len(high) = k + Len(nums) /\ Len(base \o ops) - k = Len(low)
  BY <1>5 DEF Divides
<1>7. PICK p1, low1, high1 \in Seq(Value) :
          /\ SubSeq(ops, 1, Len(ops) - k) = p1 /\ low1 = base \o p1 /\ (base \o ops) \o none = low1 \o high1
          /\ Len(high1) = k + Len(none) /\ Len(base \o ops) - k = Len(low1)
  BY <1>5 DEF Divides
<1>8. Rest(all \o nums, n) = low
  <2>1. Len(high) = n BY <1>1, <1>3, <1>6 DEF j
  <2>2. Rest(low \o high, n) = low BY <2>1, RestOf
  <2> QED BY <1>2, <1>6, <2>2
<1>9. Rest(all, k) = low
  <2>1. Len(high1) = k BY <1>1, <1>2, <1>7
  <2>2. Rest(low1 \o high1, k) = low1 BY <2>1, RestOf
  <2>3. low1 = low BY <1>6, <1>7
  <2> QED BY <1>4, <1>7, <2>2, <2>3
<1> QED BY <1>6, <1>8, <1>9 DEF all, ops, nums, j

LEMMA EnterKeeps ==
    ASSUME ExpressionsAssumption, ExprInv, NEW kind \in {"function", "eval"}, NEW n \in Nat, NEW rest \in Statement,
           rest.operands = here.operands, Enters(kind, n, n, rest)
    PROVE  /\ Tops' /\ Waits' /\ Nested' /\ Unemptied'
           /\ \E t : t.kind = kind /\ texts' = Append(texts, t)
<1>0. TypeOK BY DEF ExprInv
<1>1. PICK base : Base(base) BY BaseIs
<1>2. PICK k \in Operands(n) :
          /\ stack' = Rest(Lexed \o Numbers(n - k), n)
          /\ texts' = Append(texts, [kind |-> kind, kept |-> Rest(Lexed, k),
                                     here |-> [rest EXCEPT !.operands = SubSeq(@, 1, Len(@) - k)]])
          /\ here' = Fresh /\ ClearIt' = LexedFlag /\ UNCHANGED LastToken
  BY DEF Enters
<1>3. PICK p \in Seq(Value) :
          /\ SubSeq(here.operands, 1, Len(here.operands) - k) = p /\ base \o p \in Seq(Value)
          /\ Rest(Lexed \o Numbers(n - k), n) = base \o p /\ Rest(Lexed, k) = base \o p
  BY <1>1, EnterLeaves
<1> DEFINE low == base \o p
           h == [rest EXCEPT !.operands = SubSeq(@, 1, Len(@) - k)]
           t == [kind |-> kind, kept |-> low, here |-> h]
           m == Len(texts)
<1>4. h.operands = p
  <2> DEFINE q == SubSeq(rest.operands, 1, Len(rest.operands) - k)
  <2>1. h = [operands |-> q, named |-> rest.named, returns |-> rest.returns] BY Trimmed
  <2>2. q = p BY <1>3
  <2> HIDE DEF h, q
  <2> QED BY <2>1, <2>2
<1>5. texts' = Append(texts, t) /\ stack' = low /\ here'.operands = << >> /\ ClearIt' = LexedFlag
  <2> HIDE DEF h
  <2> QED BY <1>2, <1>3, FreshIs DEF h
<1>6. base \in Seq(Value) /\ low \in Seq(Value) BY <1>1, <1>3 DEF Base
<1> HIDE DEF h
<1>7. t.kind = kind /\ t.kept = low /\ t.here.operands = p BY <1>4
<1>8. low = base \o p OBVIOUS
<1> HIDE DEF low, t
<1>9. /\ m \in Nat /\ DOMAIN texts = 1 .. m /\ DOMAIN texts' = 1 .. m + 1 /\ texts' # << >>
      /\ texts'[m + 1] = t /\ Last(texts') = t /\ \A i \in 1 .. m : texts'[i] = texts[i]
  <2>1. texts \in Seq(TextRecord) /\ DOMAIN texts = 1 .. m /\ m \in Nat BY <1>0, TextsAre
  <2> DEFINE S == TextRecord \cup {t}
  <2>2. texts \in Seq(S) /\ t \in S
    <3>1. \A i \in 1 .. m : texts[i] \in S BY <1>0, <2>1, TextsAre
    <3> HIDE DEF S
    <3>2. texts \in [1 .. m -> S]
      <4>1. texts = [i \in DOMAIN texts |-> texts[i]] BY <2>1
      <4> QED BY <2>1, <3>1, <4>1
    <3>3. texts \in Seq(S) BY <2>1, <3>2
    <3> QED BY <3>3 DEF S
  <2> HIDE DEF S
  <2>3. /\ Append(texts, t) \in Seq(S) /\ Append(texts, t) # << >> /\ Len(Append(texts, t)) = m + 1
        /\ \A i \in 1 .. m : Append(texts, t)[i] = texts[i]
        /\ Append(texts, t)[m + 1] = t
    BY <2>2, AppendProperties
  <2>4. Last(Append(texts, t)) = t BY <2>2, PushPop
  <2>5. DOMAIN Append(texts, t) = 1 .. m + 1
    <3> DEFINE a == Append(texts, t)
    <3>1. a \in Seq(S) /\ Len(a) = m + 1 BY <2>3
    <3> HIDE DEF a
    <3>2. DOMAIN a = 1 .. Len(a) BY <3>1, LenProperties
    <3> QED BY <3>1, <3>2 DEF a
  <2> QED BY <1>5, <2>1, <2>3, <2>4, <2>5
<1>10. Tops'
  <2>1. stack' = low \o here'.operands BY <1>5, <1>6, ConcatEmptySeq
  <2> QED BY <1>6, <1>7, <1>9, <2>1 DEF Tops
<1> HIDE DEF m
<1>11. Waits'
  <2>1. ASSUME NEW i \in 1 .. m + 1
        PROVE  \E u \in Seq(Value) :
                   /\ texts'[i].kept = u \o texts'[i].here.operands
                   /\ i = 1 /\ ~ClearIt' => u = << >>
                   /\ i > 1 => u = texts'[i - 1].kept
    <3>1. CASE i \in 1 .. m
      <4>1. texts # << >> BY <1>9, <3>1
      <4>2. ClearIt' = ClearIt BY <1>1, <1>5, <4>1 DEF Base
      <4>3. PICK u \in Seq(Value) : /\ texts[i].kept = u \o texts[i].here.operands
                                    /\ i = 1 /\ ~ClearIt => u = << >>
                                    /\ i > 1 => u = texts[i - 1].kept
        BY <1>9, <3>1 DEF ExprInv, Waits
      <4>4. texts'[i] = texts[i] /\ (i > 1 => texts'[i - 1] = texts[i - 1])
        <5>1. i > 1 => i - 1 \in 1 .. m BY <1>9, <3>1
        <5> QED BY <1>9, <3>1, <5>1
      <4> QED BY <4>2, <4>3, <4>4
    <3>2. CASE i = m + 1
      <4>1. texts'[i].kept = base \o texts'[i].here.operands BY <1>7, <1>8, <1>9, <3>2
      <4>2. i = 1 /\ ~ClearIt' => base = << >>
        <5>1. i = 1 => texts = << >>
          <6>1. i = 1 => m = 0 BY <1>9, <3>2
          <6>2. m = 0 => texts = << >> BY <1>0, TextsAre DEF m
          <6> QED BY <6>1, <6>2
        <5> QED BY <1>1, <1>5, <5>1 DEF Base
      <4>3. i > 1 => base = texts'[i - 1].kept
        <5>1. ASSUME i > 1 PROVE i - 1 = m /\ m \in 1 .. m BY <1>9, <3>2, <5>1
        <5>2. ASSUME i > 1 PROVE texts # << >> BY <1>9, <5>1, <5>2
        <5>3. ASSUME i > 1 PROVE base = texts[m].kept BY <1>0, <1>1, <5>2, <5>3, TextsAre DEF Base, m
        <5> QED BY <1>9, <5>1, <5>3
      <4> QED BY <1>6, <4>1, <4>2, <4>3
    <3>3. m \in Nat BY <1>9
    <3>4. i \in 1 .. m \/ i = m + 1 BY <3>3
    <3> QED BY <3>1, <3>2, <3>4
  <2> QED BY <1>9, <2>1 DEF Waits
<1>12. Nested'
  <2>1. ASSUME NEW i \in 1 .. m + 1, NEW j \in 1 .. m + 1, i <= j
        PROVE  \E v \in Seq(Value) : texts'[j].kept = texts'[i].kept \o v
    <3>1. CASE j \in 1 .. m
      <4>1. i \in 1 .. m BY <1>9, <2>1, <3>1
      <4>2. \E v \in Seq(Value) : texts[j].kept = texts[i].kept \o v BY <1>9, <2>1, <3>1, <4>1 DEF ExprInv, Nested
      <4> QED BY <1>9, <3>1, <4>1, <4>2
    <3>2. CASE j = m + 1 /\ i = m + 1
      <4>1. << >> \in Seq(Value) OBVIOUS
      <4>2. low = low \o << >> BY <1>6, ConcatEmptySeq
      <4> QED BY <1>7, <1>9, <3>2, <4>1, <4>2
    <3>3. CASE j = m + 1 /\ i \in 1 .. m
      <4>1. m \in 1 .. m /\ i <= m /\ texts # << >> BY <1>9, <3>3
      <4>2. PICK v \in Seq(Value) : texts[m].kept = texts[i].kept \o v BY <1>9, <3>3, <4>1 DEF ExprInv, Nested
      <4>3. base = texts[m].kept BY <1>0, <1>1, <4>1, TextsAre DEF Base, m
      <4> DEFINE a == texts[i].kept
      <4>4. a \in Seq(Value)
        <5>1. texts[i] \in TextRecord BY <1>0, <1>9, <3>3, TextsAre
        <5> QED BY <5>1 DEF TextRecord
      <4>5. base = a \o v BY <4>2, <4>3
      <4> HIDE DEF a
      <4>6. (a \o v) \o p = a \o (v \o p) /\ v \o p \in Seq(Value) BY <4>4, Regroup
      <4>7. low = a \o (v \o p) BY <1>8, <4>5, <4>6
      <4> QED BY <1>7, <1>9, <3>3, <4>6, <4>7 DEF a
    <3>4. m \in Nat BY <1>9
    <3>5. j \in 1 .. m \/ (j = m + 1 /\ (i = m + 1 \/ i \in 1 .. m)) BY <3>4
    <3> QED BY <3>1, <3>2, <3>3, <3>5
  <2>2. DOMAIN texts' = 1 .. m + 1 BY <1>9
  <2> QED BY <2>1, <2>2 DEF Nested
<1>13. Unemptied' BY <1>5 DEF Unemptied
<1>14. \E x : x.kind = kind /\ texts' = Append(texts, x) BY <1>5, <1>7
<1> QED BY <1>10, <1>11, <1>12, <1>13, <1>14

(* What a text that ends leaves is what its caller finds.                   *)
LEMMA PopLeaves ==
    ASSUME ExprInv, FilePop
    PROVE  /\ Above(stack, Len(Last(texts).kept)) = here.operands /\ stack = Last(texts).kept \o here.operands
           /\ here'.operands = Last(texts).here.operands \o here.operands
<1>0. TypeOK BY DEF ExprInv
<1> DEFINE kept == Last(texts).kept
           ops == here.operands
<1>1. here'.operands = Last(texts).here.operands \o Above(stack, Len(kept)) /\ kept \in Seq(Value) BY <1>0, PopTypes
<1>2. stack = kept \o ops /\ ops \in Seq(Value) BY <1>0 DEF ExprInv, Tops, FilePop, TypeOK, Statement
<1> HIDE DEF kept, ops
<1>3. Above(kept \o ops, Len(kept)) = ops BY <1>1, <1>2, RestOf
<1> QED BY <1>1, <1>2, <1>3 DEF kept, ops

LEMMA PopKeeps ==
    ASSUME Pitfall \subseteq Avoided, ExprInv, FilePop
    PROVE  Tops' /\ Waits' /\ Nested' /\ Unemptied' /\ Modes'
<1>0. TypeOK BY DEF ExprInv
<1> DEFINE m == Len(texts)
           o == Last(texts).here.operands
           b == here.operands
<1>1. /\ texts # << >> /\ texts' = Front(texts) /\ stack' = stack /\ ClearIt' = (ClearIt \/ here.returns)
      /\ eval_mode' = FALSE /\ UNCHANGED LastToken
  BY DEF FilePop
<1>2. stack = Last(texts).kept \o b /\ here'.operands = o \o b /\ o \in Seq(Value) /\ b \in Seq(Value)
  BY <1>0, PopLeaves, PopTypes DEF TypeOK, Statement
<1>3. /\ m \in Nat \ {0} /\ DOMAIN texts = 1 .. m /\ Last(texts) = texts[m] /\ DOMAIN texts' = 1 .. m - 1
      /\ \A i \in 1 .. m - 1 : texts'[i] = texts[i]
      /\ m = 1 => texts' = << >>
      /\ m > 1 => Last(texts') = texts[m - 1]
  <2>1. texts \in Seq(TextRecord) /\ DOMAIN texts = 1 .. m BY <1>0, TextsAre
  <2>2. /\ texts' \in Seq(TextRecord) /\ m \in Nat \ {0} /\ Len(texts') = m - 1 /\ Last(texts) = texts[m]
        /\ \A i \in 1 .. m - 1 : texts'[i] = texts[i]
    BY <1>1, <2>1, PopPush
  <2>3. DOMAIN texts' = 1 .. m - 1 BY <2>2, LenProperties
  <2>4. m = 1 => texts' = << >> BY <2>2, EmptySeq
  <2>5. ASSUME m > 1 PROVE Last(texts') = texts[m - 1]
    <3>1. Last(texts') = texts'[m - 1] BY <2>2 DEF Last
    <3>2. m - 1 \in 1 .. m - 1 BY <2>2, <2>5
    <3> QED BY <2>2, <3>1, <3>2
  <2> QED BY <2>1, <2>2, <2>3, <2>4, <2>5
<1> HIDE DEF m, o, b
<1>4. ~ClearIt' => ~ClearIt BY <1>1
<1>5. PICK u \in Seq(Value) : /\ texts[m].kept = u \o texts[m].here.operands
                              /\ m = 1 /\ ~ClearIt => u = << >>
                              /\ m > 1 => u = texts[m - 1].kept
  <2>1. m \in DOMAIN texts BY <1>3
  <2> QED BY <2>1 DEF ExprInv, Waits
<1>6. stack' = u \o here'.operands
  <2>1. stack = (u \o o) \o b BY <1>2, <1>3, <1>5 DEF o
  <2>2. (u \o o) \o b = u \o (o \o b) BY <1>2, Regroup
  <2> QED BY <1>1, <1>2, <2>1, <2>2
<1>7. Tops'
  <2>1. texts' = << >> => m = 1
    <3>1. m > 1 => 1 \in DOMAIN texts' BY <1>3
    <3>2. DOMAIN << >> = {} OBVIOUS
    <3>3. m > 1 => texts' # << >> BY <3>1, <3>2
    <3> QED BY <1>3, <3>3
  <2>2. texts' = << >> /\ ~ClearIt' => u = << >> BY <1>4, <1>5, <2>1
  <2>3. texts' # << >> => m > 1 BY <1>3
  <2>4. texts' # << >> => u = Last(texts').kept BY <1>3, <1>5, <2>3
  <2> QED BY <1>6, <2>2, <2>4 DEF Tops
<1>8. Waits'
  <2>1. ASSUME NEW i \in 1 .. m - 1
        PROVE  \E v \in Seq(Value) :
                   /\ texts'[i].kept = v \o texts'[i].here.operands
                   /\ i = 1 /\ ~ClearIt' => v = << >>
                   /\ i > 1 => v = texts'[i - 1].kept
    <3>1. i \in DOMAIN texts /\ (i > 1 => i - 1 \in 1 .. m - 1) BY <1>3
    <3>2. PICK v \in Seq(Value) : /\ texts[i].kept = v \o texts[i].here.operands
                                  /\ i = 1 /\ ~ClearIt => v = << >>
                                  /\ i > 1 => v = texts[i - 1].kept
      BY <3>1 DEF ExprInv, Waits
    <3> QED BY <1>3, <1>4, <3>1, <3>2
  <2> QED BY <1>3, <2>1 DEF Waits
<1>9. Nested'
  <2>1. ASSUME NEW i \in 1 .. m - 1, NEW j \in 1 .. m - 1, i <= j
        PROVE  \E v \in Seq(Value) : texts'[j].kept = texts'[i].kept \o v
    <3>1. i \in DOMAIN texts /\ j \in DOMAIN texts BY <1>3
    <3>2. \E v \in Seq(Value) : texts[j].kept = texts[i].kept \o v BY <2>1, <3>1 DEF ExprInv, Nested
    <3> QED BY <1>3, <3>2
  <2>2. DOMAIN texts' = 1 .. m - 1 BY <1>3
  <2> QED BY <2>1, <2>2 DEF Nested
<1>10. \A i \in 1 .. m - 1 : texts'[i].kind = "function"
  <2>1. CASE eval_mode
    <3>1. m = 1 BY <2>1 DEF ExprInv, Modes, m
    <3> QED BY <3>1
  <2>2. CASE ~eval_mode
    <3>1. \A i \in 1 .. m - 1 : i \in DOMAIN texts BY <1>3
    <3> QED BY <1>3, <2>2, <3>1 DEF ExprInv, Modes
  <2> QED BY <2>1, <2>2
<1>11. Modes' BY <1>1, <1>3, <1>10 DEF Modes
<1>12. Unemptied'
  <2>1. ASSUME Clears(LastToken)' PROVE here'.operands = << >>
    <3>1. ClearIt' /\ LastToken # "return" /\ ~(cur_func') BY <1>1, <2>1 DEF Clears
    <3>2. m = 1
      <4>1. m > 1 => 1 \in DOMAIN texts' /\ 1 \in 1 .. m - 1 BY <1>3
      <4>2. m > 1 => cur_func' BY <1>10, <4>1 DEF cur_func
      <4> QED BY <1>3, <3>1, <4>2
    <3>3. o \o Above(stack, Len(Last(texts).kept)) = << >>
      <4>1. "lost value" \in Avoided BY DEF Pitfall
      <4>2. Len(texts) = 1 /\ (ClearIt \/ here.returns) BY <1>1, <3>1, <3>2 DEF m
      <4> QED BY <3>1, <4>1, <4>2 DEF FilePop, o
    <3> QED BY <1>0, <3>3, PopTypes DEF o
  <2> QED BY <2>1 DEF Unemptied
<1> QED BY <1>7, <1>8, <1>9, <1>11, <1>12

LEMMA InvNext ==
    ASSUME ExpressionsAssumption, Pitfall \subseteq Avoided, ExprInv, [Next]_vars
    PROVE  ExprInv'
<1>0. TypeOK' BY TypeNext DEF ExprInv
<1> SUFFICES Tops' /\ Waits' /\ Nested' /\ Unemptied' /\ Modes' BY <1>0 DEF ExprInv
<1>t. TypeOK BY DEF ExprInv
<1>1. CASE Literal \/ Condition \/ Operator \/ cmd_table
  <2>1. Applies \/ MkTimeCall BY <1>1 DEF Applies, cmd_table
  <2>2. CASE Applies
    <3>1. Reduced BY <1>t, <2>2, HandingIs, AppliesIs
    <3> QED BY <3>1, ReducedKeeps
  <2>3. CASE MkTimeCall BY <2>3, MkTimeKeeps
  <2> QED BY <2>1, <2>2, <2>3
<1>2. CASE CommandLookup \/ ReturnLookup BY <1>2, LookupKeeps
<1>3. CASE StatementEnds
  <2>1. PICK n \in Nat : EndsIn(n) BY <1>3, StatementEndsIn
  <2> QED BY <2>1, EndsKeeps
<1>4. CASE ExpressionEnds \/ SkipsText BY <1>4, SkippedKeeps
<1>5. ASSUME NEW a \in 0 .. 2, NEW p \in 0 .. 2, RunFunc(a, p) PROVE Tops' /\ Waits' /\ Nested' /\ Unemptied' /\ Modes'
  <2>1. /\ Enters("function", a, a, here) /\ eval_mode' = eval_mode /\ ~eval_mode
    <3>1. "argument count" \in Avoided BY DEF Pitfall
    <3>2. a = p /\ ~eval_mode /\ eval_mode' = eval_mode BY <1>5, <3>1, Zenon DEF RunFunc
    <3>3. Enters("function", a, p, here) BY <1>5, Zenon DEF RunFunc
    <3> QED BY <3>2, <3>3
  <2>2. a \in Nat /\ here \in Statement BY <1>t DEF TypeOK
  <2>3. /\ Tops' /\ Waits' /\ Nested' /\ Unemptied'
        /\ \E t : t.kind = "function" /\ texts' = Append(texts, t)
    BY <2>1, <2>2, EnterKeeps
  <2>4. PICK t : t.kind = "function" /\ texts' = Append(texts, t) BY <2>3
  <2>5. \A i \in DOMAIN texts' : texts'[i].kind = "function"
    <3>1. texts \in Seq(TextRecord) /\ DOMAIN texts = 1 .. Len(texts) BY <1>t, TextsAre
    <3>2. \A i \in 1 .. Len(texts) : texts[i].kind = "function" BY <2>1, <3>1 DEF ExprInv, Modes
    <3>3. DOMAIN texts' = 1 .. Len(texts) + 1 /\ \A i \in 1 .. Len(texts) + 1 : texts'[i] = IF i <= Len(texts) THEN texts[i] ELSE t
      BY <2>4, <3>1
    <3>4. ASSUME NEW i \in 1 .. Len(texts) + 1 PROVE texts'[i].kind = "function"
      <4>1. CASE i <= Len(texts)
        <5>1. i \in 1 .. Len(texts) BY <4>1
        <5> QED BY <3>2, <3>3, <4>1, <5>1
      <4>2. CASE ~(i <= Len(texts)) BY <2>4, <3>3, <4>2
      <4> QED BY <4>1, <4>2
    <3> QED BY <3>3, <3>4
  <2> QED BY <2>1, <2>3, <2>5 DEF Modes
<1>6. CASE EvalText
  <2> DEFINE rest == [here EXCEPT !.named = @ - 1]
  <2>1. Enters("eval", 1, 1, rest) /\ eval_mode' = TRUE /\ ~cur_func /\ here.named > 0 BY <1>6 DEF EvalText
  <2>2. ~eval_mode BY <1>6 DEF EvalText, Pitfall
  <2>3. here.operands \in Seq(Value) /\ here.returns \in BOOLEAN /\ here.named - 1 \in 0 .. MaxNamed
        /\ here = [operands |-> here.operands, named |-> here.named, returns |-> here.returns]
    BY <1>t, <2>1, TypesAre
  <2>4. rest = [operands |-> here.operands, named |-> here.named - 1, returns |-> here.returns] BY <2>3
  <2>5. rest \in Statement /\ rest.operands = here.operands BY <2>3, <2>4, StatementIs
  <2> HIDE DEF rest
  <2>6. Tops' /\ Waits' /\ Nested' /\ Unemptied' /\ \E t : t.kind = "eval" /\ texts' = Append(texts, t)
    BY <2>1, <2>5, EnterKeeps
  <2>7. texts = << >>
    <3>1. \A i \in DOMAIN texts : FALSE BY <2>1, <2>2 DEF ExprInv, Modes, cur_func
    <3> QED BY <1>t, <3>1, TextsAre
  <2>8. Len(texts') = 1
    <3>1. PICK t : texts' = Append(texts, t) BY <2>6
    <3>2. << >> \in Seq({t}) /\ t \in {t} /\ Len(<< >>) = 0 OBVIOUS
    <3>3. Len(Append(<< >>, t)) = Len(<< >>) + 1 BY <3>2, AppendProperties
    <3> QED BY <2>7, <3>1, <3>2, <3>3
  <2> QED BY <2>1, <2>6, <2>8 DEF Modes
<1>7. CASE FilePop BY <1>7, PopKeeps
<1>8. CASE UNCHANGED vars
  <2>1. UNCHANGED <<stack, ClearIt, LastToken, eval_mode, here, texts>> BY <1>8 DEF vars
  <2>2. Tops' /\ Unemptied' BY <2>1 DEF ExprInv, Tops, Unemptied, Clears, cur_func
  <2>3. Waits' /\ Nested' /\ Modes' BY <2>1, SameTexts DEF ExprInv
  <2> QED BY <2>2, <2>3
<1> QED BY <1>1, <1>2, <1>3, <1>4, <1>5, <1>6, <1>7, <1>8 DEF Next

LEMMA InvInit == ASSUME ExpressionsAssumption, Init PROVE ExprInv
<1>1. TypeOK BY TypeInit
<1>2. stack = << >> /\ texts = << >> /\ here.operands = << >> /\ ClearIt = FALSE /\ ~eval_mode BY FreshIs DEF Init
<1>3. << >> \in Seq(Value) /\ DOMAIN << >> = {} OBVIOUS
<1>4. << >> \o << >> = << >> BY <1>3, ConcatEmptySeq
<1>5. Tops BY <1>2, <1>3, <1>4 DEF Tops
<1>6. Waits /\ Nested /\ Modes BY <1>2, <1>3 DEF Waits, Nested, Modes
<1>7. Unemptied BY <1>2 DEF Unemptied
<1> QED BY <1>1, <1>5, <1>6, <1>7 DEF ExprInv

LEMMA InvHolds == ASSUME Pitfall \subseteq Avoided PROVE Spec => []ExprInv
<1>1. Init => ExprInv BY ExpressionsAssumption, InvInit
<1>2. ExprInv /\ [Next]_vars => ExprInv' BY ExpressionsAssumption, InvNext
<1> QED BY <1>1, <1>2, PTL DEF Spec

LEMMA InvStays == ASSUME ExprInv PROVE OperandsStay
<1>t. TypeOK BY DEF ExprInv
<1>1. PICK u \in Seq(Value) : /\ stack = u \o here.operands
                              /\ texts = << >> /\ ~ClearIt => u = << >>
                              /\ texts # << >> => u = Last(texts).kept
  BY DEF ExprInv, Tops
<1> DEFINE ops == here.operands
<1>2. stack \in Seq(Value) /\ ops \in Seq(Value) BY <1>t DEF TypeOK, Statement
<1>3. stack = u \o ops BY <1>1
<1> HIDE DEF ops
<1>4. IsSuffix(ops, u \o ops) BY <1>2, SuffixOf
<1>5. IsSuffix(here.operands, stack) BY <1>3, <1>4 DEF ops
<1>6. ASSUME NEW i \in DOMAIN texts PROVE IsPrefix(texts[i].kept, stack)
  <2> DEFINE m == Len(texts)
             a == texts[i].kept
  <2>1. texts # << >> /\ m \in DOMAIN texts /\ i <= m /\ Last(texts) = texts[m] BY <1>t, <1>6, TextsAre
  <2>2. PICK v \in Seq(Value) : texts[m].kept = texts[i].kept \o v BY <1>6, <2>1 DEF ExprInv, Nested
  <2>3. a \in Seq(Value)
    <3>1. texts[i] \in TextRecord BY <1>t, <1>6, TextsAre
    <3> QED BY <3>1 DEF TextRecord
  <2>4. u = a \o v BY <1>1, <2>1, <2>2
  <2> HIDE DEF a, m
  <2>5. (a \o v) \o ops = a \o (v \o ops) /\ v \o ops \in Seq(Value) BY <1>2, <2>3, Regroup
  <2>6. stack = a \o (v \o ops) BY <1>3, <2>4, <2>5
  <2>7. IsPrefix(a, stack) BY <1>2, <2>3, <2>5, <2>6, PrefixIs
  <2> QED BY <2>7 DEF a
<1>7. texts = << >> /\ ~ClearIt => stack = here.operands
  <2>1. << >> \o ops = ops BY <1>2, ConcatEmptySeq
  <2> QED BY <1>1, <1>3, <2>1 DEF ops
<1> QED BY <1>5, <1>6, <1>7 DEF OperandsStay

(* On a page that keeps clear of the pitfalls, of any depth: the values of  *)
(* the statement being read stay on top of the stack until a rule or a      *)
(* function takes them, those of the callers where they were left, and a    *)
(* page's stack has no others once it was emptied.                         *)
THEOREM ExpressionsOperandsStay == ASSUME Pitfall \subseteq Avoided PROVE Spec => []OperandsStay
<1>1. Spec => []ExprInv BY InvHolds
<1>2. ExprInv => OperandsStay BY InvStays
<1> QED BY <1>1, <1>2, PTL

(* Only a text that ends makes those that wait fewer.                       *)
LEMMA OnlyPops ==
    ASSUME ExpressionsAssumption, TypeOK, [Next]_vars, Len(texts') < Len(texts)
    PROVE  FilePop
<1>1. Len(texts) \in Nat /\ texts \in Seq(TextRecord) BY TextsAre
<1>2. texts' # texts BY <1>1
<1>3. ~(Literal \/ Condition \/ Operator \/ cmd_table)
  <2>1. Rewrites => texts' = texts BY DEF Rewrites, Takes
  <2> QED BY <1>2, <2>1, RulesRewrite
<1>4. ~(CommandLookup \/ ReturnLookup) BY <1>2 DEF CommandLookup, ReturnLookup, LooksUp
<1>5. ~StatementEnds
  <2>1. \A n \in Nat : EndsIn(n) => texts' = texts BY DEF EndsIn
  <2> QED BY <1>2, <2>1, StatementEndsIn
<1>6. ~(ExpressionEnds \/ SkipsText) BY <1>2 DEF ExpressionEnds, SkipsText
<1>7. ASSUME NEW kind, NEW n, NEW j, NEW rest, Enters(kind, n, j, rest) PROVE FALSE
  <2>1. PICK t : texts' = Append(texts, t) BY <1>7 DEF Enters
  <2>2. Len(texts') = Len(texts) + 1 BY <1>1, <2>1
  <2> QED BY <1>1, <2>2
<1>8. ~EvalText BY <1>7 DEF EvalText
<1>9. \A a, p \in 0 .. 2 : ~RunFunc(a, p) BY <1>7, Zenon DEF RunFunc
<1>10. ~UNCHANGED vars BY <1>2 DEF vars
<1> QED BY <1>3, <1>4, <1>5, <1>6, <1>8, <1>9, <1>10 DEF Next

LEMMA PopGivesOne ==
    ASSUME ExprInv, FilePop
    PROVE  stack' = Last(texts).kept \/ (stack' # << >> /\ Front(stack') = Last(texts).kept)
<1>t. TypeOK BY DEF ExprInv
<1> DEFINE kept == Last(texts).kept
           b == here.operands
<1>1. stack' = kept \o b /\ Len(b) \in {0, 1} BY PopLeaves DEF FilePop
<1>2. kept \in Seq(Value) /\ b \in Seq(Value) BY <1>t, PopTypes DEF TypeOK, Statement
<1> HIDE DEF kept, b
<1>3. CASE Len(b) = 0
  <2>1. b = << >> BY <1>2, <1>3, EmptySeq
  <2>2. kept \o << >> = kept BY <1>2, ConcatEmptySeq
  <2> QED BY <1>1, <2>1, <2>2 DEF kept
<1>4. CASE Len(b) = 1
  <2>1. b # << >> BY <1>2, <1>4, EmptySeq
  <2>2. PICK f \in Seq(Value), x \in Value : b = Append(f, x) BY <1>2, <2>1, SequenceEmptyOrAppend
  <2>3. f = << >>
    <3>1. Len(b) = Len(f) + 1 /\ Len(f) \in Nat BY <2>2, AppendProperties, LenProperties
    <3>2. Len(f) = 0 BY <1>4, <3>1
    <3> QED BY <3>2, EmptySeq
  <2>4. b = <<x>> BY <2>2, <2>3
  <2>5. kept \o <<x>> = Append(kept, x) BY <1>2, AppendIsConcat
  <2>6. Append(kept, x) # << >> /\ Front(Append(kept, x)) = kept BY <1>2, PushPop
  <2> QED BY <1>1, <2>4, <2>5, <2>6 DEF kept
<1> QED BY <1>1, <1>3, <1>4

(* On such a page a function that is called, and a string that is           *)
(* evaluated, puts one value on what its caller had there, or none.         *)
THEOREM ExpressionsCallGivesOneValue == ASSUME Pitfall \subseteq Avoided PROVE Spec => CallGivesOneValue
<1>1. Spec => []ExprInv BY InvHolds
<1>2. ExprInv /\ [Next]_vars =>
          [Len(texts') < Len(texts) =>
              LET kept == Last(texts).kept IN stack' = kept \/ (stack' # << >> /\ Front(stack') = kept)]_vars
  <2>1. SUFFICES ASSUME ExprInv, [Next]_vars, Len(texts') < Len(texts)
                 PROVE  stack' = Last(texts).kept \/ (stack' # << >> /\ Front(stack') = Last(texts).kept)
    OBVIOUS
  <2>2. FilePop BY <2>1, ExpressionsAssumption, OnlyPops DEF ExprInv
  <2> QED BY <2>1, <2>2, PopGivesOne
<1> QED BY <1>1, <1>2, PTL DEF Spec, CallGivesOneValue
=============================================================================
