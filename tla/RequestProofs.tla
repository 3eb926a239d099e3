---------------------------- MODULE RequestProofs ----------------------------
(***************************************************************************)
(* What the requests of a process keep, for any form, block size, limit and *)
(* number of statements: the memory, the header, the variables of a POST    *)
(* and, where the limit is not crossed by the form or inside dbmopen, what  *)
(* Exit has done once.  The second part is what Exit does last in the build *)
(* that counts visits in mSQL: the log of HitLog, for any number of         *)
(* processes, visits and days.                                              *)
(***************************************************************************)
EXTENDS Request, HitLog, SequenceTheorems, FiniteSetTheorems, TLAPS

(* The type of the state the operations take and give back.                 *)
State ==
    [block : [Pool -> Seq(Nat)], avail : [Pool -> Nat], size : [Pool -> Nat],
     over : BOOLEAN, free : Seq(Nat), made : Nat,
     sent : Seq({"header", "text"}), header : BOOLEAN,
     exited : BOOLEAN, stop : BOOLEAN, mapped : BOOLEAN, open : Nat,
     logged : Nat, gone : BOOLEAN]

Once(q)     == \A i, j \in DOMAIN q : q[i] = q[j] => i = j
Apart(q, r) == \A i \in DOMAIN q, j \in DOMAIN r : q[i] # r[j]
Within1(q, n) == \A i \in DOMAIN q : q[i] \in 1 .. n

-----------------------------------------------------------------------------
(* Lists of blocks: one more, one less, and two joined.                     *)
Distinct(q, n) == Within1(q, n) /\ Once(q)
Lacks(q, b)    == \A i \in DOMAIN q : q[i] # b

LEMMA Added ==
    ASSUME NEW q \in Seq(Nat), NEW b \in Nat, NEW n \in Nat, Distinct(q, n), b \in 1 .. n, Lacks(q, b)
    PROVE  /\ Append(q, b) \in Seq(Nat) /\ Append(q, b) # << >> /\ Distinct(Append(q, b), n)
           /\ \A r \in Seq(Nat) : Apart(q, r) /\ Lacks(r, b) => Apart(Append(q, b), r)
           /\ \A r \in Seq(Nat) : Apart(r, q) /\ Lacks(r, b) => Apart(r, Append(q, b))
<1> DEFINE a == Append(q, b)
<1>1. /\ a \in Seq(Nat) /\ Len(a) = Len(q) + 1 /\ DOMAIN a = 1 .. (Len(q) + 1) /\ DOMAIN q = 1 .. Len(q)
      /\ Len(q) \in Nat
      /\ \A i \in 1 .. Len(q) : a[i] = q[i]
      /\ a[Len(q) + 1] = b
  <2>1. /\ a \in Seq(Nat) /\ Len(a) = Len(q) + 1
        /\ \A i \in 1 .. Len(q) : a[i] = q[i]
        /\ a[Len(q) + 1] = b
    BY AppendProperties
  <2> HIDE DEF a
  <2>2. DOMAIN a = 1 .. Len(a) /\ DOMAIN q = 1 .. Len(q) /\ Len(q) \in Nat
    BY <2>1, LenProperties
  <2> QED BY <2>1, <2>2
<1> HIDE DEF a
<1>2. \A i \in DOMAIN a : \/ i \in DOMAIN q /\ a[i] = q[i]
                          \/ i = Len(q) + 1 /\ a[i] = b
  BY <1>1
<1>3. Distinct(a, n)
  BY <1>1, <1>2 DEF Distinct, Within1, Once, Lacks
<1>4. a # << >>
  BY <1>1
<1>5. \A r \in Seq(Nat) : Apart(q, r) /\ Lacks(r, b) => Apart(a, r)
  BY <1>2 DEF Apart, Lacks
<1>6. \A r \in Seq(Nat) : Apart(r, q) /\ Lacks(r, b) => Apart(r, a)
  BY <1>2 DEF Apart, Lacks
<1> QED BY <1>1, <1>3, <1>4, <1>5, <1>6 DEF a

LEMMA Shortened ==
    ASSUME NEW q \in Seq(Nat), NEW n \in Nat, q # << >>, Distinct(q, n)
    PROVE  /\ Tail(q) \in Seq(Nat) /\ Distinct(Tail(q), n) /\ Lacks(Tail(q), Head(q)) /\ Head(q) \in 1 .. n
           /\ \A r \in Seq(Nat) : Apart(q, r) => Apart(Tail(q), r) /\ Lacks(r, Head(q))
           /\ \A r \in Seq(Nat) : Apart(r, q) => Apart(r, Tail(q)) /\ Lacks(r, Head(q))
<1> DEFINE a == Tail(q)
<1>1. /\ a \in Seq(Nat) /\ Len(a) = Len(q) - 1 /\ DOMAIN a = 1 .. (Len(q) - 1) /\ DOMAIN q = 1 .. Len(q)
      /\ Len(q) \in Nat /\ Len(q) > 0 /\ Head(q) = q[1] /\ 1 \in DOMAIN q
      /\ \A i \in 1 .. (Len(q) - 1) : a[i] = q[i + 1]
  OBVIOUS
<1> HIDE DEF a
<1>2. \A i \in DOMAIN a : i \in Int /\ i + 1 \in DOMAIN q /\ i + 1 # 1 /\ a[i] = q[i + 1]
  BY <1>1
<1>3. Distinct(a, n) /\ Lacks(a, Head(q)) /\ Head(q) \in 1 .. n
  <2>1. Within1(a, n) /\ Lacks(a, Head(q)) /\ Head(q) \in 1 .. n
    BY <1>1, <1>2 DEF Distinct, Within1, Once, Lacks
  <2>2. ASSUME NEW i \in DOMAIN a, NEW j \in DOMAIN a, a[i] = a[j] PROVE i = j
    <3>1. i + 1 = j + 1 BY <2>2, <1>2 DEF Distinct, Once
    <3> QED BY <3>1, <1>2
  <2> QED BY <2>1, <2>2 DEF Distinct, Once
<1>4. \A r \in Seq(Nat) : Apart(q, r) => Apart(a, r) /\ Lacks(r, Head(q))
  BY <1>1, <1>2 DEF Apart, Lacks
<1>5. \A r \in Seq(Nat) : Apart(r, q) => Apart(r, a) /\ Lacks(r, Head(q))
  BY <1>1, <1>2 DEF Apart, Lacks
<1> QED BY <1>1, <1>3, <1>4, <1>5 DEF a

LEMMA Joined ==
    ASSUME NEW q \in Seq(Nat), NEW r \in Seq(Nat), NEW n \in Nat, Distinct(q, n), Distinct(r, n), Apart(q, r)
    PROVE  /\ q \o r \in Seq(Nat) /\ Distinct(q \o r, n)
           /\ \A x \in Seq(Nat) : Apart(q, x) /\ Apart(r, x) => Apart(q \o r, x)
<1> DEFINE a == q \o r
<1>1. /\ a \in Seq(Nat) /\ DOMAIN a = 1 .. (Len(q) + Len(r)) /\ DOMAIN q = 1 .. Len(q) /\ DOMAIN r = 1 .. Len(r)
      /\ Len(q) \in Nat /\ Len(r) \in Nat
      /\ \A i \in 1 .. (Len(q) + Len(r)) : a[i] = IF i <= Len(q) THEN q[i] ELSE r[i - Len(q)]
  OBVIOUS
<1> HIDE DEF a
<1>2. \A i \in DOMAIN a : \/ i \in DOMAIN q /\ a[i] = q[i]
                          \/ i > Len(q) /\ i - Len(q) \in DOMAIN r /\ a[i] = r[i - Len(q)]
  BY <1>1
<1>3. Within1(a, n)
  BY <1>2 DEF Distinct, Within1
<1>4. ASSUME NEW i \in DOMAIN a, NEW j \in DOMAIN a, a[i] = a[j] PROVE i = j
  <2>0. i \in Int /\ j \in Int BY <1>1
  <2>1. CASE i \in DOMAIN q /\ a[i] = q[i]
    <3>1. CASE j \in DOMAIN q /\ a[j] = q[j] BY <1>4, <2>1, <3>1 DEF Distinct, Once
    <3>2. CASE j - Len(q) \in DOMAIN r /\ a[j] = r[j - Len(q)] BY <1>4, <2>1, <3>2 DEF Apart
    <3> QED BY <1>2, <3>1, <3>2
  <2>2. CASE i - Len(q) \in DOMAIN r /\ a[i] = r[i - Len(q)]
    <3>1. CASE j \in DOMAIN q /\ a[j] = q[j] BY <1>4, <2>2, <3>1 DEF Apart
    <3>2. CASE j - Len(q) \in DOMAIN r /\ a[j] = r[j - Len(q)]
      <4>1. i - Len(q) = j - Len(q) BY <1>4, <2>2, <3>2 DEF Distinct, Once
      <4> QED BY <4>1, <2>0, <1>1
    <3> QED BY <1>2, <3>1, <3>2
  <2> QED BY <1>2, <2>1, <2>2
<1>5. \A x \in Seq(Nat) : Apart(q, x) /\ Apart(r, x) => Apart(a, x)
  BY <1>2 DEF Apart
<1> QED BY <1>1, <1>3, <1>4, <1>5 DEF a, Distinct, Once

-----------------------------------------------------------------------------
(* Every block made is in one place at most, and a pool that has counted an *)
(* allocation has a block, but for those of X, which are about to get one.  *)
Memory(z, X) ==
    /\ z \in State
    /\ \A p \in Pool : z.avail[p] <= PerBlock
    /\ Distinct(z.free, z.made)
    /\ \A p \in Pool : Distinct(z.block[p], z.made) /\ Apart(z.free, z.block[p])
    /\ \A p, q \in Pool : p # q => Apart(z.block[p], z.block[q])
    /\ \A p \in Pool \ X : z.size[p] # 0 => z.block[p] # << >>

(* What the operations on memory leave alone, and what those that print do. *)
Rest(z)   == <<z.sent, z.header, z.exited, z.stop, z.mapped, z.open, z.logged, z.gone>>
Serves(z) == <<z.exited, z.stop, z.mapped, z.open, z.logged, z.gone>>

(* One field of the state set anew.                                         *)
LEMMA SetMade   == ASSUME NEW z \in State, NEW n \in Nat PROVE [z EXCEPT !.made = n] \in State
  BY DEF State
LEMMA SetFree   == ASSUME NEW z \in State, NEW q \in Seq(Nat) PROVE [z EXCEPT !.free = q] \in State
  BY DEF State
LEMMA SetBlock  == ASSUME NEW z \in State, NEW p \in Pool, NEW q \in Seq(Nat) PROVE [z EXCEPT !.block[p] = q] \in State
  BY DEF State
LEMMA SetAvail  == ASSUME NEW z \in State, NEW p \in Pool, NEW n \in Nat PROVE [z EXCEPT !.avail[p] = n] \in State
  BY DEF State
LEMMA SetSize   == ASSUME NEW z \in State, NEW p \in Pool, NEW n \in Nat PROVE [z EXCEPT !.size[p] = n] \in State
  BY DEF State
LEMMA SetOver   == ASSUME NEW z \in State, NEW b \in BOOLEAN PROVE [z EXCEPT !.over = b] \in State
  BY DEF State
LEMMA SetSent   == ASSUME NEW z \in State, NEW q \in Seq({"header", "text"}) PROVE [z EXCEPT !.sent = q] \in State
  BY DEF State
LEMMA SetHeader == ASSUME NEW z \in State, NEW b \in BOOLEAN PROVE [z EXCEPT !.header = b] \in State
  BY DEF State
LEMMA SetExited == ASSUME NEW z \in State, NEW b \in BOOLEAN PROVE [z EXCEPT !.exited = b] \in State
  BY DEF State
LEMMA SetStop   == ASSUME NEW z \in State, NEW b \in BOOLEAN PROVE [z EXCEPT !.stop = b] \in State
  BY DEF State
LEMMA SetMapped == ASSUME NEW z \in State, NEW b \in BOOLEAN PROVE [z EXCEPT !.mapped = b] \in State
  BY DEF State
LEMMA SetOpen   == ASSUME NEW z \in State, NEW n \in Nat PROVE [z EXCEPT !.open = n] \in State
  BY DEF State
LEMMA SetLogged == ASSUME NEW z \in State, NEW n \in Nat PROVE [z EXCEPT !.logged = n] \in State
  BY DEF State
LEMMA SetGone   == ASSUME NEW z \in State, NEW b \in BOOLEAN PROVE [z EXCEPT !.gone = b] \in State
  BY DEF State

-----------------------------------------------------------------------------
(* The memory.                                                             *)
LEMMA NewBlock ==
    ASSUME NEW X, NEW z, Memory(z, X)
    PROVE  LET b == new_block(z)[1]  u == new_block(z)[2]
           IN  /\ Memory(u, X) /\ b \in 1 .. u.made /\ z.made <= u.made
               /\ u.block = z.block /\ u.avail = z.avail /\ u.size = z.size /\ u.over = z.over
               /\ Rest(u) = Rest(z)
               /\ Lacks(u.free, b) /\ \A p \in Pool : Lacks(u.block[p], b)
<1> DEFINE b == new_block(z)[1]
           u == new_block(z)[2]
<1>0. z \in State /\ z.made \in Nat /\ z.free \in Seq(Nat) /\ \A p \in Pool : z.block[p] \in Seq(Nat)
  BY DEF Memory, State
<1>1. CASE z.free = << >>
  <2> DEFINE n == z.made + 1
  <2>1. b = z.made + 1 /\ u = [z EXCEPT !.made = n] /\ n \in Nat
    BY <1>0, <1>1 DEF new_block
  <2> HIDE DEF n
  <2>2. u \in State
    BY <1>0, <2>1, SetMade
  <2>3. u.made = z.made + 1 /\ u.free = z.free /\ u.block = z.block /\ u.avail = z.avail
        /\ u.size = z.size /\ u.over = z.over /\ Rest(u) = Rest(z)
    BY <1>0, <2>1 DEF State, Rest, n
  <2>4. Memory(u, X)
    BY <1>0, <2>2, <2>3 DEF Memory, Distinct, Within1
  <2>5. Lacks(u.free, b) /\ \A p \in Pool : Lacks(u.block[p], b)
    BY <1>0, <2>1, <2>3 DEF Memory, Distinct, Within1, Lacks
  <2> QED BY <1>0, <2>1, <2>3, <2>4, <2>5
<1>2. CASE z.free # << >>
  <2>1. b = Head(z.free) /\ u = [z EXCEPT !.free = Tail(z.free)]
    BY <1>2 DEF new_block
  <2>2. /\ Tail(z.free) \in Seq(Nat) /\ Distinct(Tail(z.free), z.made) /\ Lacks(Tail(z.free), b)
        /\ b \in 1 .. z.made
        /\ \A r \in Seq(Nat) : Apart(z.free, r) => Apart(Tail(z.free), r) /\ Lacks(r, b)
    BY <1>0, <1>2, <2>1, Shortened DEF Memory
  <2>3. u \in State
    BY <1>0, <2>1, <2>2, SetFree
  <2>4. u.made = z.made /\ u.free = Tail(z.free) /\ u.block = z.block /\ u.avail = z.avail
        /\ u.size = z.size /\ u.over = z.over /\ Rest(u) = Rest(z)
    BY <1>0, <2>1 DEF State, Rest
  <2>5. \A p \in Pool : Apart(u.free, u.block[p]) /\ Lacks(u.block[p], b)
    BY <1>0, <2>2, <2>4 DEF Memory
  <2>6. Memory(u, X)
    BY <2>2, <2>3, <2>4, <2>5 DEF Memory
  <2> QED BY <1>0, <2>2, <2>4, <2>5, <2>6
<1> QED BY <1>1, <1>2

(* A block more in pool p.                                                 *)
WithBlock(v, p, b) == [v EXCEPT !.block[p] = Append(v.block[p], b), !.avail[p] = PerBlock - 1]

Unused(v, b) == b \in 1 .. v.made /\ Lacks(v.free, b) /\ \A q \in Pool : Lacks(v.block[q], b)
Grown(u, v, Y) ==
    Memory(u, Y) /\ u.made = v.made /\ u.size = v.size /\ u.over = v.over /\ Rest(u) = Rest(v)

LEMMA BlockMore ==
    ASSUME NEW X, NEW p \in Pool, NEW v, Memory(v, X), NEW b, Unused(v, b)
    PROVE  Grown(WithBlock(v, p, b), v, X \ {p})
<1> DEFINE a == Append(v.block[p], b)
           u == WithBlock(v, p, b)
           w == [v EXCEPT !.block[p] = a]
<1>a. b \in 1 .. v.made /\ Lacks(v.free, b) /\ \A q \in Pool : Lacks(v.block[q], b)
  BY DEF Unused
<1>0. /\ v \in State /\ v.made \in Nat /\ v.free \in Seq(Nat) /\ PerBlock - 1 \in Nat /\ b \in Nat
      /\ \A q \in Pool : v.block[q] \in Seq(Nat)
  BY <1>a, RequestAssumption DEF Memory, State, RequestAssumption
<1>1. /\ a \in Seq(Nat) /\ a # << >> /\ Distinct(a, v.made)
      /\ \A r \in Seq(Nat) : Apart(v.block[p], r) /\ Lacks(r, b) => Apart(a, r)
      /\ \A r \in Seq(Nat) : Apart(r, v.block[p]) /\ Lacks(r, b) => Apart(r, a)
  BY <1>0, <1>a, Added DEF Memory
<1> HIDE DEF a
<1>2. w \in State
  BY <1>0, <1>1, SetBlock
<1>3. u = [w EXCEPT !.avail[p] = PerBlock - 1]
  BY <1>0 DEF State, WithBlock, a
<1> HIDE DEF u
<1>4. u \in State
  <2> HIDE DEF w
  <2> QED BY <1>0, <1>2, <1>3, SetAvail
<1>5. /\ u.made = v.made /\ u.free = v.free /\ u.size = v.size /\ u.over = v.over
      /\ u.block = [v.block EXCEPT ![p] = a] /\ u.avail = [v.avail EXCEPT ![p] = PerBlock - 1]
      /\ Rest(u) = Rest(v)
  BY <1>0, <1>3 DEF State, Rest
<1>6. u.block[p] = a /\ \A q \in Pool \ {p} : u.block[q] = v.block[q]
  BY <1>0, <1>5 DEF State
<1>7. \A q \in Pool : u.avail[q] <= PerBlock
  BY <1>0, <1>5, RequestAssumption DEF Memory, State, RequestAssumption
<1>8. \A q \in Pool : Distinct(u.block[q], u.made) /\ Apart(u.free, u.block[q])
  <2> TAKE q \in Pool
  <2>1. CASE q = p BY <2>1, <1>0, <1>a, <1>1, <1>5, <1>6 DEF Memory
  <2>2. CASE q # p BY <2>2, <1>5, <1>6 DEF Memory
  <2> QED BY <2>1, <2>2
<1>9. ASSUME NEW q \in Pool, NEW r \in Pool, q # r PROVE Apart(u.block[q], u.block[r])
  <2>0. Apart(v.block[q], v.block[r]) BY <1>9 DEF Memory
  <2>1. CASE q = p BY <2>0, <2>1, <1>0, <1>a, <1>1, <1>6, <1>9
  <2>2. CASE r = p BY <2>0, <2>2, <1>0, <1>a, <1>1, <1>6, <1>9
  <2>3. CASE q # p /\ r # p BY <2>0, <2>3, <1>6
  <2> QED BY <2>1, <2>2, <2>3
<1>10. ASSUME NEW q \in Pool \ (X \ {p}), u.size[q] # 0 PROVE u.block[q] # << >>
  <2>1. CASE q = p BY <2>1, <1>1, <1>6
  <2>2. CASE q # p BY <2>2, <1>5, <1>6, <1>10 DEF Memory
  <2> QED BY <2>1, <2>2
<1> QED BY <1>4, <1>5, <1>7, <1>8, <1>9, <1>10 DEF Memory, Grown, u

LEMMA Palloc ==
    ASSUME NEW X, NEW p \in Pool, NEW z, Memory(z, X)
    PROVE  LET u == palloc(z, p)
           IN  /\ Memory(u, X \ {p}) /\ u.size = z.size /\ u.over = z.over /\ Rest(u) = Rest(z)
               /\ z.made <= u.made
<1> DEFINE u == palloc(z, p)
<1>0. PerBlock \in Nat \ {0} /\ z \in State /\ z.made \in Nat
  BY RequestAssumption DEF RequestAssumption, Memory, State
<1>1. CASE z.block[p] # << >> /\ z.avail[p] > 0
  <2>1. u = [z EXCEPT !.avail[p] = z.avail[p] - 1] /\ z.avail[p] - 1 \in Nat
    BY <1>0, <1>1 DEF palloc, State
  <2>2. u \in State
    BY <1>0, <2>1, SetAvail
  <2>3. /\ u.made = z.made /\ u.free = z.free /\ u.block = z.block /\ u.size = z.size /\ u.over = z.over
        /\ Rest(u) = Rest(z) /\ u.avail = [z.avail EXCEPT ![p] = z.avail[p] - 1]
    BY <1>0, <2>1 DEF State, Rest
  <2>4. \A q \in Pool : u.avail[q] <= PerBlock
    BY <2>3, <1>0 DEF Memory, State
  <2>5. Memory(u, X \ {p})
    BY <2>2, <2>3, <2>4, <1>1 DEF Memory
  <2> QED BY <1>0, <2>3, <2>5
<1>2. CASE ~(z.block[p] # << >> /\ z.avail[p] > 0)
  <2> DEFINE b == new_block(z)[1]
             w == new_block(z)[2]
  <2>1. u = WithBlock(w, p, b)
    BY <1>2 DEF palloc, WithBlock
  <2>2. /\ Memory(w, X) /\ b \in 1 .. w.made /\ z.made <= w.made
        /\ w.size = z.size /\ w.over = z.over /\ Rest(w) = Rest(z)
        /\ Lacks(w.free, b) /\ \A q \in Pool : Lacks(w.block[q], b)
    BY NewBlock
  <2> HIDE DEF b, w, u
  <2>3. Unused(w, b)
    BY <2>2 DEF Unused
  <2>5. Grown(WithBlock(w, p, b), w, X \ {p})
    BY <2>2, <2>3, BlockMore
  <2>6. Grown(u, w, X \ {p})
    BY <2>1, <2>5
  <2>4. /\ Memory(u, X \ {p})
        /\ u.size = z.size /\ u.over = z.over /\ Rest(u) = Rest(z) /\ z.made <= u.made
    BY <2>2, <2>6 DEF Grown
  <2> QED BY <2>4 DEF u
<1> QED BY <1>1, <1>2

-----------------------------------------------------------------------------
(* What is sent: one header, before any text.                              *)
Talk(z) ==
    /\ z.header => z.sent \in {<<"header">>, <<"header", "text">>}
    /\ ~z.header => z.sent = << >>

LEMMA RestServes ==
    ASSUME NEW z, NEW u, Rest(u) = Rest(z)
    PROVE  Serves(u) = Serves(z) /\ u.sent = z.sent /\ u.header = z.header /\ u.exited = z.exited /\ (Talk(z) => Talk(u))
  BY DEF Rest, Serves, Talk

(* Nothing of the memory but the counts of the pools of X is touched.       *)
LEMMA SameMemory ==
    ASSUME NEW X, NEW z, Memory(z, X), NEW u \in State,
           u.made = z.made, u.free = z.free, u.block = z.block, u.avail = z.avail,
           \A p \in Pool \ X : u.size[p] = z.size[p]
    PROVE  Memory(u, X)
  BY DEF Memory

LEMMA FewerMemory == ASSUME NEW X, NEW Y, NEW z, Memory(z, X), X \subseteq Y PROVE Memory(z, Y)
  BY DEF Memory

LEMMA CountUp ==
    ASSUME NEW X, NEW p \in Pool, NEW z, Memory(z, X)
    PROVE  LET u == [z EXCEPT !.size[p] = @ + 1]
           IN  Memory(u, X \cup {p}) /\ Rest(u) = Rest(z) /\ u.over = z.over /\ u.made = z.made
<1> DEFINE n == z.size[p] + 1
           u == [z EXCEPT !.size[p] = n]
<1>0. z \in State BY DEF Memory
<1>1. n \in Nat BY <1>0 DEF State
<1> HIDE DEF n
<1>2. u \in State BY <1>0, <1>1, SetSize
<1>3. /\ u.made = z.made /\ u.free = z.free /\ u.block = z.block /\ u.avail = z.avail /\ Rest(u) = Rest(z)
      /\ u.over = z.over
      /\ \A q \in Pool \ {p} : u.size[q] = z.size[q]
  BY <1>0 DEF State, Rest
<1>4. Memory(z, X \cup {p}) BY FewerMemory
<1>5. Memory(u, X \cup {p})
  BY <1>2, <1>3, <1>4, SameMemory
<1>6. u = [z EXCEPT !.size[p] = @ + 1]
  BY DEF n
<1> HIDE DEF u
<1>7. Memory(u, X \cup {p}) /\ Rest(u) = Rest(z) /\ u.over = z.over /\ u.made = z.made
  BY <1>3, <1>5
<1> QED BY <1>6, <1>7

LEMMA GetsMemory ==
    ASSUME NEW X, NEW p \in Pool, NEW z, Memory(z, X)
    PROVE  Memory(Gets(z, p), X) /\ Rest(Gets(z, p)) = Rest(z) /\ Gets(z, p).over = z.over
<1> DEFINE v == [z EXCEPT !.size[p] = @ + 1]
<1>1. Memory(v, X \cup {p}) /\ Rest(v) = Rest(z) /\ v.over = z.over
  BY CountUp, SMTT(60)
<1>2. Gets(z, p) = palloc(v, p)
  BY DEF Gets
<1> HIDE DEF v
<1>3. Memory(palloc(v, p), (X \cup {p}) \ {p}) /\ palloc(v, p).over = v.over /\ Rest(palloc(v, p)) = Rest(v)
  BY <1>1, Palloc
<1>4. Memory(palloc(v, p), X)
  BY <1>3, FewerMemory
<1> QED BY <1>1, <1>2, <1>3, <1>4

LEMMA Two ==
    ASSUME NEW S, NEW x \in S, NEW y \in S
    PROVE  Append(<<x>>, y) = <<x, y>> /\ <<x, y>> \in Seq(S)
<1> DEFINE h == <<x>>
           a == Append(h, y)
           d == <<x, y>>
<1>1. h \in Seq(S) /\ Len(h) = 1 /\ h[1] = x
  OBVIOUS
<1>2. d \in Seq(S) /\ Len(d) = 2 /\ d[1] = x /\ d[2] = y
  OBVIOUS
<1> HIDE DEF h, d
<1>3. a \in Seq(S) /\ Len(a) = Len(h) + 1 /\ (\A i \in 1 .. Len(h) : a[i] = h[i]) /\ a[Len(h) + 1] = y
  <2> HIDE DEF a
  <2>1. a \in Seq(S) /\ Len(a) = Len(h) + 1 BY <1>1, AppendProperties DEF a
  <2>2. \A i \in 1 .. Len(h) : a[i] = h[i] BY <1>1, AppendProperties DEF a
  <2>3. a[Len(h) + 1] = y BY <1>1, AppendProperties DEF a
  <2> QED BY <2>1, <2>2, <2>3
<1> HIDE DEF a
<1>4. Len(a) = 2 /\ a[1] = x /\ a[2] = y
  BY <1>1, <1>3
<1>5. \A i \in 1 .. Len(a) : a[i] = d[i]
  <2>1. \A i \in 1 .. Len(a) : i = 1 \/ i = 2 BY <1>4
  <2> QED BY <1>2, <1>4, <2>1
<1>6. a = d
  BY <1>2, <1>3, <1>4, <1>5, SeqEqual
<1> QED BY <1>2, <1>6 DEF h, a, d

LEMMA TwoSent ==
    Append(<<"header">>, "text") = <<"header", "text">> /\ <<"header", "text">> \in Seq({"header", "text"})
  BY Two

LEMMA SendsText ==
    ASSUME NEW X, NEW z, Memory(z, X), Talk(z), z.header
    PROVE  LET u == Sends(z, "text")
           IN  Memory(u, X) /\ Talk(u) /\ u.header /\ Serves(u) = Serves(z) /\ u.over = z.over
<1> DEFINE u == Sends(z, "text")
<1>0. z \in State BY DEF Memory
<1>1. CASE z.sent = <<"header", "text">>
  <2>1. u = z BY <1>1 DEF Sends, Last
  <2> QED BY <2>1
<1>2. CASE z.sent = <<"header">>
  <2> DEFINE q == Append(z.sent, "text")
  <2>1. u = [z EXCEPT !.sent = q] BY <1>2 DEF Sends, Last
  <2>2. q \in Seq({"header", "text"}) /\ q = <<"header", "text">>
    <3>1. q = Append(<<"header">>, "text") BY <1>2
    <3> QED BY <3>1, TwoSent
  <2> HIDE DEF q, u
  <2>3. u \in State BY <1>0, <2>1, <2>2, SetSent
  <2>4. /\ u.made = z.made /\ u.free = z.free /\ u.block = z.block /\ u.avail = z.avail /\ u.size = z.size
        /\ u.over = z.over /\ u.sent = q /\ u.header = z.header /\ Serves(u) = Serves(z)
    BY <1>0, <2>1 DEF State, Serves
  <2>5. Memory(u, X) BY <2>3, <2>4, SameMemory
  <2> QED BY <2>2, <2>4, <2>5 DEF Talk, u
<1> QED BY <1>1, <1>2 DEF Talk

LEMMA SendsHeader ==
    ASSUME NEW X, NEW z, Memory(z, X), Talk(z)
    PROVE  LET u == header(z)
           IN  Memory(u, X) /\ Talk(u) /\ u.header /\ Serves(u) = Serves(z) /\ u.over = z.over
<1> DEFINE u == header(z)
<1>0. z \in State BY DEF Memory
<1>1. CASE z.header
  <2>1. u = z BY <1>1 DEF header
  <2> QED BY <1>1, <2>1
<1>2. CASE ~z.header
  <2> DEFINE v == [z EXCEPT !.header = TRUE]
             q == Append(z.sent, "header")
  <2>1. v.sent = z.sent /\ z.sent = << >> BY <1>0, <1>2 DEF Talk, State
  <2>2. u = [v EXCEPT !.sent = q] BY <1>2, <2>1 DEF header, Sends
  <2>3. q \in Seq({"header", "text"}) /\ q = <<"header">> BY <2>1
  <2> HIDE DEF q, u
  <2>4. v \in State BY <1>0, SetHeader
  <2>5. u \in State
    <3> HIDE DEF v
    <3> QED BY <2>2, <2>3, <2>4, SetSent
  <2>6. /\ u.made = z.made /\ u.free = z.free /\ u.block = z.block /\ u.avail = z.avail /\ u.size = z.size
        /\ u.over = z.over /\ u.sent = q /\ u.header /\ Serves(u) = Serves(z)
    BY <1>0, <2>2 DEF State, Serves
  <2>7. Memory(u, X) BY <2>5, <2>6, SameMemory
  <2> QED BY <2>3, <2>6, <2>7 DEF Talk, u
<1> QED BY <1>1, <1>2

LEMMA Reports ==
    ASSUME NEW X, NEW z, Memory(z, X), Talk(z)
    PROVE  LET u == Report(z)
           IN  Memory(u, X) /\ Talk(u) /\ u.header /\ Serves(u) = Serves(z) /\ u.over = z.over
<1> DEFINE a == header(z)
           b == Gets(a, 2)
           c == Gets(b, 0)
<1>1. Memory(a, X) /\ Talk(a) /\ a.header /\ Serves(a) = Serves(z) /\ a.over = z.over
  BY SendsHeader
<1> HIDE DEF a
<1>2. Memory(b, X) /\ Rest(b) = Rest(a) /\ b.over = a.over
  BY <1>1, GetsMemory DEF Pool
<1> HIDE DEF b
<1>3. Memory(c, X) /\ Rest(c) = Rest(b) /\ c.over = b.over
  BY <1>2, GetsMemory DEF Pool
<1> HIDE DEF c
<1>4. Talk(c) /\ c.header /\ Serves(c) = Serves(a)
  <2>1. Rest(c) = Rest(a) BY <1>2, <1>3
  <2> QED BY <2>1, <1>1, RestServes
<1>5. Report(z) = Sends(c, "text")
  BY DEF Report, a, b, c
<1>6. LET u == Sends(c, "text")
      IN  Memory(u, X) /\ Talk(u) /\ u.header /\ Serves(u) = Serves(c) /\ u.over = c.over
  BY <1>3, <1>4, SendsText
<1> QED BY <1>1, <1>2, <1>3, <1>4, <1>5, <1>6

-----------------------------------------------------------------------------
(* What Exit does once, and an allocation that crosses the limit does       *)
(* through it.                                                             *)
Served(z) ==
    /\ z.exited => z.header /\ z.logged \in {0, 1} /\ (z.logged = 0 => z.gone)
    /\ ~z.exited => z.logged = 0
    /\ z.exited /\ Pitfall \subseteq Avoided => z.open = 0 /\ ~z.mapped

Whole(z) == Memory(z, {}) /\ Talk(z) /\ Served(z)

LEMMA ServesServed ==
    ASSUME NEW z, NEW u, Serves(u) = Serves(z), Served(z), z.header => u.header
    PROVE  Served(u) /\ u.exited = z.exited /\ u.gone = z.gone /\ u.logged = z.logged
  BY DEF Serves, Served

LEMMA ShutsOnce ==
    ASSUME NEW X, NEW z, Memory(z, X), Talk(z)
    PROVE  LET u == Shuts(z)
           IN  /\ Memory(u, X) /\ Talk(u) /\ u.header /\ u.exited /\ u.over = z.over /\ u.logged = z.logged
               /\ u.gone = z.gone /\ ~u.mapped
<1> DEFINE a == [z EXCEPT !.exited = TRUE]
           b == header(a)
           u == [b EXCEPT !.mapped = FALSE]
<1>0. z \in State BY DEF Memory
<1>1. a \in State BY <1>0, SetExited
<1>2. /\ a.made = z.made /\ a.free = z.free /\ a.block = z.block /\ a.avail = z.avail /\ a.size = z.size
      /\ a.over = z.over /\ a.sent = z.sent /\ a.header = z.header /\ a.exited /\ a.logged = z.logged
      /\ a.gone = z.gone
  BY <1>0 DEF State
<1>3. Memory(a, X) /\ Talk(a)
  BY <1>1, <1>2, SameMemory DEF Talk
<1> HIDE DEF a
<1>4. Memory(b, X) /\ Talk(b) /\ b.header /\ Serves(b) = Serves(a) /\ b.over = a.over
  BY <1>3, SendsHeader
<1> HIDE DEF b
<1>5. b.exited = a.exited /\ b.logged = a.logged /\ b.gone = a.gone
  BY <1>4 DEF Serves
<1>6. b \in State BY <1>4 DEF Memory
<1>7. u \in State BY <1>6, SetMapped
<1>8. /\ u.made = b.made /\ u.free = b.free /\ u.block = b.block /\ u.avail = b.avail /\ u.size = b.size
      /\ u.over = b.over /\ u.sent = b.sent /\ u.header = b.header /\ u.exited = b.exited
      /\ u.logged = b.logged /\ u.gone = b.gone /\ ~u.mapped
  BY <1>6 DEF State
<1>9. Memory(u, X) /\ Talk(u)
  BY <1>4, <1>7, <1>8, SameMemory DEF Talk
<1>10. Shuts(z) = u
  BY DEF Shuts, a, b
<1> QED BY <1>2, <1>4, <1>5, <1>8, <1>9, <1>10

LEMMA LoggedOnce ==
    ASSUME NEW X, NEW z, Memory(z, X), Talk(z)
    PROVE  LET u == Logged(z)
           IN  /\ Memory(u, X) /\ Talk(u) /\ u.header = z.header /\ u.exited = z.exited /\ u.mapped = z.mapped
               /\ u.over = z.over /\ u.gone = z.gone /\ u.logged = z.logged + 1
<1> DEFINE n == z.logged + 1
           u == [z EXCEPT !.logged = n]
<1>0. z \in State BY DEF Memory
<1>1. n \in Nat BY <1>0 DEF State
<1> HIDE DEF n
<1>2. u \in State BY <1>0, <1>1, SetLogged
<1>3. /\ u.made = z.made /\ u.free = z.free /\ u.block = z.block /\ u.avail = z.avail /\ u.size = z.size
      /\ u.over = z.over /\ u.sent = z.sent /\ u.header = z.header /\ u.exited = z.exited
      /\ u.mapped = z.mapped /\ u.gone = z.gone /\ u.logged = n
  BY <1>0 DEF State
<1>4. Memory(u, X) /\ Talk(u)
  BY <1>2, <1>3, SameMemory DEF Talk
<1>5. Logged(z) = u /\ n = z.logged + 1
  BY DEF Logged, n
<1> QED BY <1>3, <1>4, <1>5

LEMMA ClosesOnce ==
    ASSUME NEW X, NEW z, Memory(z, X), Talk(z), z.header, z.exited, ~z.mapped
    PROVE  LET u == Closes(z)
           IN  /\ Memory(u, X) /\ Talk(u) /\ u.exited /\ u.header /\ u.over = z.over
               /\ z.logged \in {0, 1} /\ (z.logged = 0 => z.gone) => Served(u)
<1> DEFINE a == [z EXCEPT !.open = 0]
           u == [a EXCEPT !.stop = TRUE]
<1>0. z \in State BY DEF Memory
<1>1. a \in State BY <1>0, SetOpen
<1>2. u \in State
  <2> HIDE DEF a
  <2> QED BY <1>1, SetStop
<1>3. /\ u.made = z.made /\ u.free = z.free /\ u.block = z.block /\ u.avail = z.avail /\ u.size = z.size
      /\ u.over = z.over /\ u.sent = z.sent /\ u.header = z.header /\ u.exited = z.exited
      /\ u.mapped = z.mapped /\ u.gone = z.gone /\ u.logged = z.logged /\ u.open = 0
  BY <1>0 DEF State
<1>4. Closes(z) = u
  BY <1>0 DEF Closes, State
<1> HIDE DEF u
<1>5. Memory(u, X) /\ Talk(u)
  BY <1>2, <1>3, SameMemory DEF Talk
<1>6. z.logged \in {0, 1} /\ (z.logged = 0 => z.gone) => Served(u)
  BY <1>3 DEF Served
<1> QED BY <1>3, <1>4, <1>5, <1>6

LEMMA ExitsOver ==
    ASSUME NEW X, NEW z, Memory(z, X), Talk(z)
    PROVE  LET u == ExitOver(z)
           IN  /\ Memory(u, X) /\ Talk(u) /\ u.exited /\ u.over = z.over /\ (z.header => u.header)
               /\ z.exited => u = z
               /\ Served(z) => Served(u)
<1>1. CASE z.exited
  <2>1. ExitOver(z) = z BY <1>1 DEF ExitOver
  <2> QED BY <1>1, <2>1
<1>2. CASE ~z.exited
  <2> DEFINE a == Shuts(z)
             b == Gets(a, 1)
             c == Logged(b)
             u == Closes(c)
  <2>1. ExitOver(z) = u BY <1>2 DEF ExitOver
  <2>2. /\ Memory(a, X) /\ Talk(a) /\ a.header /\ a.exited /\ ~a.mapped /\ a.over = z.over
        /\ a.logged = z.logged /\ a.gone = z.gone
    BY ShutsOnce
  <2> HIDE DEF a
  <2>3. Memory(b, X) /\ Rest(b) = Rest(a) /\ b.over = a.over
    BY <2>2, GetsMemory DEF Pool
  <2> HIDE DEF b
  <2>4. Talk(b) /\ b.header /\ b.exited /\ ~b.mapped /\ b.logged = z.logged /\ b.gone = z.gone
    BY <2>2, <2>3, RestServes DEF Rest
  <2>5. /\ Memory(c, X) /\ Talk(c) /\ c.header /\ c.exited /\ ~c.mapped /\ c.over = b.over
        /\ c.logged = z.logged + 1
    BY <2>3, <2>4, LoggedOnce
  <2> HIDE DEF c
  <2>6. /\ Memory(u, X) /\ Talk(u) /\ u.exited /\ u.header /\ u.over = c.over
        /\ c.logged \in {0, 1} /\ (c.logged = 0 => c.gone) => Served(u)
    BY <2>5, ClosesOnce
  <2>7. Served(z) => c.logged = 1
    BY <1>2, <2>5 DEF Served
  <2> QED BY <1>2, <2>1, <2>2, <2>3, <2>5, <2>6, <2>7
<1> QED BY <1>1, <1>2

(* The allocation that crosses the limit reports it and exits, or nothing   *)
(* but memory changes.                                                     *)
LEMMA AllocKeeps ==
    ASSUME NEW X, NEW p \in Pool, NEW z, Memory(z, X), Talk(z)
    PROVE  LET u == Alloc(z, p)
           IN  /\ Memory(u, X) /\ Talk(u) /\ (z.header => u.header)
               /\ z.exited => Serves(u) = Serves(z)
               /\ Served(z) => Served(u)
<1> DEFINE v == [z EXCEPT !.size[p] = @ + 1]
<1>1. Memory(v, X \cup {p}) /\ Rest(v) = Rest(z) /\ v.over = z.over
  BY CountUp
<1>2. Alloc(z, p) = IF v.size[p] > MaxData /\ ~v.over THEN palloc(ExitOver(Report([v EXCEPT !.over = TRUE])), p)
                    ELSE palloc(v, p)
  BY DEF Alloc
<1> HIDE DEF v
<1>3. ASSUME NEW w, Memory(w, X \cup {p})
      PROVE  Memory(palloc(w, p), X) /\ Rest(palloc(w, p)) = Rest(w)
  <2>1. Memory(palloc(w, p), (X \cup {p}) \ {p}) /\ Rest(palloc(w, p)) = Rest(w)
    BY <1>3, Palloc
  <2> QED BY <2>1, FewerMemory
<1>4. ASSUME NEW w, NEW u, Rest(u) = Rest(w), Talk(w)
      PROVE  Talk(u) /\ u.header = w.header /\ Serves(u) = Serves(w) /\ (Served(w) => Served(u))
  <2>1. Talk(u) /\ u.header = w.header /\ Serves(u) = Serves(w)
    BY <1>4, RestServes
  <2> QED BY <2>1, ServesServed
<1>5. Talk(v) /\ v.header = z.header /\ Serves(v) = Serves(z) /\ (Served(z) => Served(v))
  BY <1>1, <1>4
<1>6. CASE ~(v.size[p] > MaxData /\ ~v.over)
  <2> DEFINE u == palloc(v, p)
  <2>1. Alloc(z, p) = u BY <1>2, <1>6
  <2>2. Memory(u, X) /\ Rest(u) = Rest(v) BY <1>1, <1>3
  <2> HIDE DEF u
  <2>3. Talk(u) /\ u.header = v.header /\ Serves(u) = Serves(v) /\ (Served(v) => Served(u)) BY <1>4, <1>5, <2>2
  <2> QED BY <1>5, <2>1, <2>2, <2>3
<1>7. CASE v.size[p] > MaxData /\ ~v.over
  <2> DEFINE Y == X \cup {p}
             a == [v EXCEPT !.over = TRUE]
             b == Report(a)
             c == ExitOver(b)
             u == palloc(c, p)
  <2>1. Alloc(z, p) = u BY <1>2, <1>7
  <2>2. Memory(a, Y) /\ Rest(a) = Rest(v)
    <3>0. v \in State BY <1>1 DEF Memory
    <3>1. a \in State BY <3>0, SetOver
    <3>2. /\ a.made = v.made /\ a.free = v.free /\ a.block = v.block /\ a.avail = v.avail /\ a.size = v.size
          /\ Rest(a) = Rest(v)
      BY <3>0 DEF State, Rest
    <3> QED BY <1>1, <3>1, <3>2, SameMemory
  <2> HIDE DEF a, Y
  <2>3. Talk(a) /\ a.header = v.header /\ Serves(a) = Serves(v) /\ (Served(v) => Served(a))
    BY <1>4, <1>5, <2>2
  <2>4. Memory(b, Y) /\ Talk(b) /\ b.header /\ Serves(b) = Serves(a)
    BY <2>2, <2>3, Reports
  <2> HIDE DEF b
  <2>5. (Served(a) => Served(b)) /\ b.exited = a.exited /\ a.exited = z.exited
    BY <1>5, <2>3, <2>4, ServesServed DEF Serves
  <2>6. /\ Memory(c, Y) /\ Talk(c) /\ c.header /\ (b.exited => c = b)
        /\ Served(b) => Served(c)
    BY <2>4, ExitsOver
  <2> HIDE DEF c
  <2>7. Memory(u, X) /\ Rest(u) = Rest(c)
    BY <1>3, <2>6 DEF Y
  <2> HIDE DEF u
  <2>8. Talk(u) /\ u.header = c.header /\ Serves(u) = Serves(c) /\ (Served(c) => Served(u))
    BY <1>4, <2>6, <2>7
  <2> QED BY <1>5, <2>1, <2>3, <2>4, <2>5, <2>6, <2>7, <2>8
<1> QED BY <1>6, <1>7

LEMMA AllocWhole == ASSUME NEW z, NEW p \in Pool, Whole(z) PROVE Whole(Alloc(z, p))
  BY AllocKeeps DEF Whole

LEMMA ErrorWhole == ASSUME NEW z, Whole(z) PROVE Whole(Error(z))
<1> DEFINE a == header(z)
           b == Alloc(a, 2)
           c == Alloc(b, 0)
           u == Sends(c, "text")
<1>1. Memory(a, {}) /\ Talk(a) /\ a.header /\ Serves(a) = Serves(z)
  BY SendsHeader DEF Whole
<1> HIDE DEF a
<1>2. Whole(a)
  BY <1>1, ServesServed DEF Whole
<1>3. Memory(b, {}) /\ Talk(b) /\ Served(b) /\ b.header
  BY <1>1, <1>2, AllocKeeps DEF Pool, Whole
<1> HIDE DEF b
<1>4. Memory(c, {}) /\ Talk(c) /\ Served(c) /\ c.header
  BY <1>3, AllocKeeps DEF Pool
<1> HIDE DEF c
<1>5. Memory(u, {}) /\ Talk(u) /\ u.header /\ Serves(u) = Serves(c)
  BY <1>4, SendsText
<1>6. Error(z) = u
  BY DEF Error, a, b, c
<1> HIDE DEF u
<1> QED BY <1>4, <1>5, <1>6, ServesServed DEF Whole

(* Exit, with the footer, which logs, or after the client has left.         *)
LEMMA ExitWhole ==
    ASSUME NEW z, Whole(z), NEW footer \in BOOLEAN, footer \/ z.gone
    PROVE  Whole(Exit(z, footer)) /\ Exit(z, footer).exited
<1> DEFINE a == Shuts(z)
           b == Alloc(a, 1)
           c == Logged(b)
<1>1. CASE z.exited
  <2>1. Exit(z, footer) = z BY <1>1 DEF Exit
  <2> QED BY <1>1, <2>1
<1>2. CASE ~z.exited
  <2>1. Exit(z, footer) = Closes(IF footer THEN c ELSE a) BY <1>2 DEF Exit
  <2>2. /\ Memory(a, {}) /\ Talk(a) /\ a.header /\ a.exited /\ ~a.mapped
        /\ a.logged = 0 /\ a.gone = z.gone
    BY <1>2, ShutsOnce DEF Whole, Served
  <2> HIDE DEF a
  <2>3. Memory(b, {}) /\ Talk(b) /\ b.header /\ Serves(b) = Serves(a)
    BY <2>2, AllocKeeps DEF Pool
  <2>4. b.exited /\ ~b.mapped /\ b.logged = 0
    BY <2>2, <2>3 DEF Serves
  <2> HIDE DEF b
  <2>5. Memory(c, {}) /\ Talk(c) /\ c.header /\ c.exited /\ ~c.mapped /\ c.logged = 1
    BY <2>3, <2>4, LoggedOnce
  <2> HIDE DEF c
  <2>6. CASE footer
    <3>1. Memory(Closes(c), {}) /\ Talk(Closes(c)) /\ Served(Closes(c)) /\ Closes(c).exited
      BY <2>5, ClosesOnce
    <3> QED BY <2>1, <2>6, <3>1 DEF Whole
  <2>7. CASE ~footer
    <3>1. Memory(Closes(a), {}) /\ Talk(Closes(a)) /\ Served(Closes(a)) /\ Closes(a).exited
      BY <2>2, <2>7, ClosesOnce
    <3> QED BY <2>1, <2>7, <3>1 DEF Whole
  <2> QED BY <2>6, <2>7
<1> QED BY <1>1, <1>2

-----------------------------------------------------------------------------
(* Pools given back.                                                       *)
LEMMA Clears ==
    ASSUME NEW p \in Pool, NEW z, Memory(z, {p}), z.size[p] = 0, z.block[p] # << >>
    PROVE  LET u == clear_pool(z, p)
           IN  /\ Memory(u, {}) /\ Rest(u) = Rest(z) /\ u.size = z.size /\ u.block[p] = <<Head(z.block[p])>>
<1> DEFINE q == z.block[p]
           f == Tail(q) \o z.free
           h == <<Head(q)>>
           a == [z EXCEPT !.free = f]
           b == [a EXCEPT !.block[p] = h]
           u == [b EXCEPT !.avail[p] = PerBlock]
<1>0. /\ z \in State /\ z.made \in Nat /\ z.free \in Seq(Nat) /\ PerBlock \in Nat
      /\ \A r \in Pool : z.block[r] \in Seq(Nat)
  BY RequestAssumption DEF Memory, State, RequestAssumption
<1>1. /\ Tail(q) \in Seq(Nat) /\ Distinct(Tail(q), z.made) /\ Lacks(Tail(q), Head(q)) /\ Head(q) \in 1 .. z.made
      /\ \A r \in Seq(Nat) : Apart(q, r) => Apart(Tail(q), r) /\ Lacks(r, Head(q))
      /\ \A r \in Seq(Nat) : Apart(r, q) => Apart(r, Tail(q)) /\ Lacks(r, Head(q))
  BY <1>0, Shortened DEF Memory
<1>2. Apart(Tail(q), z.free) /\ Lacks(z.free, Head(q))
  BY <1>0, <1>1 DEF Memory, Apart
<1>3. /\ f \in Seq(Nat) /\ Distinct(f, z.made)
      /\ \A x \in Seq(Nat) : Apart(Tail(q), x) /\ Apart(z.free, x) => Apart(f, x)
  BY <1>0, <1>1, <1>2, Joined DEF Memory
<1>4. h \in Seq(Nat) /\ h # << >> /\ DOMAIN h = {1} /\ h[1] = Head(q)
  BY <1>1
<1>5. Distinct(h, z.made)
  BY <1>1, <1>4 DEF Distinct, Within1, Once
<1>6. \A r \in Pool \ {p} : Apart(f, z.block[r])
  BY <1>0, <1>1, <1>3 DEF Memory
<1>7. Lacks(f, Head(q)) /\ Apart(f, h)
  <2>1. Apart(Tail(q), h) /\ Apart(z.free, h) BY <1>1, <1>2, <1>4 DEF Apart, Lacks
  <2>2. Apart(f, h) BY <1>3, <1>4, <2>1
  <2> QED BY <1>4, <2>2 DEF Apart, Lacks
<1>8. \A r \in Pool \ {p} : Apart(h, z.block[r]) /\ Apart(z.block[r], h)
  <2> TAKE r \in Pool \ {p}
  <2>1. Lacks(z.block[r], Head(q)) BY <1>0, <1>1 DEF Memory
  <2> QED BY <2>1, <1>4 DEF Lacks, Apart
<1> HIDE DEF f, h
<1>9. a \in State BY <1>0, <1>3, SetFree
<1>10. b \in State
  <2> HIDE DEF a
  <2> QED BY <1>9, <1>4, SetBlock
<1>11. u \in State
  <2> HIDE DEF b
  <2> QED BY <1>10, <1>0, SetAvail
<1>12. /\ u.made = z.made /\ u.free = f /\ u.size = z.size /\ Rest(u) = Rest(z)
       /\ u.block = [z.block EXCEPT ![p] = h] /\ u.avail = [z.avail EXCEPT ![p] = PerBlock]
  BY <1>0 DEF State, Rest
<1>13. clear_pool(z, p) = u
  BY <1>0 DEF clear_pool, State, f, h
<1> HIDE DEF u
<1>14. u.block[p] = h /\ \A r \in Pool \ {p} : u.block[r] = z.block[r]
  BY <1>0, <1>12 DEF State
<1>15. \A r \in Pool : u.avail[r] <= PerBlock
  BY <1>0, <1>12 DEF Memory, State
<1>16. \A r \in Pool : Distinct(u.block[r], u.made) /\ Apart(u.free, u.block[r])
  <2> TAKE r \in Pool
  <2>1. CASE r = p BY <2>1, <1>5, <1>7, <1>12, <1>14
  <2>2. CASE r # p BY <2>2, <1>6, <1>12, <1>14 DEF Memory
  <2> QED BY <2>1, <2>2
<1>17. ASSUME NEW q1 \in Pool, NEW r \in Pool, q1 # r PROVE Apart(u.block[q1], u.block[r])
  <2>1. CASE q1 = p BY <2>1, <1>8, <1>14, <1>17
  <2>2. CASE r = p BY <2>2, <1>8, <1>14, <1>17
  <2>3. CASE q1 # p /\ r # p BY <2>3, <1>14, <1>17 DEF Memory
  <2> QED BY <2>1, <2>2, <2>3
<1>18. ASSUME NEW r \in Pool, u.size[r] # 0 PROVE u.block[r] # << >>
  <2>1. r # p BY <1>12, <1>18
  <2> QED BY <2>1, <1>12, <1>14, <1>18 DEF Memory
<1>19. Memory(u, {})
  BY <1>3, <1>11, <1>12, <1>15, <1>16, <1>17, <1>18 DEF Memory
<1> QED BY <1>12, <1>13, <1>14, <1>19 DEF h

LEMMA CountZero ==
    ASSUME NEW p \in Pool, NEW z, Memory(z, {}), z.size[p] # 0
    PROVE  LET u == [z EXCEPT !.size[p] = 0]
           IN  Memory(u, {p}) /\ Rest(u) = Rest(z) /\ u.size[p] = 0 /\ u.block[p] # << >>
<1> DEFINE u == [z EXCEPT !.size[p] = 0]
<1>0. z \in State BY DEF Memory
<1>1. u \in State BY <1>0, SetSize
<1>2. /\ u.made = z.made /\ u.free = z.free /\ u.block = z.block /\ u.avail = z.avail /\ Rest(u) = Rest(z)
      /\ u.size[p] = 0 /\ \A q \in Pool \ {p} : u.size[q] = z.size[q]
  BY <1>0 DEF State, Rest
<1>3. Memory(z, {p}) BY FewerMemory
<1>4. Memory(u, {p}) BY <1>1, <1>2, <1>3, SameMemory
<1>5. u.block[p] # << >> BY <1>2 DEF Memory
<1> QED BY <1>2, <1>4, <1>5

(* The pool's last block too.                                              *)
LEMMA Empties ==
    ASSUME NEW p \in Pool, NEW z, Memory(z, {}), z.size[p] = 0, NEW h \in Nat, z.block[p] = <<h>>
    PROVE  LET u == [z EXCEPT !.free = z.block[p] \o @, !.block[p] = << >>]
           IN  Memory(u, {}) /\ Rest(u) = Rest(z)
<1> DEFINE f == z.block[p] \o z.free
           e == << >>
           a == [z EXCEPT !.free = f]
           u == [a EXCEPT !.block[p] = e]
<1>0. /\ z \in State /\ z.made \in Nat /\ z.free \in Seq(Nat)
      /\ \A r \in Pool : z.block[r] \in Seq(Nat)
  BY DEF Memory, State
<1>1. Apart(z.block[p], z.free)
  BY DEF Memory, Apart
<1>2. /\ f \in Seq(Nat) /\ Distinct(f, z.made)
      /\ \A x \in Seq(Nat) : Apart(z.block[p], x) /\ Apart(z.free, x) => Apart(f, x)
  BY <1>0, <1>1, Joined DEF Memory
<1>3. \A r \in Pool \ {p} : Apart(f, z.block[r])
  BY <1>0, <1>2 DEF Memory
<1>4. e \in Seq(Nat) /\ Distinct(e, z.made) /\ Apart(f, e) /\ \A r \in Pool : Apart(e, z.block[r]) /\ Apart(z.block[r], e)
  BY DEF Distinct, Within1, Once, Apart
<1>5. [z EXCEPT !.free = z.block[p] \o @, !.block[p] = << >>] = u
  BY <1>0 DEF State
<1> HIDE DEF f, e
<1>6. a \in State BY <1>0, <1>2, SetFree
<1>7. u \in State
  <2> HIDE DEF a
  <2> QED BY <1>6, <1>4, SetBlock
<1>8. /\ u.made = z.made /\ u.free = f /\ u.size = z.size /\ Rest(u) = Rest(z)
      /\ u.block = [z.block EXCEPT ![p] = e] /\ u.avail = z.avail
  BY <1>0 DEF State, Rest
<1> HIDE DEF u
<1>9. u.block[p] = e /\ \A r \in Pool \ {p} : u.block[r] = z.block[r]
  BY <1>0, <1>8 DEF State
<1>10. \A r \in Pool : Distinct(u.block[r], u.made) /\ Apart(u.free, u.block[r])
  <2> TAKE r \in Pool
  <2>1. CASE r = p BY <2>1, <1>4, <1>8, <1>9
  <2>2. CASE r # p BY <2>2, <1>3, <1>8, <1>9 DEF Memory
  <2> QED BY <2>1, <2>2
<1>11. ASSUME NEW q \in Pool, NEW r \in Pool, q # r PROVE Apart(u.block[q], u.block[r])
  <2>1. CASE q = p BY <2>1, <1>4, <1>9, <1>11
  <2>2. CASE r = p BY <2>2, <1>4, <1>9, <1>11
  <2>3. CASE q # p /\ r # p BY <2>3, <1>9, <1>11 DEF Memory
  <2> QED BY <2>1, <2>2, <2>3
<1>12. ASSUME NEW r \in Pool, u.size[r] # 0 PROVE u.block[r] # << >>
  <2>1. r # p BY <1>8, <1>12
  <2> QED BY <2>1, <1>8, <1>9, <1>12 DEF Memory
<1>13. Memory(u, {})
  BY <1>2, <1>7, <1>8, <1>10, <1>11, <1>12 DEF Memory
<1> QED BY <1>5, <1>8, <1>13

LEMMA RestWhole ==
    ASSUME NEW z, NEW u, Whole(z), Memory(u, {}), Rest(u) = Rest(z)
    PROVE  Whole(u)
<1>1. Talk(u) /\ u.header = z.header /\ Serves(u) = Serves(z)
  BY RestServes DEF Whole
<1>2. Served(u)
  BY <1>1, ServesServed DEF Whole
<1> QED BY <1>1, <1>2 DEF Whole

LEMMA ClearWhole == ASSUME NEW p \in Pool, NEW z, Whole(z) PROVE Whole(pool_clear(z, p))
<1>1. CASE p = 0 \/ z.size[p] = 0 BY <1>1 DEF pool_clear
<1>2. CASE ~(p = 0 \/ z.size[p] = 0)
  <2> DEFINE a == [z EXCEPT !.size[p] = 0]
             u == clear_pool(a, p)
  <2>1. Memory(a, {p}) /\ Rest(a) = Rest(z) /\ a.size[p] = 0 /\ a.block[p] # << >>
    BY <1>2, CountZero DEF Whole
  <2>2. pool_clear(z, p) = u BY <1>2 DEF pool_clear
  <2> HIDE DEF a
  <2>3. Memory(u, {}) /\ Rest(u) = Rest(a) BY <2>1, Clears
  <2> HIDE DEF u
  <2> QED BY <2>1, <2>2, <2>3, RestWhole
<1> QED BY <1>1, <1>2

LEMMA FreeWhole == ASSUME NEW p \in Pool, NEW z, Whole(z) PROVE Whole(pool_free(z, p))
<1>1. CASE p = 0 \/ z.size[p] = 0 BY <1>1 DEF pool_free
<1>2. CASE ~(p = 0 \/ z.size[p] = 0)
  <2> DEFINE a == [z EXCEPT !.size[p] = 0]
             b == clear_pool(a, p)
             u == [b EXCEPT !.free = b.block[p] \o @, !.block[p] = << >>]
  <2>1. Memory(a, {p}) /\ Rest(a) = Rest(z) /\ a.size[p] = 0 /\ a.block[p] # << >>
    BY <1>2, CountZero DEF Whole
  <2>2. pool_free(z, p) = u BY <1>2 DEF pool_free, destroy_pool
  <2> HIDE DEF a
  <2>3. Memory(b, {}) /\ Rest(b) = Rest(a) /\ b.size[p] = 0 /\ b.block[p] = <<Head(a.block[p])>>
    BY <2>1, Clears
  <2>4. Head(a.block[p]) \in Nat
    BY <2>1, HeadTailProperties DEF Memory, State
  <2> HIDE DEF b
  <2>5. Memory(u, {}) /\ Rest(u) = Rest(b)
    BY <2>3, <2>4, Empties
  <2> HIDE DEF u
  <2> QED BY <2>1, <2>2, <2>3, <2>5, RestWhole
<1> QED BY <1>1, <1>2

-----------------------------------------------------------------------------
(* What the steps do besides: the header and text, the client that leaves,  *)
(* the page that starts, a database opened, a request begun.                *)
LEMMA HeaderWhole == ASSUME NEW z, Whole(z) PROVE Whole(header(z)) /\ header(z).header
<1>1. Memory(header(z), {}) /\ Talk(header(z)) /\ header(z).header /\ Serves(header(z)) = Serves(z)
  BY SendsHeader DEF Whole
<1> QED BY <1>1, ServesServed DEF Whole

LEMMA TextWhole == ASSUME NEW z, Whole(z), z.header PROVE Whole(Sends(z, "text"))
<1> DEFINE u == Sends(z, "text")
<1>1. Memory(u, {}) /\ Talk(u) /\ u.header /\ Serves(u) = Serves(z)
  BY SendsText DEF Whole
<1> HIDE DEF u
<1>2. Served(u) BY <1>1, ServesServed DEF Whole
<1> QED BY <1>1, <1>2 DEF Whole, u

LEMMA GoneWhole == ASSUME NEW z, Whole(z) PROVE Whole([z EXCEPT !.gone = TRUE]) /\ [z EXCEPT !.gone = TRUE].gone
<1> DEFINE u == [z EXCEPT !.gone = TRUE]
<1>0. z \in State BY DEF Whole, Memory
<1>1. u \in State BY <1>0, SetGone
<1>2. /\ u.made = z.made /\ u.free = z.free /\ u.block = z.block /\ u.avail = z.avail /\ u.size = z.size
      /\ u.sent = z.sent /\ u.header = z.header /\ u.exited = z.exited /\ u.mapped = z.mapped
      /\ u.open = z.open /\ u.logged = z.logged /\ u.gone
  BY <1>0 DEF State
<1> HIDE DEF u
<1>3. Memory(u, {}) BY <1>1, <1>2, SameMemory DEF Whole
<1>4. Talk(u) /\ Served(u) BY <1>2 DEF Whole, Talk, Served
<1> QED BY <1>2, <1>3, <1>4 DEF Whole, u

LEMMA StartWhole ==
    ASSUME NEW z, Whole(z), "limit in form" \in Avoided => ~z.exited
    PROVE  Whole([z EXCEPT !.mapped = TRUE, !.stop = FALSE])
<1> DEFINE a == [z EXCEPT !.mapped = TRUE]
           u == [a EXCEPT !.stop = FALSE]
<1>0. z \in State BY DEF Whole, Memory
<1>1. a \in State BY <1>0, SetMapped
<1>2. u \in State
  <2> HIDE DEF a
  <2> QED BY <1>1, SetStop
<1>3. /\ u.made = z.made /\ u.free = z.free /\ u.block = z.block /\ u.avail = z.avail /\ u.size = z.size
      /\ u.sent = z.sent /\ u.header = z.header /\ u.exited = z.exited /\ u.logged = z.logged /\ u.gone = z.gone
  BY <1>0 DEF State
<1>4. [z EXCEPT !.mapped = TRUE, !.stop = FALSE] = u
  BY <1>0 DEF State
<1> HIDE DEF u
<1>5. Memory(u, {}) BY <1>2, <1>3, SameMemory DEF Whole
<1>6. Talk(u) /\ Served(u) BY <1>3 DEF Whole, Talk, Served, Pitfall
<1> QED BY <1>4, <1>5, <1>6 DEF Whole

LEMMA OneMore == ASSUME NEW z \in State PROVE z.open + 1 \in Nat
  BY DEF State

LEMMA OpenWhole ==
    ASSUME NEW z, Whole(z), "limit in open" \in Avoided => ~z.exited
    PROVE  Whole([z EXCEPT !.open = @ + 1])
<1> DEFINE n == z.open + 1
           u == [z EXCEPT !.open = n]
<1>0. z \in State BY DEF Whole, Memory
<1>1. n \in Nat BY <1>0, OneMore
<1> HIDE DEF n
<1>2. u \in State BY <1>0, <1>1, SetOpen
<1>3. /\ u.made = z.made /\ u.free = z.free /\ u.block = z.block /\ u.avail = z.avail /\ u.size = z.size
      /\ u.sent = z.sent /\ u.header = z.header /\ u.exited = z.exited /\ u.logged = z.logged /\ u.gone = z.gone
  BY <1>0 DEF State
<1>4. Memory(u, {}) BY <1>2, <1>3, SameMemory DEF Whole
<1>5. Talk(u) /\ Served(u) BY <1>3 DEF Whole, Talk, Served, Pitfall
<1> QED BY <1>4, <1>5 DEF Whole, n

LEMMA FreshWhole ==
    ASSUME NEW free \in Seq(Nat), NEW made \in Nat, Distinct(free, made)
    PROVE  Whole(Fresh(free, made)) /\ Fresh(free, made).made = made
<1> DEFINE u == Fresh(free, made)
<1>1. u \in State
  BY DEF Fresh, State
<1>2. /\ u.made = made /\ u.free = free /\ u.sent = << >> /\ ~u.header /\ ~u.exited /\ u.logged = 0
      /\ \A p \in Pool : u.block[p] = << >> /\ u.avail[p] = 0 /\ u.size[p] = 0
  BY DEF Fresh
<1> HIDE DEF u
<1>3. \A q \in Seq(Nat) : Apart(q, << >>) /\ Distinct(<< >>, made)
  BY DEF Apart, Distinct, Within1, Once
<1>4. Apart(<< >>, << >>)
  BY DEF Apart
<1>5. Memory(u, {})
  BY <1>1, <1>2, <1>3, <1>4, RequestAssumption DEF Memory, RequestAssumption
<1>6. Talk(u) /\ Served(u)
  BY <1>2 DEF Talk, Served
<1> QED BY <1>2, <1>5, <1>6 DEF Whole, u

-----------------------------------------------------------------------------
(* The inductive invariant.                                                *)
Typed ==
    /\ phase \in {"idle", "post", "get", "page"} /\ steps \in 0 .. MaxSteps
    /\ form \in [Name -> {"none", "post", "get"}]
Serving == Typed /\ Whole(s) /\ s.made <= MaxBlocks

LEMMA PairWhole == ASSUME NEW n \in Name, Whole(s) PROVE Whole(Pair(n))
<1> DEFINE a == Alloc(s, 1)
           z == Alloc(a, 2)
<1>1. Whole(a) BY AllocWhole DEF Pool
<1> HIDE DEF a
<1>2. Whole(z) BY <1>1, AllocWhole DEF Pool
<1> HIDE DEF z
<1>3. Whole(Alloc(z, 0)) BY <1>2, AllocWhole DEF Pool
<1> QED BY <1>2, <1>3 DEF Pair, z, a

LEMMA BegunWhole == ASSUME Whole(s) PROVE Whole(Begun)
<1> DEFINE a == pool_clear(s, 1)
<1>1. Whole(a) BY ClearWhole DEF Pool
<1> HIDE DEF a
<1>2. Whole(pool_clear(a, 2)) BY <1>1, ClearWhole DEF Pool
<1> QED BY <1>2 DEF Begun, a

LEMMA WholeNext == ASSUME NEW z, Whole(z), s' = z PROVE Whole(s)'
<1>1. Memory(s, {})'
  BY DEF Whole, Memory, State, Distinct, Within1, Once, Apart, Pool
<1>2. Talk(s)'
  BY DEF Whole, Talk
<1>3. Served(s)'
  BY DEF Whole, Served, Pitfall
<1> QED BY <1>1, <1>2, <1>3 DEF Whole

LEMMA StatementServes == ASSUME Serving, NEW z, Whole(z), Statement(z) PROVE Serving'
<1>1. z.made <= MaxBlocks /\ s' = z
  BY DEF Statement, Takes, Becomes, Fits
<1>2. Typed'
  BY RequestAssumption DEF Serving, Typed, Statement, Takes, RequestAssumption
<1>3. Whole(s)'
  BY <1>1, WholeNext
<1> QED BY <1>1, <1>2, <1>3 DEF Serving

LEMMA BecomesServes == ASSUME Serving, NEW z, Whole(z), Becomes(z), Typed' PROVE Serving'
<1>1. z.made <= MaxBlocks /\ s' = z
  BY DEF Becomes, Fits
<1>2. Whole(s)'
  BY <1>1, WholeNext
<1> QED BY <1>1, <1>2 DEF Serving

LEMMA ServingInit == Init => Serving
<1> SUFFICES ASSUME Init PROVE Serving
  OBVIOUS
<1>1. Typed BY RequestAssumption DEF Init, Typed, RequestAssumption
<1>2. << >> \in Seq(Nat) /\ Distinct(<< >>, 0) BY DEF Distinct, Within1, Once
<1>3. Whole(s) /\ s.made = 0 BY <1>2, FreshWhole DEF Init
<1> QED BY <1>1, <1>3, RequestAssumption DEF Serving, RequestAssumption

LEMMA ServingStep == Serving /\ [Next]_vars => Serving'
<1> SUFFICES ASSUME Serving, [Next]_vars PROVE Serving'
  OBVIOUS
<1>0. /\ Typed /\ Whole(s) /\ s.made <= MaxBlocks
      /\ s \in State /\ s.free \in Seq(Nat) /\ s.made \in Nat /\ Distinct(s.free, s.made)
  BY DEF Serving, Whole, Memory, State
<1>1. CASE Accept
  <2>1. Typed' BY <1>1, RequestAssumption DEF Accept, Typed, RequestAssumption
  <2>2. Whole(Fresh(s.free, s.made)) BY <1>0, FreshWhole
  <2>3. Becomes(Fresh(s.free, s.made)) BY <1>1 DEF Accept
  <2> HIDE DEF Serving
  <2> QED BY <2>1, <2>2, <2>3, BecomesServes
<1>2. CASE BadPost
  <2>1. Typed' BY <1>0, <1>2 DEF BadPost, Typed
  <2>2. Whole(Error(s)) BY <1>0, ErrorWhole
  <2> QED BY <1>2, <2>1, <2>2, BecomesServes DEF BadPost
<1>3. CASE EndPost
  <2>1. Typed' BY <1>0, <1>3 DEF EndPost, Typed
  <2>2. s' = s BY <1>3 DEF EndPost
  <2>3. Whole(s)' BY <1>0, <2>2, WholeNext
  <2> QED BY <1>0, <2>1, <2>2, <2>3 DEF Serving
<1>4. CASE StartPage
  <2> DEFINE z == Alloc(s, 1)
             u == [z EXCEPT !.mapped = TRUE, !.stop = FALSE]
  <2>1. Typed' BY <1>0, <1>4, RequestAssumption DEF StartPage, Typed, RequestAssumption
  <2>2. Whole(z) BY <1>0, AllocWhole DEF Pool
  <2>3. "limit in form" \in Avoided => ~z.exited BY <1>4 DEF StartPage, Within
  <2>4. Becomes(u) BY <1>4 DEF StartPage
  <2> HIDE DEF z
  <2>5. Whole(u) BY <2>2, <2>3, StartWhole
  <2> HIDE DEF u
  <2> QED BY <2>1, <2>4, <2>5, BecomesServes
<1>5. CASE NoPage
  <2>1. Typed' BY <1>5, RequestAssumption DEF NoPage, Typed, RequestAssumption
  <2>2. << >> \in Seq(Nat) /\ Distinct(<< >>, 0) BY DEF Distinct, Within1, Once
  <2>3. Whole(Fresh(<< >>, 0)) /\ Fresh(<< >>, 0).made = 0 BY <2>2, FreshWhole
  <2>4. s' = Fresh(<< >>, 0) BY <1>5 DEF NoPage
  <2>5. Whole(s)' BY <2>3, <2>4, WholeNext
  <2>6. s'.made <= MaxBlocks BY <2>3, <2>4, RequestAssumption DEF RequestAssumption
  <2> QED BY <2>1, <2>5, <2>6 DEF Serving
<1>6. ASSUME NEW n \in Name, PostPair(n) PROVE Serving'
  <2>1. Whole(Pair(n)) BY <1>0, PairWhole
  <2>2. Typed' BY <1>0, <1>6, RequestAssumption DEF PostPair, Takes, Typed, RequestAssumption
  <2> QED BY <1>6, <2>1, <2>2, BecomesServes DEF PostPair, Takes
<1>7. ASSUME NEW n \in Name, GetPair(n) PROVE Serving'
  <2>1. Whole(Pair(n)) BY <1>0, PairWhole
  <2>2. Typed' BY <1>0, <1>7, RequestAssumption DEF GetPair, Takes, Typed, RequestAssumption
  <2>3. CASE form[n] = "post" BY <1>0, <1>7, <2>2, <2>3, BecomesServes DEF GetPair, Takes
  <2>4. CASE form[n] # "post" BY <1>7, <2>1, <2>2, <2>4, BecomesServes DEF GetPair, Takes
  <2> QED BY <2>3, <2>4
<1> DEFINE b == Begun
<1>8. Whole(b) BY <1>0, BegunWhole
<1>9. CASE Assign
  <2> DEFINE z == Alloc(b, 2)
  <2>1. Statement(Alloc(z, 0)) BY <1>9 DEF Assign
  <2>2. Whole(z) BY <1>8, AllocWhole DEF Pool
  <2> HIDE DEF z
  <2>3. Whole(Alloc(z, 0)) BY <2>2, AllocWhole DEF Pool
  <2> QED BY <2>1, <2>3, StatementServes
<1>10. CASE Complain
  <2>1. Whole(Error(b)) BY <1>8, ErrorWhole
  <2> QED BY <1>10, <2>1, StatementServes DEF Complain
<1>11. CASE Echo
  <2> DEFINE z == header(Alloc(b, 2))
             g == [z EXCEPT !.gone = TRUE]
  <2>1. Whole(Alloc(b, 2)) BY <1>8, AllocWhole DEF Pool
  <2>2. Whole(z) /\ z.header BY <2>1, HeaderWhole
  <2>3. Statement(Sends(z, "text")) \/ Statement(Exit(g, FALSE)) BY <1>11 DEF Echo
  <2> HIDE DEF z
  <2>4. Whole(Sends(z, "text")) BY <2>2, TextWhole
  <2>5. Whole(g) /\ g.gone BY <2>2, GoneWhole
  <2> HIDE DEF g
  <2>6. Whole(Exit(g, FALSE)) BY <2>5, ExitWhole
  <2> QED BY <2>3, <2>4, <2>6, StatementServes
<1>12. CASE dbmOpen
  <2> DEFINE a == Alloc(b, 2)
             c == Alloc(a, 0)
             z == Alloc(c, 0)
             u == [z EXCEPT !.open = @ + 1]
  <2>1. ("limit in open" \in Avoided => ~z.exited) /\ Statement(u) BY <1>12 DEF dbmOpen
  <2>2. Whole(a) BY <1>8, AllocWhole DEF Pool
  <2> HIDE DEF a
  <2>3. Whole(c) BY <2>2, AllocWhole DEF Pool
  <2> HIDE DEF c
  <2>4. Whole(z) BY <2>3, AllocWhole DEF Pool
  <2> HIDE DEF z
  <2>5. Whole(u) BY <2>1, <2>4, OpenWhole
  <2> QED BY <2>1, <2>5, StatementServes
<1>13. CASE ExitStatement
  <2>1. Whole(Exit(b, TRUE)) BY <1>8, ExitWhole
  <2> QED BY <1>13, <2>1, StatementServes DEF ExitStatement
<1>14. CASE EndPage
  <2> DEFINE a == pool_clear(s, 1)
             e == Exit(a, TRUE)
             f1 == pool_free(e, 1)
             f2 == pool_free(f1, 2)
             f0 == pool_free(f2, 0)
  <2>1. Typed' BY <1>0, <1>14 DEF EndPage, Typed
  <2>2. Becomes(f0) BY <1>14 DEF EndPage
  <2>3. Whole(a) BY <1>0, ClearWhole DEF Pool
  <2> HIDE DEF a
  <2>4. Whole(e) BY <2>3, ExitWhole
  <2> HIDE DEF e
  <2>5. Whole(f1) BY <2>4, FreeWhole DEF Pool
  <2> HIDE DEF f1
  <2>6. Whole(f2) BY <2>5, FreeWhole DEF Pool
  <2> HIDE DEF f2
  <2>7. Whole(f0) BY <2>6, FreeWhole DEF Pool
  <2> HIDE DEF f0
  <2> QED BY <2>1, <2>2, <2>7, BecomesServes
<1>15. CASE UNCHANGED vars
  <2>1. s' = s /\ Typed' BY <1>0, <1>15 DEF vars, Typed
  <2>2. Whole(s)' BY <1>0, <2>1, WholeNext
  <2> QED BY <1>0, <2>1, <2>2 DEF Serving
<1> QED BY <1>1, <1>2, <1>3, <1>4, <1>5, <1>6, <1>7, <1>9, <1>10, <1>11, <1>12, <1>13, <1>14, <1>15 DEF Next

LEMMA ServingAlways == Spec => []Serving
<1>1. Init => Serving BY ServingInit
<1>2. Serving /\ [Next]_vars => Serving' BY ServingStep
<1> QED BY <1>1, <1>2, PTL DEF Spec

-----------------------------------------------------------------------------
LEMMA Narrows ==
    ASSUME NEW q \in Seq(Nat), NEW n \in Nat, Within1(q, n)
    PROVE  q \in Seq(1 .. n)
<1>1. q \in [1 .. Len(q) -> Nat] /\ Len(q) \in Nat /\ DOMAIN q = 1 .. Len(q)
  BY LenProperties
<1>2. q \in [1 .. Len(q) -> 1 .. n]
  BY <1>1 DEF Within1
<1> QED BY <1>1, <1>2, SeqDef

(* Every state of the process has the types of the module: the blocks in    *)
(* use and free are ones malloc'd, and no pool has more units left in a     *)
(* block than the block holds (pool.c).                                    *)
THEOREM RequestTypeOK == Spec => []TypeOK
<1>1. Serving => TypeOK
  <2> SUFFICES ASSUME Serving PROVE TypeOK
    OBVIOUS
  <2>1. Typed /\ s \in State /\ s.made \in 0 .. MaxBlocks
    BY RequestAssumption DEF Serving, Whole, Memory, State, RequestAssumption
  <2>2. s.free \in Seq(1 .. s.made)
    <3>1. s.free \in Seq(Nat) /\ s.made \in Nat /\ Within1(s.free, s.made)
      BY DEF Serving, Whole, Memory, State, Distinct
    <3> QED BY <3>1, Narrows
  <2>3. ASSUME NEW p \in Pool PROVE s.block[p] \in Seq(1 .. s.made) /\ s.avail[p] \in 0 .. PerBlock /\ s.size[p] \in Nat
    <3>1. s.block[p] \in Seq(Nat) /\ s.made \in Nat /\ Within1(s.block[p], s.made)
      BY DEF Serving, Whole, Memory, State, Distinct
    <3>2. s.block[p] \in Seq(1 .. s.made)
      BY <3>1, Narrows
    <3>3. s.avail[p] \in Nat /\ s.avail[p] <= PerBlock /\ s.size[p] \in Nat
      BY DEF Serving, Whole, Memory, State
    <3> QED BY <3>2, <3>3, RequestAssumption DEF RequestAssumption
  <2>4. /\ s.sent \in Seq({"header", "text"}) /\ s.logged \in Nat /\ s.open \in Nat
        /\ {s.over, s.header, s.exited, s.stop, s.mapped, s.gone} \subseteq BOOLEAN
    BY <2>1 DEF State
  <2> QED BY <2>1, <2>2, <2>3, <2>4 DEF TypeOK, Typed
<1> QED BY <1>1, ServingAlways, PTL

(* One header is sent, before any text, whatever prints: the page, echo, an *)
(* error, the limit crossed in the middle of an allocation, Exit.           *)
THEOREM RequestHeaderFirst == Spec => []HeaderFirst
<1>1. Serving => HeaderFirst
  BY DEF Serving, Whole, Talk, Served, HeaderFirst
<1> QED BY <1>1, ServingAlways, PTL

(* A request that has been served was logged once, unless its client left,  *)
(* and holds no database and no mapping, as long as the limit is not        *)
(* crossed by the form or in the middle of dbmopen.                        *)
THEOREM RequestServedOnce == ASSUME Pitfall \subseteq Avoided PROVE Spec => []ServedOnce
<1>1. Serving => ServedOnce
  BY DEF Serving, Whole, Served, ServedOnce
<1> QED BY <1>1, ServingAlways, PTL

(* A block is in one pool or on the free list, once.                        *)
THEOREM RequestBlocksApart == Spec => []BlocksApart
<1>1. Serving => BlocksApart
  <2> SUFFICES ASSUME Serving PROVE BlocksApart
    OBVIOUS
  <2> DEFINE f == s.free
             b0 == s.block[0]
             b1 == s.block[1]
             b2 == s.block[2]
             n == s.made
             q0 == f \o b0
             q1 == q0 \o b1
             q2 == q1 \o b2
  <2>1. /\ n \in Nat /\ f \in Seq(Nat) /\ b0 \in Seq(Nat) /\ b1 \in Seq(Nat) /\ b2 \in Seq(Nat)
        /\ Distinct(f, n) /\ Distinct(b0, n) /\ Distinct(b1, n) /\ Distinct(b2, n)
        /\ Apart(f, b0) /\ Apart(f, b1) /\ Apart(f, b2) /\ Apart(b0, b1) /\ Apart(b0, b2) /\ Apart(b1, b2)
    BY DEF Serving, Whole, Memory, State, Pool
  <2>2. BlocksApart <=> Once(q2)
    BY DEF BlocksApart, Once
  <2> HIDE DEF f, b0, b1, b2, n
  <2>3. q0 \in Seq(Nat) /\ Distinct(q0, n) /\ Apart(q0, b1) /\ Apart(q0, b2)
    BY <2>1, Joined
  <2> HIDE DEF q0
  <2>4. q1 \in Seq(Nat) /\ Distinct(q1, n) /\ Apart(q1, b2)
    BY <2>1, <2>3, Joined
  <2> HIDE DEF q1
  <2>5. Distinct(q2, n)
    BY <2>1, <2>4, Joined
  <2> QED BY <2>2, <2>5 DEF Distinct
<1> QED BY <1>1, ServingAlways, PTL

(* A variable of the POST form keeps its value whatever the URL says        *)
(* (post.c:227).                                                           *)
THEOREM RequestPostStays == Spec => PostStays
<1>1. Serving /\ [Next]_vars => [\A n \in Name : form[n] = "post" /\ phase = "get" /\ phase' # "idle" => form'[n] = "post"]_vars
  <2> SUFFICES ASSUME Serving, Next, NEW n \in Name, form[n] = "post", phase = "get", phase' # "idle"
               PROVE  form'[n] = "post"
    OBVIOUS
  <2>0. form \in [Name -> {"none", "post", "get"}] BY DEF Serving, Typed
  <2>1. ASSUME NEW k \in Name, GetPair(k) PROVE form'[n] = "post"
    BY <2>0, <2>1 DEF GetPair
  <2>2. CASE StartPage BY <2>2 DEF StartPage
  <2>3. CASE NoPage BY <2>3 DEF NoPage
  <2>4. ~Accept /\ ~BadPost /\ ~EndPost /\ ~Assign /\ ~Complain /\ ~Echo /\ ~dbmOpen /\ ~ExitStatement /\ ~EndPage
    BY DEF Accept, BadPost, EndPost, Assign, Complain, Echo, dbmOpen, ExitStatement, EndPage, Statement
  <2>5. \A k \in Name : ~PostPair(k) BY DEF PostPair
  <2> QED BY <2>1, <2>2, <2>3, <2>4, <2>5 DEF Next
<1> QED BY <1>1, ServingAlways, PTL DEF Spec, PostStays

-----------------------------------------------------------------------------
(* The visit a request counts at its end, in an mSQL database: MsqlLog in    *)
(* any number of processes.                                                 *)

(* Type correctness.                                                       *)
LEMMA InitTypes == LogInit => LogTypeOK
  BY HitLogAssumption
     DEF LogInit, LogTypeOK, HitLogAssumption, Row, File, Day, Stage, Opened, Inside, none

LEMMA RowParts ==
    ASSUME LogTypeOK
    PROVE  /\ row.there \in BOOLEAN /\ row.total \in Nat /\ row.today \in Nat
           /\ row.day \in 0 .. MaxDay
  BY DEF LogTypeOK, Row

LEMMA ARow ==
    ASSUME NEW z \in Nat, NEW n \in Nat, NEW d \in 0 .. MaxDay
    PROVE  [there |-> TRUE, total |-> z, today |-> n, day |-> d] \in Row
  BY DEF Row

LEMMA VisitTypes == ASSUME LogTypeOK, NEW p \in Proc, Visit(p) PROVE LogTypeOK'
<1>1. /\ total_count' \in [Proc -> Nat \cup {-1}]
      /\ today_count' \in [Proc -> Nat \cup {-1}]
  BY DEF Visit, LogTypeOK, Row
<1>2. /\ pc' \in [Proc -> Stage] /\ visits' \in 0 .. MaxVisits
      /\ t' \in [Proc -> 0 .. MaxDay]
  BY HitLogAssumption DEF Visit, Goto, LogTypeOK, Stage, Day, HitLogAssumption
<1>3. \A q \in Proc : /\ pc'[q] = "lock" => lockfd'[q] # none
                      /\ lockfd'[q] # none => q \in Opened'
  BY DEF LogTypeOK, Visit, Goto, Stage, Opened, Inside
<1> QED BY <1>1, <1>2, <1>3 DEF LogTypeOK, Visit

LEMMA OpenLockTypes == ASSUME LogTypeOK, NEW p \in Proc, OpenLock(p) PROVE LogTypeOK'
<1>0. /\ files \in 0 .. MaxVisits /\ lockfn \in 0 .. files /\ MaxVisits \in Nat
      /\ lockfd \in [Proc -> 0 .. files] /\ faults \in 0 .. MaxFaults /\ MaxFaults \in Nat
      /\ pc \in [Proc -> Stage] /\ pc[p] = "open"
  BY HitLogAssumption DEF LogTypeOK, HitLogAssumption, OpenLock, Goto
<1>1. files' \in 0 .. MaxVisits /\ lockfn' \in 0 .. files' /\ faults' \in 0 .. MaxFaults
  BY <1>0 DEF OpenLock, Fail, none
<1>2. lockfd' \in [Proc -> 0 .. files'] /\ pc' \in [Proc -> Stage]
  BY <1>0 DEF OpenLock, Goto, Stage, Fail, none
<1>3. \A q \in Proc : /\ pc'[q] = "lock" => lockfd'[q] # none
                      /\ lockfd'[q] # none => q \in Opened'
  BY <1>0 DEF LogTypeOK, OpenLock, Goto, Stage, Opened, Inside, none
<1> QED BY <1>1, <1>2, <1>3 DEF LogTypeOK, OpenLock

LEMMA TakeLockTypes == ASSUME LogTypeOK, NEW p \in Proc, TakeLock(p) PROVE LogTypeOK'
  BY HitLogAssumption
     DEF TakeLock, Goto, LogTypeOK, HitLogAssumption, Row, File, Day, Stage, Opened, Inside, none

LEMMA SelectTypes == ASSUME LogTypeOK, NEW p \in Proc, Select(p) PROVE LogTypeOK'
<1>1. /\ total_count' \in [Proc -> Nat \cup {-1}]
      /\ today_count' \in [Proc -> Nat \cup {-1}]
      /\ la' \in [Proc -> 0 .. MaxDay]
  <2>1. row.total \in Nat /\ row.today \in Nat /\ row.day \in 0 .. MaxDay
    BY RowParts
  <2>2. 0 \in 0 .. MaxDay
    BY HitLogAssumption DEF HitLogAssumption
  <2> QED BY <2>1, <2>2 DEF Select, LogTypeOK
<1>2. pc' \in [Proc -> Stage] /\ faults' \in 0 .. MaxFaults
  BY HitLogAssumption DEF Select, Goto, Fail, LogTypeOK, Stage, HitLogAssumption
<1>3. \A q \in Proc : /\ pc'[q] = "lock" => lockfd'[q] # none
                      /\ lockfd'[q] # none => q \in Opened'
  BY DEF LogTypeOK, Select, Goto, Stage, Opened, Inside
<1> QED BY <1>1, <1>2, <1>3 DEF LogTypeOK, Select

LEMMA InsertTypes == ASSUME LogTypeOK, NEW p \in Proc, Insert(p) PROVE LogTypeOK'
<1>1. pc' \in [Proc -> Stage] /\ faults' \in 0 .. MaxFaults
  BY HitLogAssumption DEF Insert, Goto, Fail, LogTypeOK, Stage, HitLogAssumption
<1>2. row' \in Row
  <2>1. row \in Row /\ t[p] \in 0 .. MaxDay
    BY DEF LogTypeOK
  <2>2. row' = row \/ row' = [there |-> TRUE, total |-> 0, today |-> 0, day |-> t[p]]
    BY DEF Insert
  <2> QED BY <2>1, <2>2, ARow
<1>3. \A q \in Proc : /\ pc'[q] = "lock" => lockfd'[q] # none
                      /\ lockfd'[q] # none => q \in Opened'
  BY DEF LogTypeOK, Insert, Goto, Stage, Opened, Inside
<1> QED BY <1>1, <1>2, <1>3 DEF LogTypeOK, Insert

LEMMA UpdateTypes == ASSUME LogTypeOK, NEW p \in Proc, Update(p) PROVE LogTypeOK'
<1>1. /\ total_count' \in [Proc -> Nat \cup {-1}] /\ total_count'[p] \in Nat
      /\ today_count' \in [Proc -> Nat \cup {-1}] /\ today_count'[p] \in Nat
  BY DEF Update, LogTypeOK
<1>2. row' \in Row /\ faults' \in 0 .. MaxFaults
  <2>1. row \in Row /\ t[p] \in 0 .. MaxDay
    BY DEF LogTypeOK
  <2>2. \/ row' = row
        \/ row' = [there |-> TRUE, total |-> total_count'[p],
                   today |-> today_count'[p], day |-> t[p]]
    BY DEF Update
  <2>3. row' \in Row
    BY <1>1, <2>1, <2>2, ARow
  <2>4. faults' \in 0 .. MaxFaults
    BY HitLogAssumption DEF Update, LogTypeOK, Fail, HitLogAssumption
  <2> QED BY <2>3, <2>4
<1>3. pc' \in [Proc -> Stage] /\ updates' \in Nat
  BY DEF Update, LogTypeOK, Goto, Stage
<1>4. \A q \in Proc : /\ pc'[q] = "lock" => lockfd'[q] # none
                      /\ lockfd'[q] # none => q \in Opened'
  BY DEF LogTypeOK, Update, Goto, Stage, Opened, Inside
<1> QED BY <1>1, <1>2, <1>3, <1>4 DEF LogTypeOK, Update

LEMMA UnlockTypes == ASSUME LogTypeOK, NEW p \in Proc, Unlock(p) PROVE LogTypeOK'
  BY HitLogAssumption
     DEF Unlock, Goto, LogTypeOK, HitLogAssumption, Row, File, Day, Stage, Opened, Inside, none

LEMMA UnlinkTypes == ASSUME LogTypeOK, NEW p \in Proc, Unlink(p) PROVE LogTypeOK'
  BY HitLogAssumption
     DEF Unlink, Goto, LogTypeOK, HitLogAssumption, Row, File, Day, Stage, Opened, Inside, none

LEMMA KilledTypes == ASSUME LogTypeOK, NEW p \in Proc, Killed(p) PROVE LogTypeOK'
  BY HitLogAssumption
     DEF Killed, Fail, LogTypeOK, HitLogAssumption, Row, File, Day, Stage, Opened, Inside, none

LEMMA NextTypes == LogTypeOK /\ [LogNext]_logvars => LogTypeOK'
<1> SUFFICES ASSUME LogTypeOK, [LogNext]_logvars PROVE LogTypeOK'
  OBVIOUS
<1>1. ASSUME UNCHANGED logvars PROVE LogTypeOK'
  BY <1>1 DEF logvars, LogTypeOK, Opened, Inside
<1>2. ASSUME Midnight PROVE LogTypeOK'
  BY <1>2, HitLogAssumption DEF Midnight, LogTypeOK, Day, Opened, Inside, HitLogAssumption
<1>3. ASSUME NEW p \in Proc, Visit(p) \/ Step(p) \/ Killed(p) PROVE LogTypeOK'
  BY <1>3, VisitTypes, OpenLockTypes, TakeLockTypes, SelectTypes, InsertTypes, UpdateTypes,
     UnlockTypes, UnlinkTypes, KilledTypes DEF Step
<1> QED BY <1>1, <1>2, <1>3 DEF LogNext

(* The counters, the lock file and the stages of MsqlLog (log.c:665-816)    *)
(* keep their types, and a process has a lock file open only in between.    *)
THEOREM TypeCorrect == LogSpec => []LogTypeOK
  BY InitTypes, NextTypes, PTL DEF LogSpec

-----------------------------------------------------------------------------
(* Nothing counts twice.  A visit that is not counted yet is Pending; it    *)
(* leaves Pending when its update is sent, or when its process is killed.   *)
Pending == {p \in Proc : pc[p] \in {"open", "lock", "select", "insert", "update"}}

CountInv ==
    /\ LogTypeOK
    /\ updates + Cardinality(Pending) <= visits
    /\ row.total <= updates
    /\ \A p \in Proc : total_count[p] <= updates

LEMMA PendingFinite == IsFiniteSet(Pending) /\ Cardinality(Pending) \in Nat
<1>1. IsFiniteSet(Proc) /\ Pending \subseteq Proc
  BY HitLogAssumption DEF HitLogAssumption, Pending
<1> QED BY <1>1, FS_Subset, FS_CardinalityType

(* How a step moves one process into Pending, within it or out of it.       *)
LEMMA PendingMoves ==
    ASSUME LogTypeOK, NEW p \in Proc, NEW from \in Stage, NEW to \in Stage, Goto(p, from, to)
    PROVE  LET waits == {"open", "lock", "select", "insert", "update"}
           IN  /\ from \notin waits /\ to \in waits => Cardinality(Pending') = Cardinality(Pending) + 1
               /\ from \in waits /\ to \in waits => Cardinality(Pending') = Cardinality(Pending)
               /\ from \in waits /\ to \notin waits => Cardinality(Pending') = Cardinality(Pending) - 1
               /\ from \notin waits /\ to \notin waits => Cardinality(Pending') = Cardinality(Pending)
<1> DEFINE waits == {"open", "lock", "select", "insert", "update"}
<1>1. pc[p] = from /\ pc' = [pc EXCEPT ![p] = to] /\ pc \in [Proc -> Stage]
  BY DEF Goto, LogTypeOK
<1>2. p \in Pending <=> from \in waits
  BY <1>1 DEF Pending
<1>3. to \in waits => Pending' = Pending \cup {p}
  BY <1>1 DEF Pending
<1>4. to \notin waits => Pending' = Pending \ {p}
  BY <1>1 DEF Pending
<1>5. IsFiniteSet(Pending) /\ Cardinality(Pending) \in Nat
  BY PendingFinite
<1>6. Cardinality(Pending \cup {p}) = IF p \in Pending THEN Cardinality(Pending)
                                      ELSE Cardinality(Pending) + 1
  BY <1>5, FS_AddElement
<1>7. Cardinality(Pending \ {p}) = IF p \in Pending THEN Cardinality(Pending) - 1
                                   ELSE Cardinality(Pending)
  BY <1>5, FS_RemoveElement
<1> QED BY <1>2, <1>3, <1>4, <1>6, <1>7

LEMMA InitCounts == LogInit => CountInv
<1> SUFFICES ASSUME LogInit PROVE CountInv
  OBVIOUS
<1>1. LogTypeOK
  BY InitTypes
<1>2. Pending = {}
  BY DEF LogInit, Pending
<1>3. Cardinality(Pending) = 0
  BY <1>2, FS_EmptySet
<1> QED BY <1>1, <1>3 DEF LogInit, CountInv

LEMMA NextCounts == CountInv /\ [LogNext]_logvars => CountInv'
<1> SUFFICES ASSUME CountInv, [LogNext]_logvars PROVE CountInv'
  OBVIOUS
<1>1. LogTypeOK /\ LogTypeOK'
  BY NextTypes DEF CountInv
<1>2. /\ updates \in Nat /\ visits \in Nat /\ row.total \in Nat
      /\ total_count \in [Proc -> Nat \cup {-1}]
      /\ Cardinality(Pending) \in Nat
  BY <1>1, RowParts, PendingFinite, HitLogAssumption DEF LogTypeOK, HitLogAssumption
<1>3. ASSUME UNCHANGED logvars PROVE CountInv'
  BY <1>1, <1>3 DEF logvars, CountInv, Pending
<1>4. ASSUME Midnight PROVE CountInv'
  BY <1>1, <1>4 DEF Midnight, CountInv, Pending
<1>5. ASSUME NEW p \in Proc, Visit(p) PROVE CountInv'
  <2>1. Cardinality(Pending') = Cardinality(Pending) + 1
    BY <1>1, <1>5, PendingMoves DEF Visit, Stage
  <2>2. \A q \in Proc : total_count'[q] <= updates
    BY <1>2, <1>5 DEF Visit, CountInv
  <2> QED BY <1>1, <1>2, <1>5, <2>1, <2>2 DEF Visit, CountInv
<1>6. ASSUME NEW p \in Proc, OpenLock(p) \/ TakeLock(p) PROVE CountInv'
  <2>1. Cardinality(Pending') = Cardinality(Pending)
    BY <1>1, <1>6, PendingMoves DEF OpenLock, TakeLock, Stage
  <2> QED BY <1>1, <1>6, <2>1 DEF OpenLock, TakeLock, CountInv
<1>7. ASSUME NEW p \in Proc, Select(p) PROVE CountInv'
  <2>1. Cardinality(Pending') = Cardinality(Pending)
    BY <1>1, <1>7, PendingMoves DEF Select, Stage
  <2>2. \A q \in Proc : total_count'[q] <= updates
    BY <1>2, <1>7 DEF Select, CountInv
  <2> QED BY <1>1, <1>7, <2>1, <2>2 DEF Select, CountInv
<1>8. ASSUME NEW p \in Proc, Insert(p) PROVE CountInv'
  <2>1. Cardinality(Pending') = Cardinality(Pending)
    BY <1>1, <1>8, PendingMoves DEF Insert, Stage
  <2>2. row'.total <= updates
    BY <1>2, <1>8 DEF Insert, CountInv
  <2> QED BY <1>1, <1>8, <2>1, <2>2 DEF Insert, CountInv
<1>9. ASSUME NEW p \in Proc, Update(p) PROVE CountInv'
  <2>1. Cardinality(Pending') = Cardinality(Pending) - 1
    BY <1>1, <1>9, PendingMoves DEF Update, Stage
  <2>2. \A q \in Proc : total_count'[q] <= updates + 1
    BY <1>2, <1>9 DEF Update, CountInv
  <2>3. row'.total <= updates + 1
    BY <1>2, <1>9, <2>2 DEF Update, CountInv
  <2> QED BY <1>1, <1>2, <1>9, <2>1, <2>2, <2>3 DEF Update, CountInv
<1>10. ASSUME NEW p \in Proc, Unlock(p) \/ Unlink(p) PROVE CountInv'
  <2>1. Cardinality(Pending') = Cardinality(Pending)
    BY <1>1, <1>10, PendingMoves DEF Unlock, Unlink, Stage
  <2> QED BY <1>1, <1>10, <2>1 DEF Unlock, Unlink, CountInv
<1>11. ASSUME NEW p \in Proc, Killed(p) PROVE CountInv'
  <2>1. Goto(p, pc[p], "idle") /\ pc[p] \in Stage
    BY <1>1, <1>11 DEF Killed, Goto, LogTypeOK
  <2>2. Cardinality(Pending') <= Cardinality(Pending)
    BY <1>1, <1>2, <2>1, PendingMoves DEF Stage
  <2>3. Cardinality(Pending)' \in Nat
    <3>1. Pending' \subseteq Pending
      BY <1>1, <2>1 DEF Pending, Goto, LogTypeOK
    <3> QED BY <3>1, PendingFinite, FS_Subset, FS_CardinalityType
  <2> QED BY <1>1, <1>2, <1>11, <2>2, <2>3 DEF Killed, CountInv
<1> QED BY <1>3, <1>4, <1>5, <1>6, <1>7, <1>8, <1>9, <1>10, <1>11 DEF LogNext, Step

(* However lock files overlap, opens and queries fail and processes die,    *)
(* the total of last<uid> (log.c:790-803) is never more than the updates    *)
(* sent, nor these more than the visits.                                   *)
THEOREM NothingCountsTwice == LogSpec => []NeverOvercounts
<1>1. CountInv => NeverOvercounts
  BY PendingFinite, HitLogAssumption DEF CountInv, NeverOvercounts, LogTypeOK, HitLogAssumption
<1> QED BY <1>1, InitCounts, NextCounts, PTL DEF LogSpec

-----------------------------------------------------------------------------
(* Each visit counts, one at a time.  Without faults, and with no lock file *)
(* made while an unlinked one is open, all open lock files are one file,    *)
(* the named one if there is a name; who is inside has it locked; and what  *)
(* a process has read of the row is still there when it writes the row.     *)
LastDay == IF row.total = 0 THEN 0 ELSE row.day

LockInv ==
    /\ \A p \in Opened : lockfd[p] # none
    /\ \A p \in Inside : owner[lockfd[p]] = p
    /\ \A p, q \in Proc : lockfd[p] # none /\ lockfd[q] # none => lockfd[p] = lockfd[q]
    /\ \A p \in Proc : lockfn # none /\ lockfd[p] # none => lockfd[p] = lockfn

RowInv ==
    /\ ~row.there => row.total = 0 /\ row.today = 0
    /\ row.there /\ row.total = 0 => \E p \in Proc : pc[p] = "update"
    /\ \A p \in Proc : pc[p] # "idle" => t[p] # 0
    /\ \A p \in Proc : pc[p] = "insert" =>
            ~row.there /\ total_count[p] = 0 /\ today_count[p] = 0 /\ la[p] = 0
    /\ \A p \in Proc : pc[p] = "update" =>
            /\ row.there /\ total_count[p] = row.total /\ today_count[p] = row.today
            /\ la[p] = LastDay

SoleInv == LogTypeOK /\ LockInv /\ RowInv

LEMMA OnlyOneInside ==
    ASSUME LogTypeOK, LockInv
    PROVE  \A p, q \in Inside : p = q
<1> SUFFICES ASSUME NEW p \in Inside, NEW q \in Inside PROVE p = q
  OBVIOUS
<1>1. p \in Proc /\ q \in Proc /\ p \in Opened /\ q \in Opened
  BY DEF Inside, Opened
<1>2. lockfd[p] = lockfd[q]
  BY <1>1 DEF LockInv
<1> QED BY <1>2 DEF LockInv

LEMMA NoFaults == ASSUME MaxFaults = 0, LogTypeOK PROVE ~Fail
  BY DEF Fail, LogTypeOK

LEMMA InitSole == LogInit => SoleInv
<1> SUFFICES ASSUME LogInit PROVE SoleInv
  OBVIOUS
<1>1. LogTypeOK
  BY InitTypes
<1>2. LockInv
  BY DEF LogInit, LockInv, Opened, Inside, none
<1>3. RowInv
  BY DEF LogInit, RowInv
<1> QED BY <1>1, <1>2, <1>3 DEF SoleInv

LEMMA NextLock ==
    ASSUME Patient, MaxFaults = 0, SoleInv, [LogNext]_logvars
    PROVE  LockInv'
<1>1. LogTypeOK /\ LockInv /\ ~Fail
  BY NoFaults DEF SoleInv
<1>2. ASSUME UNCHANGED logvars \/ Midnight PROVE LockInv'
  BY <1>1, <1>2 DEF logvars, Midnight, LockInv, Opened, Inside
<1>3. ASSUME NEW p \in Proc, Visit(p) PROVE LockInv'
  BY <1>1, <1>3 DEF Visit, Goto, LockInv, Opened, Inside, LogTypeOK
<1>4. ASSUME NEW p \in Proc, OpenLock(p) PROVE LockInv'
  <2>1. p \notin Opened /\ lockfd[p] = none /\ files \in Nat
    BY <1>1, <1>4, HitLogAssumption
       DEF OpenLock, Goto, Opened, Inside, LogTypeOK, HitLogAssumption
  <2>2. Inside' = Inside /\ Opened' = Opened \cup {p}
    BY <1>1, <1>4 DEF OpenLock, Goto, Opened, Inside, LogTypeOK
  <2>3. CASE lockfn # none /\ lockfd' = [lockfd EXCEPT ![p] = lockfn] /\ UNCHANGED lockfn
    BY <1>1, <1>4, <2>1, <2>2, <2>3 DEF OpenLock, LockInv, LogTypeOK, Opened, Inside
  <2>4. CASE /\ \A q \in Proc : lockfd[q] = none
             /\ lockfn' = files + 1 /\ lockfd' = [lockfd EXCEPT ![p] = files + 1]
    BY <1>1, <1>4, <2>1, <2>2, <2>4 DEF OpenLock, LockInv, LogTypeOK, Opened, Inside, none
  <2> QED BY <1>1, <1>4, <2>3, <2>4 DEF OpenLock
<1>5. ASSUME NEW p \in Proc, TakeLock(p) PROVE LockInv'
  <2>1. p \in Opened /\ Inside' = Inside \cup {p} /\ Opened' = Opened
    BY <1>1, <1>5 DEF TakeLock, Goto, Opened, Inside, LogTypeOK
  <2>2. lockfd[p] \in File /\ "nobody" \notin Proc
    BY <1>1, <2>1, HitLogAssumption DEF LogTypeOK, LockInv, File, none, HitLogAssumption
  <2>3. Inside = {}
    BY <1>1, <1>5, <2>1, <2>2 DEF TakeLock, LockInv, Inside, Opened
  <2> QED BY <1>1, <1>5, <2>1, <2>2, <2>3 DEF TakeLock, LockInv, LogTypeOK
<1>6. ASSUME NEW p \in Proc, Select(p) \/ Insert(p) \/ Update(p) PROVE LockInv'
  <2>1. Inside' = Inside /\ Opened' = Opened
    BY <1>1, <1>6 DEF Select, Insert, Update, Goto, Opened, Inside, LogTypeOK
  <2> QED BY <1>1, <1>6, <2>1 DEF Select, Insert, Update, LockInv
<1>7. ASSUME NEW p \in Proc, Unlock(p) PROVE LockInv'
  <2>1. p \in Inside /\ Inside' = Inside \ {p} /\ Opened' = Opened \ {p}
    BY <1>1, <1>7 DEF Unlock, Goto, Opened, Inside, LogTypeOK
  <2>2. Inside' = {}
    BY <1>1, <2>1, OnlyOneInside
  <2> QED BY <1>1, <1>7, <2>1, <2>2 DEF Unlock, LockInv, LogTypeOK, Opened
<1>8. ASSUME NEW p \in Proc, Unlink(p) PROVE LockInv'
  <2>1. Inside' = Inside /\ Opened' = Opened
    BY <1>1, <1>8 DEF Unlink, Goto, Opened, Inside, LogTypeOK
  <2> QED BY <1>1, <1>8, <2>1 DEF Unlink, LockInv
<1> QED BY <1>1, <1>2, <1>3, <1>4, <1>5, <1>6, <1>7, <1>8 DEF LogNext, Step, Killed

LEMMA NextRow ==
    ASSUME MaxFaults = 0, SoleInv, [LogNext]_logvars
    PROVE  RowInv'
<1>1. LogTypeOK /\ LockInv /\ RowInv /\ ~Fail /\ pc \in [Proc -> Stage]
  BY NoFaults DEF SoleInv, LogTypeOK
<1>2. ASSUME UNCHANGED logvars \/ Midnight PROVE RowInv'
  BY <1>1, <1>2 DEF logvars, Midnight, RowInv, LastDay
<1>3. ASSUME NEW p \in Proc, Visit(p) PROVE RowInv'
  <2>1. day # 0 /\ t'[p] = day /\ \A q \in Proc : q # p => t'[q] = t[q]
    BY <1>1, <1>3, HitLogAssumption DEF Visit, LogTypeOK, Day, HitLogAssumption
  <2>2. \A q \in Proc : q # p => total_count'[q] = total_count[q] /\ today_count'[q] = today_count[q]
    BY <1>1, <1>3 DEF Visit, LogTypeOK
  <2> QED BY <1>1, <1>3, <2>1, <2>2 DEF Visit, Goto, RowInv, LastDay
<1>4. ASSUME NEW p \in Proc, OpenLock(p) \/ TakeLock(p) \/ Unlock(p) \/ Unlink(p) PROVE RowInv'
  <2>1. /\ UNCHANGED <<row, t, la, total_count, today_count>>
        /\ pc[p] \in {"open", "lock", "unlock", "unlink"}
        /\ pc'[p] \in {"lock", "select", "unlink", "idle"}
        /\ \A q \in Proc : q # p => pc'[q] = pc[q]
    BY <1>1, <1>4 DEF OpenLock, TakeLock, Unlock, Unlink, Goto
  <2> QED BY <1>1, <2>1 DEF RowInv, LastDay
<1>5. ASSUME NEW p \in Proc, Select(p) PROVE RowInv'
  <2>1. p \in Inside /\ \A q \in Inside : q = p
    BY <1>1, <1>5, OnlyOneInside DEF Select, Goto, Inside
  <2>2. row.there => row.total # 0
    BY <1>1, <1>5, <2>1 DEF Select, Goto, RowInv, Inside
  <2>3. /\ UNCHANGED <<row, t>> /\ pc[p] = "select" /\ \A q \in Proc : q # p => pc'[q] = pc[q]
        /\ \A q \in Proc : q # p => pc[q] \notin {"insert", "update"}
    BY <1>1, <1>5, <2>1 DEF Select, Goto, Inside
  <2>4. CASE row.there
    BY <1>1, <1>5, <2>2, <2>3, <2>4 DEF Select, Goto, RowInv, LastDay, LogTypeOK
  <2>5. CASE ~row.there
    BY <1>1, <1>5, <2>2, <2>3, <2>5 DEF Select, Goto, RowInv, LastDay, LogTypeOK
  <2> QED BY <2>4, <2>5
<1>6. ASSUME NEW p \in Proc, Insert(p) PROVE RowInv'
  <2>1. /\ UNCHANGED <<t, la, total_count, today_count>> /\ pc[p] = "insert" /\ pc'[p] = "update"
        /\ \A q \in Proc : q # p => pc'[q] = pc[q] /\ pc[q] \notin {"insert", "update"}
    BY <1>1, <1>6, OnlyOneInside DEF Insert, Goto, Inside
  <2>2. row' = [there |-> TRUE, total |-> 0, today |-> 0, day |-> t[p]]
    BY <1>1, <1>6, <2>1 DEF Insert, RowInv
  <2> QED BY <1>1, <2>1, <2>2 DEF RowInv, LastDay
<1>7. ASSUME NEW p \in Proc, Update(p) PROVE RowInv'
  <2>1. /\ UNCHANGED <<t, la>> /\ pc[p] = "update" /\ pc'[p] = "unlock"
        /\ \A q \in Proc : q # p => pc'[q] = pc[q] /\ pc[q] \notin {"insert", "update"}
    BY <1>1, <1>7, OnlyOneInside DEF Update, Goto, Inside
  <2>2. row'.there /\ row'.total = row.total + 1 /\ row.total \in Nat
    BY <1>1, <1>7, <2>1, RowParts DEF Update, RowInv, LogTypeOK
  <2> QED BY <1>1, <2>1, <2>2 DEF RowInv, LastDay
<1> QED BY <1>1, <1>2, <1>3, <1>4, <1>5, <1>6, <1>7 DEF LogNext, Step, Killed

(* The lock file does its work: two processes are never between the read    *)
(* and the update of MsqlLog (log.c:732-816) at the same time.             *)
THEOREM OneVisitAtATime ==
    ASSUME Patient, MaxFaults = 0
    PROVE  LogSpec => []OneVisitCounts
<1>1. SoleInv /\ [LogNext]_logvars => SoleInv'
  BY NextTypes, NextLock, NextRow DEF SoleInv
<1>2. SoleInv => OneVisitCounts
  BY OnlyOneInside DEF SoleInv, OneVisitCounts
<1> QED BY <1>1, <1>2, InitSole, PTL DEF LogSpec

(* What the comment at log.c:728 claims: seen through the row, every update *)
(* is one step of the abstract counter, and nothing else changes it.        *)
THEOREM CountingIsAtomic ==
    ASSUME Patient, MaxFaults = 0
    PROVE  LogSpec => CountsAtomically
<1>1. SoleInv /\ [LogNext]_logvars => SoleInv'
  BY NextTypes, NextLock, NextRow DEF SoleInv
<1>2. LogInit => Counter!Init
  BY DEF LogInit, Counter!Init
<1>3. ASSUME SoleInv, [LogNext]_logvars
      PROVE  [Counter!Next]_<<row.total, row.today, LastDay>>
  <2>1. LogTypeOK /\ RowInv /\ ~Fail
    BY <1>3, NoFaults DEF SoleInv
  <2>2. CASE UNCHANGED row
    BY <2>2 DEF LastDay
  <2>3. ASSUME NEW p \in Proc, Insert(p)
        PROVE  UNCHANGED <<row.total, row.today, LastDay>>
    <3>1. ~row.there /\ row.total = 0 /\ row.today = 0
      BY <2>1, <2>3 DEF Insert, Goto, RowInv
    <3>2. row'.total = 0 /\ row'.today = 0
      BY <2>1, <2>3, <3>1 DEF Insert
    <3> QED BY <3>1, <3>2 DEF LastDay
  <2>4. ASSUME NEW p \in Proc, Update(p) PROVE Counter!Visit(t[p]) /\ t[p] \in Day
    <3>1. /\ pc[p] = "update" /\ row.there /\ total_count[p] = row.total
          /\ today_count[p] = row.today /\ la[p] = LastDay
          /\ row.total \in Nat /\ row.today \in Nat
      BY <2>1, <2>4, RowParts DEF Update, Goto, RowInv
    <3>2. /\ row'.total = row.total + 1 /\ row'.day = t[p]
          /\ row'.today = IF LastDay = t[p] THEN row.today + 1 ELSE 1
      BY <2>1, <2>4, <3>1 DEF Update, LogTypeOK
    <3>3. LastDay' = t[p]
      BY <3>1, <3>2 DEF LastDay
    <3>4. t[p] \in Day
      BY <2>1, <3>1, HitLogAssumption DEF LogTypeOK, RowInv, Day, HitLogAssumption
    <3> QED BY <3>2, <3>3, <3>4 DEF Counter!Visit, LastDay
  <2>5. LogNext => UNCHANGED row \/ \E p \in Proc : Insert(p) \/ Update(p)
    BY <2>1 DEF LogNext, Step, Visit, OpenLock, TakeLock, Select, Unlock, Unlink, Killed, Midnight
  <2>6. CASE UNCHANGED logvars
    BY <2>2, <2>6 DEF logvars
  <2> QED BY <1>3, <2>2, <2>3, <2>4, <2>5, <2>6 DEF Counter!Next
<1> QED BY <1>1, <1>2, <1>3, InitSole, PTL
        DEF LogSpec, CountsAtomically, Counter!Spec, LastDay
-----------------------------------------------------------------------------
(* No visit is lost.  Without faults the total is the number of updates     *)
(* sent, and a visit is Pending until its update is.                       *)
AllInv ==
    /\ SoleInv
    /\ row.total = updates
    /\ updates + Cardinality(Pending) = visits

LEMMA NextAll ==
    ASSUME Patient, MaxFaults = 0, AllInv, [LogNext]_logvars
    PROVE  AllInv'
<1>1. SoleInv /\ SoleInv' /\ LogTypeOK /\ LogTypeOK' /\ RowInv /\ ~Fail
  BY NextTypes, NextLock, NextRow, NoFaults DEF SoleInv, AllInv
<1>2. /\ updates \in Nat /\ visits \in Nat /\ Cardinality(Pending) \in Nat
      /\ row.total = updates /\ updates + Cardinality(Pending) = visits
  BY <1>1, PendingFinite, HitLogAssumption DEF AllInv, LogTypeOK, HitLogAssumption
<1> SUFFICES row'.total = updates' /\ updates' + Cardinality(Pending') = visits'
  BY <1>1 DEF AllInv
<1>3. CASE UNCHANGED logvars \/ Midnight
  BY <1>2, <1>3 DEF logvars, Midnight, Pending
<1>4. ASSUME NEW p \in Proc, Visit(p)
      PROVE  row'.total = updates' /\ updates' + Cardinality(Pending') = visits'
  <2>1. Cardinality(Pending') = Cardinality(Pending) + 1
    BY <1>1, <1>4, PendingMoves DEF Visit, Stage
  <2>2. UNCHANGED <<row, updates>> /\ visits' = visits + 1
    BY <1>4 DEF Visit
  <2> QED BY <1>2, <2>1, <2>2
<1>5. ASSUME NEW p \in Proc, OpenLock(p) \/ TakeLock(p) \/ Select(p) \/ Unlock(p) \/ Unlink(p)
      PROVE  row'.total = updates' /\ updates' + Cardinality(Pending') = visits'
  <2>1. Cardinality(Pending') = Cardinality(Pending)
    BY <1>1, <1>5, PendingMoves DEF OpenLock, TakeLock, Select, Unlock, Unlink, Stage
  <2> QED BY <1>2, <1>5, <2>1 DEF OpenLock, TakeLock, Select, Unlock, Unlink
<1>6. ASSUME NEW p \in Proc, Insert(p)
      PROVE  row'.total = updates' /\ updates' + Cardinality(Pending') = visits'
  <2>1. Cardinality(Pending') = Cardinality(Pending)
    BY <1>1, <1>6, PendingMoves DEF Insert, Stage
  <2>2. ~row.there /\ row.total = 0
    BY <1>1, <1>6 DEF Insert, Goto, RowInv
  <2>3. row'.total = 0
    BY <1>1, <1>6, <2>2 DEF Insert
  <2> QED BY <1>2, <1>6, <2>1, <2>2, <2>3 DEF Insert
<1>7. ASSUME NEW p \in Proc, Update(p)
      PROVE  row'.total = updates' /\ updates' + Cardinality(Pending') = visits'
  <2>1. Cardinality(Pending') = Cardinality(Pending) - 1
    BY <1>1, <1>7, PendingMoves DEF Update, Stage
  <2>2. row.there /\ total_count[p] = row.total
    BY <1>1, <1>7 DEF Update, Goto, RowInv
  <2>3. row'.total = row.total + 1
    BY <1>1, <1>7, <2>2 DEF Update, LogTypeOK
  <2> QED BY <1>2, <1>7, <2>1, <2>3 DEF Update
<1> QED BY <1>1, <1>3, <1>4, <1>5, <1>6, <1>7 DEF LogNext, Step, Killed

(* Whenever no visit is being counted, the total of last<uid> is the number *)
(* of visits: no update of MsqlLog (log.c:792-800) overwrites another.     *)
THEOREM EveryVisitCounts ==
    ASSUME Patient, MaxFaults = 0
    PROVE  LogSpec => []NoVisitLost
<1>1. LogInit => AllInv
  <2> SUFFICES ASSUME LogInit PROVE AllInv
    OBVIOUS
  <2>1. Pending = {}
    BY DEF LogInit, Pending
  <2>2. Cardinality(Pending) = 0
    BY <2>1, FS_EmptySet
  <2> QED BY <2>2, InitSole DEF LogInit, AllInv
<1>2. AllInv /\ [LogNext]_logvars => AllInv'
  BY NextAll
<1>3. AllInv => NoVisitLost
  <2> SUFFICES ASSUME AllInv, \A p \in Proc : pc[p] = "idle" PROVE row.total = visits
    BY DEF NoVisitLost
  <2>1. Pending = {}
    BY DEF Pending
  <2>2. Cardinality(Pending) = 0
    BY <2>1, FS_EmptySet
  <2> QED BY <2>2, HitLogAssumption DEF AllInv, SoleInv, LogTypeOK, HitLogAssumption
<1> QED BY <1>1, <1>2, <1>3, PTL DEF LogSpec
=============================================================================
