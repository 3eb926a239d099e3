---------------------------- MODULE BlocksProofs ----------------------------
(***************************************************************************)
(* Proofs about Blocks for every MaxDepth and MaxBraces.  The stacks are    *)
(* what the open constructs unfold to, outermost first: After says what one *)
(* construct adds to the stacks it meets, Unfolds that the whole nest does. *)
(***************************************************************************)
EXTENDS Blocks, SequenceTheorems, TLAPS

Stacks == [cond : Seq(CondEntry), match : Seq(BOOLEAN),
           switches : Seq(BOOLEAN), whiles : Nat]

Empty == [cond |-> << >>, match |-> << >>, switches |-> << >>, whiles |-> 0]

Current == [cond |-> cond, match |-> match, switches |-> switches, whiles |-> whiles]

StateOf(s)  == IF s.cond = << >> THEN TRUE ELSE Last(s.cond).state
ActiveOf(s) == IF s.cond = << >> THEN 0 ELSE Last(s.cond).active

(* A dead switch keeps an entry only under a dead switch or case, a dead    *)
(* while only under a dead while, a case only in a live switch.            *)
Keeps(s, f) ==
    \/ StateOf(s)
    \/ f.kind = "if"
    \/ f.kind = "switch" /\ ActiveOf(s) \in {-2, -3}
    \/ f.kind = "while" /\ ActiveOf(s) = -4

EntryOf(s, f) ==
    IF StateOf(s)
    THEN Entry(f.taken, IF f.kind = "case" THEN -2
                        ELSE IF f.kind = "while" THEN -4
                        ELSE IF f.kind = "if" /\ f.last THEN -1
                        ELSE 1)
    ELSE Entry(FALSE, IF f.kind = "if" THEN 0
                      ELSE IF f.kind = "switch" THEN -3
                      ELSE -4)

MatchOf(s, f) == StateOf(s) /\ (IF f.last THEN f.taken ELSE f.done)

After(s, f) ==
    [cond |-> IF Keeps(s, f) THEN Append(s.cond, EntryOf(s, f)) ELSE s.cond,
     match |-> IF f.kind = "if"
               THEN Append(s.match, MatchOf(s, f))
               ELSE s.match,
     switches |-> IF f.kind = "switch" /\ StateOf(s)
                  THEN Append(s.switches, f.done) ELSE s.switches,
     whiles |-> IF f.kind = "while" /\ StateOf(s) /\ f.taken
                THEN s.whiles + 1 ELSE s.whiles]

AllTaken(n) == \A i \in 1..Len(n) : n[i].taken

IsUnfolding(sv, n) ==
    /\ sv \in [0..Len(n) -> Stacks]
    /\ sv[0] = Empty
    /\ \A i \in 1..Len(n) :
        /\ sv[i] = After(sv[i-1], n[i])
        /\ n[i].kind = "switch" => n[i].taken
        /\ n[i].kind = "case" => i > 1 /\ n[i-1].kind = "switch"
    /\ \A i \in 0..Len(n) : StateOf(sv[i]) <=> \A j \in 1..i : n[j].taken

Unfolds(n, s) == \E sv : IsUnfolding(sv, n) /\ sv[Len(n)] = s

IInv ==
    /\ TypeOK
    /\ ~astray => /\ Unfolds(nest, Current)
                  /\ again <=> resume
                  /\ resume => Innermost("while") /\ Live

-----------------------------------------------------------------------------
(* Sequences used as stacks.                                               *)
LEMMA PushPop ==
    ASSUME NEW S, NEW s \in Seq(S), NEW e \in S
    PROVE  /\ Append(s, e) \in Seq(S)
           /\ Append(s, e) # << >>
           /\ Len(Append(s, e)) = Len(s) + 1
           /\ Front(Append(s, e)) = s
           /\ Last(Append(s, e)) = e
<1> DEFINE t == Append(s, e)
<1>1. t \in Seq(S) /\ t # << >> /\ Len(t) = Len(s) + 1
  BY AppendProperties
<1>2. Last(t) = e
  BY AppendProperties DEF Last
<1>3. Front(t) = SubSeq(t, 1, Len(s))
  BY <1>1, LenProperties DEF Front
<1>4. SubSeq(t, 1, Len(s)) = s
  BY <1>1, SMT
<1> QED BY <1>1, <1>2, <1>3, <1>4

LEMMA PopPush ==
    ASSUME NEW S, NEW s \in Seq(S), s # << >>
    PROVE  /\ Front(s) \in Seq(S)
           /\ Last(s) \in S
           /\ Len(s) \in Nat \ {0}
           /\ Len(Front(s)) = Len(s) - 1
           /\ s = Append(Front(s), Last(s))
           /\ Last(s) = s[Len(s)]
           /\ \A i \in 1..Len(s)-1 : Front(s)[i] = s[i]
<1>1. PICK t \in Seq(S), e \in S : s = Append(t, e)
  BY SequenceEmptyOrAppend
<1>2. Front(s) = t /\ Last(s) = e
  BY <1>1, PushPop
<1>3. /\ Len(t) \in Nat
      /\ Len(s) = Len(t) + 1
      /\ \A i \in 1..Len(t) : s[i] = t[i]
  BY <1>1, AppendProperties, LenProperties
<1> QED BY <1>1, <1>2, <1>3 DEF Last

-----------------------------------------------------------------------------
(* One construct: what it adds, and that it can be taken off again.        *)
LEMMA EntryType ==
    ASSUME NEW s \in Stacks, NEW f \in Frame
    PROVE  EntryOf(s, f) \in CondEntry
BY DEF EntryOf, Entry, CondEntry, Frame

LEMMA StateType ==
    ASSUME NEW s \in Stacks
    PROVE  StateOf(s) \in BOOLEAN
<1>1. s.cond \in Seq(CondEntry)
  BY DEF Stacks
<1>2. CASE s.cond = << >>
  BY <1>2 DEF StateOf
<1>3. CASE s.cond # << >>
  <2>1. Last(s.cond) \in CondEntry
    BY <1>1, <1>3, PopPush
  <2> QED BY <1>3, <2>1 DEF StateOf, CondEntry
<1> QED BY <1>2, <1>3

LEMMA AfterType ==
    ASSUME NEW s \in Stacks, NEW f \in Frame
    PROVE  After(s, f) \in Stacks
<1>1. /\ s.cond \in Seq(CondEntry)
      /\ s.match \in Seq(BOOLEAN)
      /\ s.switches \in Seq(BOOLEAN)
      /\ s.whiles \in Nat
  BY DEF Stacks
<1>2. Append(s.cond, EntryOf(s, f)) \in Seq(CondEntry)
  BY <1>1, EntryType, PushPop
<1>3. MatchOf(s, f) \in BOOLEAN /\ f.done \in BOOLEAN
  BY DEF Frame, MatchOf
<1>4. Append(s.match, MatchOf(s, f)) \in Seq(BOOLEAN)
  BY <1>1, <1>3, PushPop
<1>5. Append(s.switches, f.done) \in Seq(BOOLEAN)
  BY <1>1, <1>3, PushPop
<1>6. After(s, f) =
        [cond |-> After(s, f).cond, match |-> After(s, f).match,
         switches |-> After(s, f).switches, whiles |-> After(s, f).whiles]
  BY DEF After
<1>7. /\ After(s, f).cond \in Seq(CondEntry)
      /\ After(s, f).match \in Seq(BOOLEAN)
      /\ After(s, f).switches \in Seq(BOOLEAN)
      /\ After(s, f).whiles \in Nat
  <2>1. /\ After(s, f).cond = s.cond \/ After(s, f).cond = Append(s.cond, EntryOf(s, f))
        /\ After(s, f).match = s.match \/ After(s, f).match = Append(s.match, MatchOf(s, f))
        /\ \/ After(s, f).switches = s.switches
           \/ After(s, f).switches = Append(s.switches, f.done)
        /\ After(s, f).whiles = s.whiles \/ After(s, f).whiles = s.whiles + 1
    BY Zenon DEF After
  <2>2. After(s, f).whiles \in Nat
    BY <1>1, <2>1
  <2> QED BY <1>1, <1>2, <1>4, <1>5, <2>1, <2>2, Zenon
<1> QED BY <1>6, <1>7 DEF Stacks

(* What is executed inside a construct: what was outside, in its branch.   *)
LEMMA AfterState ==
    ASSUME NEW s \in Stacks, NEW f \in Frame,
           f.kind = "switch" => f.taken
    PROVE  StateOf(After(s, f)) <=> StateOf(s) /\ f.taken
<1>1. CASE Keeps(s, f)
  <2>1. After(s, f).cond = Append(s.cond, EntryOf(s, f))
    BY <1>1 DEF After
  <2>2. /\ After(s, f).cond # << >>
        /\ Last(After(s, f).cond) = EntryOf(s, f)
    BY <2>1, EntryType, PushPop DEF Stacks
  <2>3. StateOf(After(s, f)) = EntryOf(s, f).state
    BY <2>2 DEF StateOf
  <2> QED BY <2>3, StateType DEF EntryOf, Entry, Frame
<1>2. CASE ~Keeps(s, f)
  <2>1. After(s, f).cond = s.cond /\ ~StateOf(s)
    BY <1>2 DEF After, Keeps
  <2>2. StateOf(After(s, f)) = StateOf(s)
    BY <2>1 DEF StateOf
  <2> QED BY <2>1, <2>2
<1> QED BY <1>1, <1>2

(* Opening a construct in text that unfolds.                               *)
LEMMA UnfoldOpen ==
    ASSUME NEW n \in Seq(Frame), NEW s, Unfolds(n, s), NEW f \in Frame,
           f.kind = "switch" => f.taken,
           f.kind = "case" => n # << >> /\ Last(n).kind = "switch"
    PROVE  Unfolds(Append(n, f), After(s, f))
<1>1. PICK sv : IsUnfolding(sv, n) /\ sv[Len(n)] = s
  BY DEF Unfolds
<1> DEFINE N  == Len(n)
           m  == Append(n, f)
           sw == [i \in 0..N+1 |-> IF i = N+1 THEN After(s, f) ELSE sv[i]]
<1>2. /\ N \in Nat
      /\ m \in Seq(Frame)
      /\ Len(m) = N + 1
      /\ m[N+1] = f
      /\ \A i \in 1..N : m[i] = n[i] /\ m[i] \in Frame
  BY AppendProperties, LenProperties
<1>3. s \in Stacks /\ sv \in [0..N -> Stacks]
  BY <1>1, <1>2 DEF IsUnfolding
<1>4. sw \in [0..Len(m) -> Stacks]
  BY <1>2, <1>3, AfterType
<1>5. sw[0] = Empty
  BY <1>1, <1>2 DEF IsUnfolding
<1>6. \A i \in 1..Len(m) :
        /\ sw[i] = After(sw[i-1], m[i])
        /\ m[i].kind = "switch" => m[i].taken
        /\ m[i].kind = "case" => i > 1 /\ m[i-1].kind = "switch"
  <2> SUFFICES ASSUME NEW i \in 1..Len(m)
               PROVE  /\ sw[i] = After(sw[i-1], m[i])
                      /\ m[i].kind = "switch" => m[i].taken
                      /\ m[i].kind = "case" => i > 1 /\ m[i-1].kind = "switch"
    OBVIOUS
  <2>1. CASE i = N + 1
    <3>1. sw[i] = After(s, f) /\ sw[i-1] = s /\ m[i] = f
      BY <2>1, <1>1, <1>2
    <3>2. f.kind = "case" => N > 0 /\ m[N] = Last(n)
      <4> SUFFICES ASSUME n # << >> PROVE N > 0 /\ m[N] = Last(n)
        OBVIOUS
      <4>1. N \in Nat \ {0} /\ Last(n) = n[N]
        BY PopPush
      <4> QED BY <4>1, <1>2
    <3> QED BY <3>1, <3>2, <2>1, <1>2
  <2>2. CASE i # N + 1
    <3>1. i \in 1..N /\ i-1 \in 0..N
      BY <2>2, <1>2
    <3>2. sw[i] = sv[i] /\ sw[i-1] = sv[i-1] /\ m[i] = n[i]
      BY <3>1, <1>2
    <3>3. i > 1 => m[i-1] = n[i-1]
      BY <3>1, <1>2
    <3> QED BY <3>1, <3>2, <3>3, <1>1 DEF IsUnfolding
  <2> QED BY <2>1, <2>2
<1>7. \A i \in 0..Len(m) : StateOf(sw[i]) <=> \A j \in 1..i : m[j].taken
  <2> SUFFICES ASSUME NEW i \in 0..Len(m)
               PROVE  StateOf(sw[i]) <=> \A j \in 1..i : m[j].taken
    OBVIOUS
  <2>1. CASE i = N + 1
    <3>1. sw[i] = After(s, f)
      BY <2>1, <1>2
    <3>2. StateOf(s) <=> \A j \in 1..N : n[j].taken
      BY <1>1, <1>2 DEF IsUnfolding
    <3>3. StateOf(sw[i]) <=> StateOf(s) /\ f.taken
      BY <3>1, <1>3, AfterState
    <3>4. (\A j \in 1..i : m[j].taken) <=> (\A j \in 1..N : n[j].taken) /\ f.taken
      BY <2>1, <1>2
    <3> QED BY <3>2, <3>3, <3>4
  <2>2. CASE i # N + 1
    <3>1. i \in 0..N /\ sw[i] = sv[i]
      BY <2>2, <1>2
    <3>2. \A j \in 1..i : m[j] = n[j]
      BY <3>1, <1>2
    <3> QED BY <3>1, <3>2, <1>1 DEF IsUnfolding
  <2> QED BY <2>1, <2>2
<1>8. sw[Len(m)] = After(s, f)
  BY <1>2
<1> HIDE DEF m, sw
<1>9. IsUnfolding(sw, m)
  BY <1>4, <1>5, <1>6, <1>7 DEF IsUnfolding
<1> QED BY <1>8, <1>9 DEF Unfolds, m

(* The innermost construct of text that unfolds is the last thing added.   *)
LEMMA UnfoldClose ==
    ASSUME NEW n \in Seq(Frame), NEW s, Unfolds(n, s), n # << >>
    PROVE  /\ \E r \in Stacks : Unfolds(Front(n), r) /\ s = After(r, Last(n))
           /\ Last(n).kind = "switch" => Last(n).taken
           /\ Last(n).kind = "case" => Front(n) # << >> /\ Last(Front(n)).kind = "switch"
<1>1. PICK sv : IsUnfolding(sv, n) /\ sv[Len(n)] = s
  BY DEF Unfolds
<1> DEFINE N  == Len(n) - 1
           m  == Front(n)
           sw == [i \in 0..N |-> sv[i]]
<1>2. /\ N \in Nat
      /\ m \in Seq(Frame)
      /\ Len(m) = N
      /\ Len(n) = N + 1
      /\ n[N+1] = Last(n)
      /\ \A i \in 1..N : m[i] = n[i]
  BY PopPush
<1>3. sw[N] \in Stacks /\ s = After(sw[N], Last(n))
  <2>1. N + 1 \in 1..Len(n) /\ (N + 1) - 1 = N /\ N \in 0..Len(n) /\ sw[N] = sv[N]
    BY <1>2
  <2>2. sv[N+1] = After(sv[N], n[N+1]) /\ sv[N] \in Stacks
    BY <1>1, <2>1 DEF IsUnfolding
  <2> QED BY <1>1, <1>2, <2>1, <2>2
<1>4. sw \in [0..Len(m) -> Stacks] /\ sw[0] = Empty
  BY <1>1, <1>2 DEF IsUnfolding
<1>5. \A i \in 1..Len(m) :
        /\ sw[i] = After(sw[i-1], m[i])
        /\ m[i].kind = "switch" => m[i].taken
        /\ m[i].kind = "case" => i > 1 /\ m[i-1].kind = "switch"
  <2> SUFFICES ASSUME NEW i \in 1..Len(m)
               PROVE  /\ sw[i] = After(sw[i-1], m[i])
                      /\ m[i].kind = "switch" => m[i].taken
                      /\ m[i].kind = "case" => i > 1 /\ m[i-1].kind = "switch"
    OBVIOUS
  <2>1. /\ i \in 1..Len(n)
        /\ sw[i] = sv[i] /\ sw[i-1] = sv[i-1] /\ m[i] = n[i]
        /\ i > 1 => m[i-1] = n[i-1]
    BY <1>2
  <2> QED BY <1>1, <2>1 DEF IsUnfolding
<1>6. \A i \in 0..Len(m) : StateOf(sw[i]) <=> \A j \in 1..i : m[j].taken
  <2> SUFFICES ASSUME NEW i \in 0..Len(m)
               PROVE  StateOf(sw[i]) <=> \A j \in 1..i : m[j].taken
    OBVIOUS
  <2>1. i \in 0..Len(n) /\ sw[i] = sv[i]
    BY <1>2
  <2>2. StateOf(sv[i]) <=> \A j \in 1..i : n[j].taken
    BY <1>1, <2>1 DEF IsUnfolding
  <2>3. \A j \in 1..i : m[j] = n[j]
    BY <1>2
  <2> QED BY <2>1, <2>2, <2>3
<1>7. Unfolds(m, sw[N])
  <2>1. IsUnfolding(sw, m)
    BY <1>4, <1>5, <1>6 DEF IsUnfolding
  <2> QED BY <2>1, <1>2 DEF Unfolds
<1>8. /\ Last(n).kind = "switch" => Last(n).taken
      /\ Last(n).kind = "case" => N + 1 > 1 /\ n[N].kind = "switch"
  <2>1. N + 1 \in 1..Len(n) /\ (N + 1) - 1 = N
    BY <1>2
  <2> QED BY <1>1, <1>2, <2>1 DEF IsUnfolding
<1>9. N > 0 => m # << >> /\ Last(m) = n[N]
  <2> SUFFICES ASSUME N > 0 PROVE m # << >> /\ Last(m) = n[N]
    OBVIOUS
  <2>1. m # << >>
    BY <1>2
  <2>2. Last(m) = m[Len(m)]
    BY <1>2, <2>1, PopPush
  <2> QED BY <1>2, <2>1, <2>2
<1> QED BY <1>2, <1>3, <1>7, <1>8, <1>9

(* What is executed is decided by the whole nest.                          *)
LEMMA UnfoldState ==
    ASSUME NEW n \in Seq(Frame), NEW s, Unfolds(n, s)
    PROVE  /\ s \in Stacks
           /\ StateOf(s) <=> AllTaken(n)
BY LenProperties DEF Unfolds, IsUnfolding, AllTaken

-----------------------------------------------------------------------------
(* The same facts of the variables.                                        *)
StackInv == TypeOK /\ Unfolds(nest, Current)

LEMMA Facts ==
    ASSUME StackInv
    PROVE  /\ Current \in Stacks
           /\ Current.cond = cond /\ Current.match = match
           /\ Current.switches = switches /\ Current.whiles = whiles
           /\ StateOf(Current) = GetCurrentState
           /\ ActiveOf(Current) = GetCurrentActive
           /\ GetCurrentState \in BOOLEAN
           /\ GetCurrentState <=> Live
<1>1. Current \in Stacks /\ (StateOf(Current) <=> AllTaken(nest))
  BY UnfoldState DEF StackInv, TypeOK
<1>2. /\ Current.cond = cond /\ Current.match = match
      /\ Current.switches = switches /\ Current.whiles = whiles
  BY DEF Current
<1>3. StateOf(Current) = GetCurrentState /\ ActiveOf(Current) = GetCurrentActive
  BY <1>2, Zenon DEF StateOf, ActiveOf, GetCurrentState, GetCurrentActive
<1>4. AllTaken(nest) <=> Live
  BY LenProperties DEF AllTaken, Live, StackInv, TypeOK
<1>5. StateOf(Current) \in BOOLEAN
  BY <1>1, StateType
<1> QED BY <1>1, <1>2, <1>3, <1>4, <1>5

(* A step that leaves the stacks as some text unfolds to keeps StackInv.   *)
LEMMA Landed ==
    ASSUME NEW n \in Seq(Frame), NEW t, Unfolds(n, t),
           nest' = n,
           cond' = t.cond, match' = t.match,
           switches' = t.switches, whiles' = t.whiles,
           resume' \in BOOLEAN, again' \in BOOLEAN, astray' \in BOOLEAN,
           brace' \in Seq(EndToken)
    PROVE  StackInv'
<1>1. t \in Stacks
  BY UnfoldState
<1>2. Current' = t
  BY <1>1 DEF Current, Stacks
<1>3. /\ cond' \in Seq(CondEntry) /\ match' \in Seq(BOOLEAN)
      /\ switches' \in Seq(BOOLEAN) /\ whiles' \in Nat
  BY <1>1 DEF Stacks
<1> QED BY <1>2, <1>3 DEF StackInv, TypeOK

(* A step that opens f does what After says.                               *)
LEMMA OpenStep ==
    ASSUME StackInv, NEW f \in Frame,
           nest' = Append(nest, f),
           f.kind = "switch" => f.taken,
           f.kind = "case" => Innermost("switch"),
           cond' = After(Current, f).cond,
           match' = After(Current, f).match,
           switches' = After(Current, f).switches,
           whiles' = After(Current, f).whiles,
           resume' \in BOOLEAN, again' \in BOOLEAN, astray' \in BOOLEAN,
           brace' \in Seq(EndToken)
    PROVE  StackInv'
<1>1. Unfolds(Append(nest, f), After(Current, f))
  BY UnfoldOpen DEF StackInv, TypeOK, Innermost
<1>2. Append(nest, f) \in Seq(Frame)
  BY PushPop DEF StackInv, TypeOK
<1> QED BY <1>1, <1>2, Landed

(* What one construct added to the stacks can be read and taken off.       *)
LEMMA AfterParts ==
    ASSUME NEW r \in Stacks, NEW f \in Frame
    PROVE  /\ Keeps(r, f) => /\ After(r, f).cond # << >>
                             /\ Front(After(r, f).cond) = r.cond
                             /\ Last(After(r, f).cond) = EntryOf(r, f)
           /\ ~Keeps(r, f) => After(r, f).cond = r.cond
           /\ f.kind = "if" => /\ After(r, f).match # << >>
                               /\ Front(After(r, f).match) = r.match
                               /\ Last(After(r, f).match) = MatchOf(r, f)
           /\ f.kind # "if" => After(r, f).match = r.match
           /\ f.kind = "switch" /\ StateOf(r) =>
                /\ After(r, f).switches # << >>
                /\ Front(After(r, f).switches) = r.switches
                /\ Last(After(r, f).switches) = f.done
           /\ ~(f.kind = "switch" /\ StateOf(r)) => After(r, f).switches = r.switches
           /\ f.kind = "while" /\ StateOf(r) /\ f.taken =>
                After(r, f).whiles = r.whiles + 1
           /\ ~(f.kind = "while" /\ StateOf(r) /\ f.taken) => After(r, f).whiles = r.whiles
<1>1. /\ r.cond \in Seq(CondEntry) /\ r.match \in Seq(BOOLEAN)
      /\ r.switches \in Seq(BOOLEAN) /\ r.whiles \in Nat
  BY DEF Stacks
<1>2. EntryOf(r, f) \in CondEntry /\ MatchOf(r, f) \in BOOLEAN /\ f.done \in BOOLEAN
  BY EntryType DEF MatchOf, Frame
<1>3. /\ Keeps(r, f) => After(r, f).cond = Append(r.cond, EntryOf(r, f))
      /\ ~Keeps(r, f) => After(r, f).cond = r.cond
  BY DEF After
<1>4. /\ f.kind = "if" => After(r, f).match = Append(r.match, MatchOf(r, f))
      /\ f.kind # "if" => After(r, f).match = r.match
  BY DEF After
<1>5. /\ f.kind = "switch" /\ StateOf(r) => After(r, f).switches = Append(r.switches, f.done)
      /\ ~(f.kind = "switch" /\ StateOf(r)) => After(r, f).switches = r.switches
  BY DEF After
<1>6. /\ f.kind = "while" /\ StateOf(r) /\ f.taken => After(r, f).whiles = r.whiles + 1
      /\ ~(f.kind = "while" /\ StateOf(r) /\ f.taken) => After(r, f).whiles = r.whiles
  BY DEF After
<1>7. Keeps(r, f) => /\ After(r, f).cond # << >>
                     /\ Front(After(r, f).cond) = r.cond
                     /\ Last(After(r, f).cond) = EntryOf(r, f)
  <2> DEFINE t == Append(r.cond, EntryOf(r, f))
  <2>1. t # << >> /\ Front(t) = r.cond /\ Last(t) = EntryOf(r, f)
    BY <1>1, <1>2, PushPop
  <2> QED BY <2>1, <1>3, Zenon
<1>8. f.kind = "if" => /\ After(r, f).match # << >>
                       /\ Front(After(r, f).match) = r.match
                       /\ Last(After(r, f).match) = MatchOf(r, f)
  <2> DEFINE t == Append(r.match, MatchOf(r, f))
  <2>1. t # << >> /\ Front(t) = r.match /\ Last(t) = MatchOf(r, f)
    BY <1>1, <1>2, PushPop
  <2> QED BY <2>1, <1>4, Zenon
<1>9. f.kind = "switch" /\ StateOf(r) =>
                /\ After(r, f).switches # << >>
                /\ Front(After(r, f).switches) = r.switches
                /\ Last(After(r, f).switches) = f.done
  <2> DEFINE t == Append(r.switches, f.done)
  <2>1. t # << >> /\ Front(t) = r.switches /\ Last(t) = f.done
    BY <1>1, <1>2, PushPop
  <2> QED BY <2>1, <1>5, Zenon
<1> QED BY <1>3, <1>4, <1>5, <1>6, <1>7, <1>8, <1>9

(* The stacks under the innermost construct.                               *)
LEMMA Under ==
    ASSUME StackInv, nest # << >>
    PROVE  /\ Last(nest) \in Frame /\ Front(nest) \in Seq(Frame)
           /\ \E r \in Stacks : Unfolds(Front(nest), r) /\ Current = After(r, Last(nest))
           /\ Last(nest).kind = "switch" => Last(nest).taken
           /\ Last(nest).kind = "case" =>
                Front(nest) # << >> /\ Last(Front(nest)).kind = "switch"
BY UnfoldClose, PopPush DEF StackInv, TypeOK

(* A step that turns the innermost construct into f.                       *)
LEMMA ChangeStep ==
    ASSUME StackInv, nest # << >>, NEW r \in Stacks, Unfolds(Front(nest), r),
           NEW f \in Frame,
           nest' = ReplaceInnermost(f),
           f.kind = Last(nest).kind,
           f.kind = "switch" => f.taken,
           cond' = After(r, f).cond,
           match' = After(r, f).match,
           switches' = After(r, f).switches,
           whiles' = After(r, f).whiles,
           resume' \in BOOLEAN, again' \in BOOLEAN, astray' \in BOOLEAN,
           brace' \in Seq(EndToken)
    PROVE  StackInv'
<1>1. Front(nest) \in Seq(Frame)
  BY Under
<1>2. f.kind = "case" => Front(nest) # << >> /\ Last(Front(nest)).kind = "switch"
  BY Under
<1>3. Unfolds(Append(Front(nest), f), After(r, f))
  BY <1>1, <1>2, UnfoldOpen
<1>4. Append(Front(nest), f) \in Seq(Frame)
  BY <1>1, PushPop
<1> QED BY <1>3, <1>4, Landed DEF ReplaceInnermost

LEMMA IfStep ==
    ASSUME StackInv, NEW c \in BOOLEAN, If(c), resume \in BOOLEAN
    PROVE  StackInv'
<1> DEFINE f == Open("if", c)
<1>1. /\ f \in Frame
      /\ f.kind = "if" /\ f.taken = c /\ f.done = c /\ f.last = FALSE
  BY DEF Open, Frame
<1>2. nest' = Append(nest, f) /\ UNCHANGED <<resume, again, astray, switches, whiles>>
  BY DEF If, TextIf, Enter
<1> HIDE DEF f
<1>3. /\ Keeps(Current, f)
      /\ EntryOf(Current, f) = IF GetCurrentState THEN Entry(c, 1) ELSE Entry(FALSE, 0)
      /\ MatchOf(Current, f) = (GetCurrentState /\ c)
  BY <1>1, Facts DEF Keeps, EntryOf, MatchOf
<1>4. /\ cond' = After(Current, f).cond
      /\ match' = After(Current, f).match
  <2>1. cond' = Append(cond, IF GetCurrentState THEN Entry(c, 1) ELSE Entry(FALSE, 0))
    BY DEF If, CondPush
  <2>2. match' = Append(match, GetCurrentState /\ c)
    <3>1. CASE GetCurrentState
      BY <3>1 DEF If
    <3>2. CASE ~GetCurrentState
      BY <3>2 DEF If
    <3> QED BY <3>1, <3>2
  <2> QED BY <1>1, <1>3, <2>1, <2>2, Facts DEF After
<1>5. /\ switches' = After(Current, f).switches
      /\ whiles' = After(Current, f).whiles
  BY <1>1, <1>2, Facts DEF After
<1>6. brace' \in Seq(EndToken)
  BY PushPop DEF If, BracePush, EndToken, StackInv, TypeOK
<1> QED BY <1>1, <1>2, <1>4, <1>5, <1>6, OpenStep DEF StackInv, TypeOK

LEMMA ElseIfStep ==
    ASSUME StackInv, NEW c \in BOOLEAN, ElseIf(c)
    PROVE  StackInv'
<1> DEFINE g == Last(nest)
           f == [g EXCEPT !.taken = c /\ ~g.done, !.done = g.done \/ c]
<1>1. /\ nest # << >> /\ g.kind = "if" /\ g.last = FALSE
      /\ nest' = ReplaceInnermost(f)
      /\ UNCHANGED <<resume, brace, switches, whiles, again, astray>>
      /\ g \in Frame
  BY Under DEF ElseIf, TextElseIf, Innermost, Frame
<1>2. /\ f \in Frame /\ f.kind = "if" /\ f.last = FALSE
      /\ f.taken = (c /\ ~g.done) /\ f.done = (g.done \/ c)
  BY <1>1 DEF Frame
<1> HIDE DEF f
<1>3. PICK r \in Stacks : Unfolds(Front(nest), r) /\ Current = After(r, g)
  BY <1>1, Under
<1>4. /\ cond # << >> /\ Front(cond) = r.cond /\ Last(cond) = EntryOf(r, g)
      /\ match # << >> /\ Front(match) = r.match /\ Last(match) = MatchOf(r, g)
      /\ switches = r.switches /\ whiles = r.whiles
  BY <1>1, <1>3, AfterParts, Facts DEF Keeps
<1>5. /\ switches' = After(r, f).switches /\ whiles' = After(r, f).whiles
      /\ After(r, f).cond = Append(r.cond, EntryOf(r, f))
      /\ After(r, f).match = Append(r.match, MatchOf(r, f))
  BY <1>1, <1>2, <1>4 DEF After, Keeps
<1>6. cond' = After(r, f).cond /\ match' = After(r, f).match
  <2>1. CASE StateOf(r)
    <3>1. GetCurrentActive = 1 /\ MatchTop = g.done
      BY <1>1, <1>4, <2>1 DEF GetCurrentActive, MatchTop, EntryOf, Entry, MatchOf, Frame
    <3>2. EntryOf(r, f) = Entry(c /\ ~g.done, 1) /\ MatchOf(r, f) = (g.done \/ c)
      BY <1>2, <2>1 DEF EntryOf, MatchOf
    <3> LiveIfOnTop
      BY <3>1 DEF LiveIfOnTop
    <3>3. CASE g.done
      <4>1. cond' = Append(Front(cond), Entry(FALSE, 1)) /\ match' = match
        BY <3>1, <3>3, <1>4, Zenon DEF ElseIf, CondChange
      <4>2. match = Append(r.match, TRUE)
        BY <1>1, <1>4, <3>3, <2>1, PopPush DEF MatchOf, StackInv, TypeOK
      <4> QED BY <1>4, <1>5, <3>2, <3>3, <4>1, <4>2
    <3>4. CASE ~g.done
      <4>1. cond' = Append(Front(cond), Entry(c, 1)) /\ match' = Append(Front(match), c)
        BY <3>1, <3>4, <1>4, Zenon DEF ElseIf, CondChange, MatchReplace
      <4> QED BY <1>4, <1>5, <3>2, <3>4, <4>1
    <3> QED BY <3>3, <3>4
  <2>2. CASE ~StateOf(r)
    <3>1. GetCurrentActive = 0
      BY <1>1, <1>4, <2>2 DEF GetCurrentActive, EntryOf, Entry
    <3>2. cond' = cond /\ match' = match
      BY <3>1 DEF ElseIf, LiveIfOnTop
    <3>3. /\ EntryOf(r, f) = EntryOf(r, g) /\ EntryOf(r, g) = Entry(FALSE, 0)
          /\ MatchOf(r, f) = FALSE /\ MatchOf(r, g) = FALSE
      BY <1>1, <1>2, <2>2 DEF EntryOf, MatchOf
    <3>4. cond = Append(r.cond, EntryOf(r, g)) /\ match = Append(r.match, MatchOf(r, g))
      BY <1>4, PopPush DEF StackInv, TypeOK
    <3> QED BY <1>5, <3>2, <3>3, <3>4
  <2> QED BY <2>1, <2>2
<1> QED BY <1>1, <1>2, <1>3, <1>5, <1>6, ChangeStep DEF StackInv, TypeOK

LEMMA ElseStep ==
    ASSUME StackInv, Else
    PROVE  StackInv'
<1> DEFINE g == Last(nest)
           f == [g EXCEPT !.taken = ~g.done, !.done = TRUE, !.last = TRUE]
<1>1. /\ nest # << >> /\ g.kind = "if" /\ g.last = FALSE
      /\ nest' = ReplaceInnermost(f)
      /\ UNCHANGED <<resume, brace, switches, whiles, again, astray>>
      /\ g \in Frame
  BY Under DEF Else, TextElse, Innermost, Frame
<1>2. /\ f \in Frame /\ f.kind = "if" /\ f.last = TRUE
      /\ f.taken = ~g.done /\ f.done = TRUE
  BY <1>1 DEF Frame
<1> HIDE DEF f
<1>3. PICK r \in Stacks : Unfolds(Front(nest), r) /\ Current = After(r, g)
  BY <1>1, Under
<1>4. /\ cond # << >> /\ Front(cond) = r.cond /\ Last(cond) = EntryOf(r, g)
      /\ match # << >> /\ Front(match) = r.match /\ Last(match) = MatchOf(r, g)
      /\ switches = r.switches /\ whiles = r.whiles
  BY <1>1, <1>3, AfterParts, Facts DEF Keeps
<1>5. /\ switches' = After(r, f).switches /\ whiles' = After(r, f).whiles
      /\ After(r, f).cond = Append(r.cond, EntryOf(r, f))
      /\ After(r, f).match = Append(r.match, MatchOf(r, f))
  BY <1>1, <1>2, <1>4 DEF After, Keeps
<1>6. cond' = After(r, f).cond /\ match' = After(r, f).match
  <2>1. CASE StateOf(r)
    <3>1. GetCurrentActive = 1 /\ MatchTop = g.done
      BY <1>1, <1>4, <2>1 DEF GetCurrentActive, MatchTop, EntryOf, Entry, MatchOf, Frame
    <3>2. EntryOf(r, f) = Entry(~g.done, -1) /\ MatchOf(r, f) = ~g.done
      BY <1>2, <2>1 DEF EntryOf, MatchOf
    <3> LiveIfOnTop
      BY <3>1 DEF LiveIfOnTop
    <3>3. cond' = Append(Front(cond), Entry(~g.done, -1)) /\ match' = Append(Front(match), ~g.done)
      BY <3>1, <1>4, Zenon DEF Else, CondChange, MatchReplace
    <3> QED BY <1>4, <1>5, <3>2, <3>3
  <2>2. CASE ~StateOf(r)
    <3>1. GetCurrentActive = 0
      BY <1>1, <1>4, <2>2 DEF GetCurrentActive, EntryOf, Entry
    <3>2. cond' = cond /\ match' = match
      BY <3>1 DEF Else, LiveIfOnTop
    <3>3. /\ EntryOf(r, f) = EntryOf(r, g) /\ EntryOf(r, g) = Entry(FALSE, 0)
          /\ MatchOf(r, f) = FALSE /\ MatchOf(r, g) = FALSE
      BY <1>1, <1>2, <2>2 DEF EntryOf, MatchOf
    <3>4. cond = Append(r.cond, EntryOf(r, g)) /\ match = Append(r.match, MatchOf(r, g))
      BY <1>4, PopPush DEF StackInv, TypeOK
    <3> QED BY <1>5, <3>2, <3>3, <3>4
  <2> QED BY <2>1, <2>2
<1> QED BY <1>1, <1>2, <1>3, <1>5, <1>6, ChangeStep DEF StackInv, TypeOK

LEMMA SwitchStep ==
    ASSUME StackInv, Switch
    PROVE  StackInv'
<1> DEFINE f == [Open("switch", TRUE) EXCEPT !.done = FALSE]
<1>1. /\ f \in Frame
      /\ f.kind = "switch" /\ f.taken = TRUE /\ f.done = FALSE /\ f.last = FALSE
  BY DEF Open, Frame
<1>2. nest' = Append(nest, f) /\ UNCHANGED <<resume, again, astray, match, whiles>>
  BY DEF Switch, TextSwitch, Enter
<1> HIDE DEF f
<1>3. /\ Keeps(Current, f) <=> GetCurrentState \/ GetCurrentActive \in {-2, -3}
      /\ EntryOf(Current, f) = IF GetCurrentState THEN Entry(TRUE, 1) ELSE Entry(FALSE, -3)
  BY <1>1, Facts DEF Keeps, EntryOf
<1>4. /\ match' = After(Current, f).match /\ whiles' = After(Current, f).whiles
  BY <1>1, <1>2, Facts DEF After
<1>5. cond' = After(Current, f).cond /\ switches' = After(Current, f).switches
  <2>1. /\ Keeps(Current, f) => After(Current, f).cond = Append(cond, EntryOf(Current, f))
        /\ ~Keeps(Current, f) => After(Current, f).cond = cond
        /\ GetCurrentState => After(Current, f).switches = Append(switches, FALSE)
        /\ ~GetCurrentState => After(Current, f).switches = switches
    BY <1>1, Facts DEF After
  <2>2. CASE GetCurrentState
    BY <2>1, <2>2, <1>3 DEF Switch, CondPush
  <2>3. CASE ~GetCurrentState
    BY <2>1, <2>3, <1>3 DEF Switch, CondPush
  <2> QED BY <2>2, <2>3
<1>6. brace' \in Seq(EndToken)
  BY PushPop DEF Switch, BracePush, EndToken, StackInv, TypeOK
<1> QED BY <1>1, <1>2, <1>4, <1>5, <1>6, OpenStep DEF StackInv, TypeOK

-----------------------------------------------------------------------------
(* In text that has not gone astray a label is heeded iff its switch is    *)
(* live.                                                                    *)
LEMMA AtSwitch ==
    ASSUME StackInv, Innermost("switch")
    PROVE  /\ CaseRead <=> GetCurrentState
           /\ GetCurrentState => GetCurrentActive = 1 /\ switches # << >>
                                 /\ Last(switches) = Last(nest).done
<1> DEFINE g == Last(nest)
<1>1. nest # << >> /\ g.kind = "switch" /\ g.taken /\ g \in Frame
  BY Under DEF Innermost
<1>2. PICK r \in Stacks : Unfolds(Front(nest), r) /\ Current = After(r, g)
  BY <1>1, Under
<1>3. GetCurrentState <=> StateOf(r)
  BY <1>1, <1>2, AfterState, Facts
<1>4. CASE StateOf(r)
  <2>1. cond # << >> /\ Last(cond) = EntryOf(r, g)
    BY <1>1, <1>2, <1>4, AfterParts, Facts DEF Keeps
  <2>2. GetCurrentActive = 1
    BY <1>1, <1>4, <2>1 DEF GetCurrentActive, EntryOf, Entry
  <2>3. switches # << >> /\ Last(switches) = g.done
    BY <1>1, <1>2, <1>4, AfterParts, Facts
  <2> QED BY <1>3, <1>4, <2>2, <2>3 DEF CaseRead
<1>5. CASE ~StateOf(r)
  <2>1. CASE Keeps(r, g)
    <3>1. cond # << >> /\ Last(cond) = EntryOf(r, g)
      BY <1>1, <1>2, <2>1, AfterParts, Facts
    <3>2. GetCurrentActive = -3
      BY <1>1, <1>5, <3>1 DEF GetCurrentActive, EntryOf, Entry
    <3> QED BY <1>3, <1>5, <3>2 DEF CaseRead
  <2>2. CASE ~Keeps(r, g)
    <3>1. cond = r.cond
      BY <1>1, <1>2, <2>2, AfterParts, Facts
    <3>2. GetCurrentActive = ActiveOf(r)
      BY <3>1 DEF GetCurrentActive, ActiveOf
    <3>3. ActiveOf(r) \notin {-2, -3}
      BY <1>1, <2>2 DEF Keeps
    <3> QED BY <1>3, <1>5, <3>2, <3>3 DEF CaseRead
  <2> QED BY <2>1, <2>2
<1> QED BY <1>4, <1>5

(* The two constructs around text inside a case.                           *)
LEMMA AtCase ==
    ASSUME StackInv, Innermost("case")
    PROVE  \E r \in Stacks :
             LET outer == Front(nest)
                 sw    == Last(outer)
                 g     == Last(nest)
             IN  /\ outer # << >> /\ sw \in Frame /\ sw.kind = "switch" /\ sw.taken
                 /\ Front(outer) \in Seq(Frame)
                 /\ Unfolds(Front(outer), r) /\ Unfolds(outer, After(r, sw))
                 /\ After(r, sw) \in Stacks
                 /\ Current = After(After(r, sw), g)
                 /\ StateOf(After(r, sw)) <=> StateOf(r)
<1> DEFINE outer == Front(nest)
           sw    == Last(outer)
           g     == Last(nest)
<1>1. /\ nest # << >> /\ g.kind = "case" /\ g \in Frame /\ outer \in Seq(Frame)
      /\ outer # << >> /\ sw.kind = "switch"
  BY Under DEF Innermost
<1>2. PICK u \in Stacks : Unfolds(outer, u) /\ Current = After(u, g)
  BY <1>1, Under
<1>3. PICK r \in Stacks : Unfolds(Front(outer), r) /\ u = After(r, sw)
  BY <1>1, <1>2, UnfoldClose
<1>4. sw.taken /\ sw \in Frame /\ Front(outer) \in Seq(Frame)
  BY <1>1, <1>2, UnfoldClose, PopPush
<1>5. StateOf(u) <=> StateOf(r)
  BY <1>3, <1>4, AfterState
<1> QED BY <1>1, <1>2, <1>3, <1>4, <1>5

LEMMA DeadSwitch ==
    ASSUME NEW r \in Stacks, NEW sw \in Frame, sw.kind = "switch", ~StateOf(r)
    PROVE  ActiveOf(After(r, sw)) # -2
<1>1. CASE Keeps(r, sw)
  <2>1. After(r, sw).cond # << >> /\ Last(After(r, sw).cond) = EntryOf(r, sw)
    BY <1>1, AfterParts
  <2> QED BY <2>1 DEF ActiveOf, EntryOf, Entry
<1>2. CASE ~Keeps(r, sw)
  <2>1. After(r, sw).cond = r.cond
    BY <1>2, AfterParts
  <2>2. ActiveOf(After(r, sw)) = ActiveOf(r)
    BY <2>1 DEF ActiveOf
  <2> QED BY <1>2, <2>2 DEF Keeps
<1> QED BY <1>1, <1>2

(* Inside a case: its entry is on top iff its switch is live.              *)
LEMMA InCase ==
    ASSUME StackInv, NEW u \in Stacks, NEW r \in Stacks, NEW sw \in Frame,
           sw.kind = "switch", sw.taken, u = After(r, sw),
           NEW g \in Frame, g.kind = "case", Current = After(u, g)
    PROVE  /\ StateOf(u) <=> StateOf(r)
           /\ switches = u.switches /\ match = u.match /\ whiles = u.whiles
           /\ StateOf(r) => /\ cond # << >> /\ Front(cond) = u.cond
                            /\ Last(cond) = Entry(g.taken, -2)
                            /\ GetCurrentActive = -2
                            /\ GetCurrentState = g.taken
                            /\ CaseRead
           /\ ~StateOf(r) => cond = u.cond /\ ~CaseRead
<1>1. StateOf(u) <=> StateOf(r)
  BY AfterState
<1>2. switches = u.switches /\ match = u.match /\ whiles = u.whiles
  BY AfterParts, Facts
<1>3. CASE StateOf(r)
  <2>1. cond # << >> /\ Front(cond) = u.cond /\ Last(cond) = EntryOf(u, g)
    BY <1>1, <1>3, AfterParts, Facts DEF Keeps
  <2>2. EntryOf(u, g) = Entry(g.taken, -2)
    BY <1>1, <1>3 DEF EntryOf
  <2>3. GetCurrentActive = -2 /\ GetCurrentState = g.taken
    BY <2>1, <2>2 DEF GetCurrentActive, GetCurrentState, Entry
  <2> QED BY <1>1, <1>2, <1>3, <2>1, <2>2, <2>3 DEF CaseRead
<1>4. CASE ~StateOf(r)
  <2>1. ~Keeps(u, g)
    BY <1>1, <1>4 DEF Keeps
  <2>2. cond = u.cond
    BY <2>1, AfterParts, Facts
  <2>3. GetCurrentState = StateOf(u) /\ GetCurrentActive = ActiveOf(u)
    BY <2>2, Zenon DEF GetCurrentState, GetCurrentActive, StateOf, ActiveOf
  <2>4. GetCurrentActive # -2
    BY <1>4, <2>3, DeadSwitch
  <2> QED BY <1>1, <1>2, <1>4, <2>2, <2>3, <2>4 DEF CaseRead
<1> QED BY <1>1, <1>3, <1>4, <1>2

LEMMA CondType ==
    ASSUME StackInv, NEW c \in BOOLEAN
    PROVE  cond \in Seq(CondEntry) /\ Append(cond, Entry(c, -2)) \in Seq(CondEntry)
<1>1. Entry(c, -2) \in CondEntry
  BY DEF Entry, CondEntry
<1> QED BY <1>1, PushPop DEF StackInv, TypeOK

(* A label, with the entry it pushes, opens a case or joins the open one.  *)
LEMMA LabelType ==
    ASSUME StackInv, NEW c \in BOOLEAN,
           \/ Innermost("switch") /\ Enter(Open("case", c))
           \/ JoinCase(c),
           cond' \in Seq(CondEntry), astray' \in BOOLEAN,
           UNCHANGED <<match, brace, switches, whiles, again>>
    PROVE  TypeOK'
<1>1. CASE Innermost("switch") /\ Enter(Open("case", c))
  <2>1. Open("case", c) \in Frame
    BY DEF Open, Frame
  <2>2. nest' \in Seq(Frame)
    BY <1>1, <2>1, PushPop DEF Enter, StackInv, TypeOK
  <2> QED BY <1>1, <2>2 DEF Enter, StackInv, TypeOK
<1>2. CASE JoinCase(c)
  <2>1. nest # << >> /\ Last(nest) \in Frame /\ Front(nest) \in Seq(Frame)
    BY <1>2, Under DEF JoinCase, Innermost
  <2>2. [Last(nest) EXCEPT !.taken = @ \/ c] \in Frame
    BY <2>1 DEF Frame
  <2>3. nest' \in Seq(Frame)
    BY <1>2, <2>1, <2>2, PushPop DEF JoinCase, ReplaceInnermost
  <2> QED BY <1>2, <2>3 DEF JoinCase, StackInv, TypeOK
<1> QED BY <1>1, <1>2

LEMMA LabelOpens ==
    ASSUME StackInv, NEW c \in BOOLEAN,
           Innermost("switch"), Enter(Open("case", c)),
           cond' = IF CaseRead THEN Append(cond, Entry(c, -2)) ELSE cond,
           astray' \in BOOLEAN,
           UNCHANGED <<match, brace, switches, whiles, again>>
    PROVE  StackInv'
<1> DEFINE f == Open("case", c)
<1>1. f \in Frame /\ f.kind = "case" /\ f.taken = c
  BY DEF Open, Frame
<1>2. nest' = Append(nest, f) /\ UNCHANGED resume
  BY DEF Enter
<1> HIDE DEF f
<1>3. /\ Keeps(Current, f) <=> CaseRead
      /\ GetCurrentState => EntryOf(Current, f) = Entry(c, -2)
      /\ CaseRead <=> GetCurrentState
  BY <1>1, Facts, AtSwitch DEF Keeps, EntryOf
<1>4. cond' = After(Current, f).cond
  BY <1>3, Facts DEF After
<1>5. /\ match' = After(Current, f).match /\ switches' = After(Current, f).switches
      /\ whiles' = After(Current, f).whiles
  BY <1>1, Facts DEF After
<1> QED BY <1>1, <1>2, <1>4, <1>5, OpenStep DEF StackInv, TypeOK

LEMMA LabelJoins ==
    ASSUME StackInv, NEW c \in BOOLEAN,
           JoinCase(c), CaseRead => GetCurrentState,
           UNCHANGED <<cond, match, brace, switches, whiles, again>>,
           astray' \in BOOLEAN
    PROVE  StackInv'
<1> DEFINE g == Last(nest)
           f == [g EXCEPT !.taken = @ \/ c]
           u0 == Front(nest)
           sw == Last(u0)
<1>1. /\ Innermost("case") /\ g.kind = "case" /\ nest # << >> /\ g \in Frame
      /\ nest' = ReplaceInnermost(f) /\ UNCHANGED resume
  BY Under DEF JoinCase, Innermost
<1>2. f \in Frame /\ f.kind = "case" /\ f.taken = (g.taken \/ c)
  BY <1>1 DEF Frame
<1> HIDE DEF f
<1>3. PICK r \in Stacks :
        /\ sw \in Frame /\ sw.kind = "switch" /\ sw.taken
        /\ Unfolds(u0, After(r, sw)) /\ After(r, sw) \in Stacks
        /\ Current = After(After(r, sw), g)
  BY <1>1, AtCase
<1> DEFINE u == After(r, sw)
<1>4. /\ StateOf(u) <=> StateOf(r)
      /\ switches = u.switches /\ match = u.match /\ whiles = u.whiles
      /\ StateOf(r) => /\ cond # << >> /\ Front(cond) = u.cond
                       /\ Last(cond) = Entry(g.taken, -2)
                       /\ GetCurrentState = g.taken
                       /\ CaseRead
      /\ ~StateOf(r) => cond = u.cond
  BY <1>1, <1>3, InCase
<1> HIDE DEF u
<1>5. cond = After(u, f).cond
  <2>1. CASE StateOf(r)
    <3>1. g.taken
      BY <1>4, <2>1
    <3>2. f.taken = TRUE
      BY <1>2, <3>1
    <3>3. EntryOf(u, f) = Entry(TRUE, -2)
      BY <1>2, <1>4, <2>1, <3>2 DEF EntryOf
    <3>4. After(u, f).cond = Append(u.cond, EntryOf(u, f))
      BY <1>4, <2>1 DEF After, Keeps
    <3>5. g.taken = TRUE
      BY <1>1, <3>1 DEF Frame
    <3>6. cond = Append(u.cond, Entry(TRUE, -2))
      BY <1>4, <2>1, <3>5, PopPush DEF StackInv, TypeOK
    <3> QED BY <3>3, <3>4, <3>6
  <2>2. CASE ~StateOf(r)
    BY <1>2, <1>4, <2>2 DEF After, Keeps
  <2> QED BY <2>1, <2>2
<1>6. /\ match = After(u, f).match /\ switches = After(u, f).switches
      /\ whiles = After(u, f).whiles
  BY <1>2, <1>4 DEF After
<1>7. Unfolds(u0, u) /\ u \in Stacks
  BY <1>3 DEF u
<1> QED BY <1>1, <1>2, <1>5, <1>6, <1>7, ChangeStep DEF StackInv, TypeOK

LEMMA CaseStep ==
    ASSUME StackInv, NEW c \in BOOLEAN, Case(c)
    PROVE  TypeOK' /\ (~astray' => StackInv')
<1>1. /\ UNCHANGED <<match, brace, switches, whiles, again>>
      /\ astray' = (Innermost("case") /\ ~GetCurrentState /\ GetCurrentActive = -2)
      /\ astray' \in BOOLEAN
  BY DEF Case
<1>2. cond' \in {cond, Append(cond, Entry(c, -2))}
  BY DEF Case, CondPush
<1>3. cond' \in Seq(CondEntry)
  BY <1>2, CondType
<1>4. \/ Innermost("switch") /\ Enter(Open("case", c))
      \/ JoinCase(c)
  BY DEF Case, TextCase
<1>5. TypeOK'
  BY <1>1, <1>3, <1>4, LabelType
<1>6. CASE Innermost("switch") /\ Enter(Open("case", c))
  <2>1. ~(GetCurrentState /\ GetCurrentActive = -2)
    BY <1>6, AtSwitch
  <2>2. cond' = IF CaseRead THEN Append(cond, Entry(c, -2)) ELSE cond
    BY <2>1 DEF Case, CondPush
  <2> QED BY <1>1, <1>5, <1>6, <2>2, LabelOpens
<1>7. CASE JoinCase(c) /\ ~astray'
  <2>1. CaseRead => GetCurrentState /\ GetCurrentActive = -2
    <3>1. PICK r \in Stacks :
            /\ Last(Front(nest)) \in Frame /\ Last(Front(nest)).kind = "switch"
            /\ Last(Front(nest)).taken
            /\ After(r, Last(Front(nest))) \in Stacks
            /\ Current = After(After(r, Last(Front(nest))), Last(nest))
            /\ Last(nest) \in Frame /\ Last(nest).kind = "case"
      BY <1>7, AtCase, Under DEF JoinCase, Innermost
    <3>2. CaseRead => GetCurrentActive = -2
      BY <3>1, InCase
    <3> QED BY <1>1, <1>7, <3>2 DEF JoinCase, CaseRead
  <2>2. UNCHANGED cond
    BY <2>1 DEF Case
  <2> QED BY <1>1, <1>5, <1>7, <2>1, <2>2, LabelJoins
<1> QED BY <1>4, <1>5, <1>6, <1>7

LEMMA DefaultStep ==
    ASSUME StackInv, Default
    PROVE  TypeOK' /\ (~astray' => StackInv')
<1>1. /\ UNCHANGED <<match, brace, switches, whiles, again>>
      /\ astray' = (Innermost("case") /\ CaseRead)
      /\ astray' \in BOOLEAN
  BY DEF Default
<1>3. cond' \in Seq(CondEntry)
  <2> DEFINE b == ~Last(switches)
  <2>1. cond' \in {cond, Append(cond, Entry(b, -2))}
    BY DEF Default, CondPush
  <2>2. b \in BOOLEAN
    OBVIOUS
  <2> HIDE DEF b
  <2> QED BY <2>1, <2>2, CondType
<1>4. CASE Innermost("switch") /\ Enter(Open("case", ~Last(nest).done))
  <2> DEFINE b == ~Last(nest).done
  <2>1. b \in BOOLEAN
    OBVIOUS
  <2>2. CaseRead => Last(switches) = Last(nest).done
    BY <1>4, AtSwitch
  <2>3. cond' = IF CaseRead THEN Append(cond, Entry(b, -2)) ELSE cond
    BY <2>2 DEF Default, CondPush
  <2>4. Enter(Open("case", b))
    BY <1>4
  <2> HIDE DEF b
  <2>5. StackInv'
    BY <1>1, <1>4, <2>1, <2>3, <2>4, LabelOpens
  <2> QED BY <2>5 DEF StackInv
<1>5. CASE JoinCase(~Last(Front(nest)).done)
  <2> DEFINE b == ~Last(Front(nest)).done
  <2>1. b \in BOOLEAN /\ JoinCase(b)
    BY <1>5
  <2> HIDE DEF b
  <2>2. TypeOK'
    BY <1>1, <1>3, <2>1, LabelType
  <2>3. ASSUME ~astray' PROVE StackInv'
    <3>1. ~CaseRead
      BY <1>1, <2>1, <2>3 DEF JoinCase
    <3>2. UNCHANGED cond
      BY <3>1 DEF Default
    <3> QED BY <1>1, <2>1, <3>1, <3>2, LabelJoins
  <2> QED BY <2>2, <2>3
<1>6. \/ Innermost("switch") /\ Enter(Open("case", ~Last(nest).done))
      \/ JoinCase(~Last(Front(nest)).done)
  BY DEF Default, TextDefault
<1> QED BY <1>4, <1>5, <1>6

LEMMA BreakStep ==
    ASSUME StackInv, Break
    PROVE  StackInv'
<1> DEFINE g == Last(nest)
           outer == Front(nest)
           sw == Last(outer)
           f == [sw EXCEPT !.done = @ \/ g.taken]
           rest == Front(outer)
<1>1. /\ Innermost("case") /\ g.kind = "case" /\ nest # << >> /\ g \in Frame
      /\ nest' = Append(rest, f)
      /\ UNCHANGED <<resume, match, brace, whiles, again, astray>>
  BY Under DEF Break, TextBreak, Innermost
<1>2. PICK r \in Stacks :
        /\ sw \in Frame /\ sw.kind = "switch" /\ sw.taken /\ rest \in Seq(Frame)
        /\ Unfolds(rest, r)
        /\ After(r, sw) \in Stacks
        /\ Current = After(After(r, sw), g)
  BY <1>1, AtCase
<1>3. f \in Frame /\ f.kind = "switch" /\ f.taken /\ f.done = (sw.done \/ g.taken)
  BY <1>1, <1>2 DEF Frame
<1> DEFINE u == After(r, sw)
<1>4. /\ switches = u.switches /\ match = u.match /\ whiles = u.whiles
      /\ StateOf(r) => /\ cond # << >> /\ Front(cond) = u.cond
                       /\ GetCurrentActive = -2
                       /\ GetCurrentState = g.taken
                       /\ CaseRead
      /\ ~StateOf(r) => cond = u.cond /\ ~CaseRead
  BY <1>1, <1>2, InCase
<1>5. /\ u.match = r.match /\ u.whiles = r.whiles
      /\ StateOf(r) => /\ u.switches # << >> /\ Front(u.switches) = r.switches
                       /\ Last(u.switches) = sw.done
                       /\ u.switches = Append(r.switches, sw.done)
      /\ ~StateOf(r) => u.switches = r.switches
  BY <1>2, AfterParts DEF After
<1>6. /\ Keeps(r, f) <=> Keeps(r, sw)
      /\ EntryOf(r, f) = EntryOf(r, sw)
  <2>1. EntryOf(r, f) = EntryOf(r, sw)
    <3>1. f.taken = TRUE /\ sw.taken = TRUE
      BY <1>2, <1>3 DEF Frame
    <3> QED BY <1>2, <1>3, <3>1 DEF EntryOf
  <2> QED BY <1>2, <1>3, <2>1 DEF Keeps
<1>7. After(r, f).cond = u.cond
  BY <1>6 DEF After
<1>8. After(r, f).match = r.match /\ After(r, f).whiles = r.whiles
  BY <1>3, AfterParts
<1>9. /\ StateOf(r) => After(r, f).switches = Append(r.switches, sw.done \/ g.taken)
      /\ ~StateOf(r) => After(r, f).switches = r.switches
  BY <1>3 DEF After
<1> HIDE DEF u, f
<1>10. cond' = u.cond /\ switches' = After(r, f).switches
  <2>1. CASE StateOf(r)
    <3>1. CaseRead /\ GetCurrentActive <= -2
      BY <1>4, <2>1
    <3>2. cond' = Front(cond)
      BY <3>1, <1>4, <2>1 DEF Break, CondPop
    <3>3. switches' = IF Last(switches) THEN switches ELSE Append(Front(switches), GetCurrentState)
      BY <3>1 DEF Break
    <3>4. CASE sw.done
      BY <1>2, <1>4, <1>5, <1>9, <2>1, <3>2, <3>3, <3>4 DEF Frame
    <3>5. CASE ~sw.done
      BY <1>1, <1>2, <1>4, <1>5, <1>9, <2>1, <3>2, <3>3, <3>5 DEF Frame
    <3> QED BY <3>4, <3>5
  <2>2. CASE ~StateOf(r)
    BY <1>4, <1>5, <1>9, <2>2 DEF Break
  <2> QED BY <2>1, <2>2
<1>11. Unfolds(Append(rest, f), After(r, f))
  BY <1>2, <1>3, UnfoldOpen
<1>12. Append(rest, f) \in Seq(Frame)
  BY <1>2, <1>3, PushPop
<1> QED BY <1>1, <1>4, <1>5, <1>7, <1>8, <1>10, <1>11, <1>12, Landed DEF StackInv, TypeOK

(* A loop met for the first time: the lexer has just recorded it, and a     *)
(* failing condition drops the record again.                                *)
LEMMA WhileOpens ==
    ASSUME StackInv, again <=> resume, NEW c \in BOOLEAN, While(c), TextWhile(c)
    PROVE  StackInv' /\ ~again' /\ ~resume'
<1> DEFINE f == Open("while", c)
<1>1. f \in Frame /\ f.kind = "while" /\ f.taken = c /\ f.last = FALSE
  BY DEF Open, Frame
<1>2. nest' = Append(nest, f) /\ ~resume /\ resume' = resume
  BY DEF TextWhile, Enter
<1>3. again' = FALSE /\ UNCHANGED <<match, switches, astray>> /\ ~again
  BY <1>2 DEF While
<1> HIDE DEF f
<1>4. /\ After(Current, f).match = match /\ After(Current, f).switches = switches
  BY <1>1, Facts DEF After
<1>5. whiles \in Nat
  BY DEF StackInv, TypeOK
<1>6. /\ cond' = After(Current, f).cond
      /\ whiles' = After(Current, f).whiles
  <2>1. CASE GetCurrentState
    <3>1. Keeps(Current, f) /\ EntryOf(Current, f) = Entry(c, -4)
      BY <1>1, <2>1, Facts DEF Keeps, EntryOf
    <3>2. cond' = Append(cond, Entry(c, -4))
      BY <1>3, <2>1 DEF While, CondPush
    <3>3. whiles' = IF c THEN whiles + 1 ELSE whiles + 1 - 1
      <4>1. CASE c
        BY <1>3, <1>5, <2>1, <4>1 DEF While, CondPush, BracePush
      <4>2. CASE ~c
        BY <1>3, <1>5, <2>1, <4>2 DEF While, CondPush, BracePush
      <4> QED BY <4>1, <4>2
    <3>4. After(Current, f).whiles = IF c THEN whiles + 1 ELSE whiles
      BY <1>1, <2>1, Facts DEF After
    <3>5. After(Current, f).cond = Append(cond, Entry(c, -4))
      BY <3>1, Facts DEF After
    <3> QED BY <1>5, <3>2, <3>3, <3>4, <3>5
  <2>2. CASE ~GetCurrentState
    <3>1. /\ Keeps(Current, f) <=> GetCurrentActive = -4
          /\ EntryOf(Current, f) = Entry(FALSE, -4)
      BY <1>1, <2>2, Facts DEF Keeps, EntryOf
    <3>2. /\ cond' = IF GetCurrentActive = -4 THEN Append(cond, Entry(FALSE, -4)) ELSE cond
          /\ whiles' = whiles
      BY <2>2 DEF While, CondPush
    <3>3. After(Current, f).whiles = whiles
      BY <2>2, Facts DEF After
    <3>4. After(Current, f).cond = IF GetCurrentActive = -4
                                   THEN Append(cond, Entry(FALSE, -4)) ELSE cond
      BY <3>1, Facts DEF After
    <3> QED BY <3>2, <3>3, <3>4
  <2> QED BY <2>1, <2>2
<1>7. brace' \in Seq(EndToken)
  <2>1. brace' = Append(brace, "endwhile")
    <3>1. CASE GetCurrentState
      BY <1>3, <3>1 DEF While, CondPush, BracePush
    <3>2. CASE ~GetCurrentState
      BY <3>2 DEF While, CondPush, BracePush
    <3> QED BY <3>1, <3>2
  <2> QED BY <2>1, PushPop DEF EndToken, StackInv, TypeOK
<1>8. StackInv'
  BY <1>1, <1>2, <1>3, <1>4, <1>6, <1>7, OpenStep DEF StackInv, TypeOK
<1> QED BY <1>2, <1>3, <1>8

(* Back at the head of a live loop its entry and its record are on top.    *)
LEMMA WhileRepeats ==
    ASSUME StackInv, again <=> resume, resume => Innermost("while") /\ Live,
           NEW c \in BOOLEAN, While(c), TextWhileAgain(c)
    PROVE  StackInv' /\ ~again' /\ ~resume'
<1> DEFINE f == Open("while", c)
           g == Last(nest)
<1>1. f \in Frame /\ f.kind = "while" /\ f.taken = c /\ f.last = FALSE
  BY DEF Open, Frame
<1>2. nest' = ReplaceInnermost(f) /\ resume /\ resume' = FALSE
  BY DEF TextWhileAgain
<1>3. /\ again' = FALSE /\ UNCHANGED <<match, switches, astray>> /\ again
      /\ GetCurrentState
  BY <1>2, Facts DEF While
<1> HIDE DEF f
<1>4. nest # << >> /\ g.kind = "while" /\ g \in Frame
  BY <1>2, Under DEF Innermost
<1>5. PICK r \in Stacks : Unfolds(Front(nest), r) /\ Current = After(r, g)
  BY <1>4, Under
<1>6. StateOf(r) /\ g.taken
  BY <1>3, <1>4, <1>5, AfterState, Facts
<1>7. /\ cond # << >> /\ Front(cond) = r.cond
      /\ match = r.match /\ switches = r.switches
      /\ whiles = r.whiles + 1 /\ r.whiles \in Nat
  <2>1. Keeps(r, g)
    BY <1>6 DEF Keeps
  <2>2. /\ cond # << >> /\ Front(cond) = r.cond
        /\ match = r.match /\ switches = r.switches
    BY <1>4, <1>5, <2>1, AfterParts, Facts
  <2>3. whiles = r.whiles + 1
    BY <1>4, <1>5, <1>6, AfterParts, Facts
  <2>4. r.whiles \in Nat
    BY <1>5 DEF Stacks
  <2> QED BY <2>2, <2>3, <2>4
<1>8. cond' = Append(r.cond, Entry(c, -4)) /\ brace' = brace
  BY <1>3, <1>7, Zenon DEF While, CondChange
<1>9. whiles' = IF c THEN whiles ELSE whiles - 1
  BY <1>3 DEF While
<1>10. Keeps(r, f) /\ EntryOf(r, f) = Entry(c, -4)
  BY <1>1, <1>6 DEF Keeps, EntryOf
<1>11. After(r, f).cond = Append(r.cond, Entry(c, -4))
  BY <1>10 DEF After
<1>12. After(r, f).match = r.match /\ After(r, f).switches = r.switches
  BY <1>1 DEF After
<1>13. After(r, f).whiles = IF c THEN r.whiles + 1 ELSE r.whiles
  BY <1>1, <1>6 DEF After
<1>14. whiles' = After(r, f).whiles
  BY <1>7, <1>9, <1>13
<1>15. StackInv'
  BY <1>1, <1>2, <1>3, <1>4, <1>5, <1>7, <1>8, <1>11, <1>12, <1>14, ChangeStep
     DEF StackInv, TypeOK
<1> QED BY <1>2, <1>3, <1>15

-----------------------------------------------------------------------------
(* The end tokens take off what the innermost construct added.             *)
LEMMA CloseIf ==
    ASSUME StackInv, NEW r \in Stacks, NEW g \in Frame, g.kind = "if",
           Current = After(r, g), EndIf
    PROVE  /\ cond' = r.cond /\ match' = r.match
           /\ switches' = r.switches /\ whiles' = r.whiles /\ again' = again
<1>1. /\ cond # << >> /\ Front(cond) = r.cond
      /\ match # << >> /\ Front(match) = r.match
      /\ switches = r.switches /\ whiles = r.whiles
  <2>1. Keeps(r, g)
    BY DEF Keeps
  <2> QED BY <2>1, AfterParts, Facts
<1> QED BY <1>1 DEF EndIf, CondPop, MatchPop

LEMMA CloseSwitch ==
    ASSUME StackInv, NEW r \in Stacks, NEW sw \in Frame, sw.kind = "switch", sw.taken,
           cond = After(r, sw).cond, match = After(r, sw).match,
           switches = After(r, sw).switches, whiles = After(r, sw).whiles,
           EndSwitch
    PROVE  /\ cond' = r.cond /\ match' = r.match
           /\ switches' = r.switches /\ whiles' = r.whiles /\ again' = again
<1>1. match' = r.match /\ whiles' = r.whiles /\ again' = again
  BY AfterParts DEF EndSwitch
<1>2. CASE StateOf(r)
  <2>1. Keeps(r, sw) /\ EntryOf(r, sw) = Entry(TRUE, 1)
    BY <1>2 DEF Keeps, EntryOf, Frame
  <2>2. /\ cond # << >> /\ Front(cond) = r.cond /\ Last(cond) = Entry(TRUE, 1)
        /\ switches # << >> /\ Front(switches) = r.switches
    BY <1>2, <2>1, AfterParts
  <2>3. GetCurrentState /\ GetCurrentActive = 1
    BY <2>2 DEF GetCurrentState, GetCurrentActive, Entry
  <2>4. cond' = Front(cond) /\ switches' = Front(switches)
    BY <2>2, <2>3 DEF EndSwitch, CondPop
  <2> QED BY <1>1, <2>2, <2>4
<1>3. CASE ~StateOf(r) /\ Keeps(r, sw)
  <2>1. EntryOf(r, sw) = Entry(FALSE, -3)
    BY <1>3 DEF EntryOf
  <2>2. /\ cond # << >> /\ Front(cond) = r.cond /\ Last(cond) = Entry(FALSE, -3)
        /\ switches = r.switches
    BY <1>3, <2>1, AfterParts
  <2>3. GetCurrentActive = -3
    BY <2>2 DEF GetCurrentActive, Entry
  <2>4. cond' = Front(cond) /\ switches' = switches
    BY <2>2, <2>3 DEF EndSwitch, CondPop
  <2> QED BY <1>1, <2>2, <2>4
<1>4. CASE ~StateOf(r) /\ ~Keeps(r, sw)
  <2>1. cond = r.cond /\ switches = r.switches
    BY <1>4, AfterParts
  <2>2. GetCurrentActive = ActiveOf(r) /\ GetCurrentState = StateOf(r)
    BY <2>1, Zenon DEF GetCurrentActive, ActiveOf, GetCurrentState, StateOf
  <2>3. ActiveOf(r) \notin {-2, -3}
    BY <1>4 DEF Keeps
  <2>4. cond' = cond /\ switches' = switches
    BY <1>4, <2>2, <2>3 DEF EndSwitch
  <2> QED BY <1>1, <2>1, <2>4
<1> QED BY <1>2, <1>3, <1>4

LEMMA CloseWhile ==
    ASSUME StackInv, NEW r \in Stacks, NEW g \in Frame, g.kind = "while",
           Current = After(r, g), EndWhile
    PROVE  /\ match' = match /\ switches' = switches /\ whiles' = whiles
           /\ match = r.match /\ switches = r.switches
           /\ Live => cond' = cond /\ again' = TRUE
           /\ ~Live => cond' = r.cond /\ again' = again /\ whiles = r.whiles
<1>1. /\ match' = match /\ switches' = switches /\ whiles' = whiles
      /\ match = r.match /\ switches = r.switches
  BY AfterParts, Facts DEF EndWhile
<1>2. Live <=> StateOf(r) /\ g.taken
  BY AfterState, Facts
<1>3. CASE Live
  <2>1. Keeps(r, g) /\ EntryOf(r, g) = Entry(TRUE, -4)
    BY <1>2, <1>3 DEF Keeps, EntryOf, Frame
  <2>2. Last(cond) = Entry(TRUE, -4) /\ cond # << >>
    BY <2>1, AfterParts, Facts
  <2>3. GetCurrentState /\ GetCurrentActive = -4
    BY <2>2 DEF GetCurrentState, GetCurrentActive, Entry
  <2>4. whiles = r.whiles + 1
    BY <1>2, <1>3, AfterParts, Facts
  <2>5. r.whiles \in Nat
    BY DEF Stacks
  <2>6. whiles > 0
    BY <2>4, <2>5
  <2>7. cond' = cond /\ again' = TRUE
    BY <2>3, <2>6 DEF EndWhile
  <2> QED BY <1>1, <1>3, <2>7
<1>4. CASE ~Live /\ Keeps(r, g)
  <2>1. Last(cond) = EntryOf(r, g) /\ cond # << >> /\ Front(cond) = r.cond
    BY <1>4, AfterParts, Facts
  <2>2. GetCurrentActive = -4
    BY <2>1 DEF GetCurrentActive, EntryOf, Entry
  <2>3. ~GetCurrentState
    BY <1>4, Facts
  <2>4. cond' = Front(cond) /\ again' = again
    BY <2>1, <2>2, <2>3 DEF EndWhile, CondPop
  <2>5. whiles = r.whiles
    BY <1>2, <1>4, AfterParts, Facts
  <2> QED BY <1>1, <1>4, <2>1, <2>4, <2>5
<1>5. CASE ~Live /\ ~Keeps(r, g)
  <2>1. cond = r.cond /\ whiles = r.whiles
    BY <1>2, <1>5, AfterParts, Facts
  <2>2. GetCurrentActive = ActiveOf(r)
    BY <2>1, Zenon DEF GetCurrentActive, ActiveOf
  <2>3. GetCurrentActive # -4
    BY <1>5, <2>2 DEF Keeps
  <2>4. cond' = cond /\ again' = again
    BY <2>3 DEF EndWhile
  <2> QED BY <1>1, <1>5, <2>1, <2>4
<1> QED BY <1>3, <1>4, <1>5

(* Whichever end token is read, the stacks stay stacks.                    *)
LEMMA EndTokenType ==
    ASSUME TypeOK, EndIf \/ EndSwitch \/ EndWhile
    PROVE  /\ cond' \in Seq(CondEntry) /\ match' \in Seq(BOOLEAN)
           /\ brace' \in Seq(EndToken) /\ switches' \in Seq(BOOLEAN)
           /\ whiles' \in Nat /\ again' \in BOOLEAN
<1>1. /\ cond # << >> => Front(cond) \in Seq(CondEntry)
      /\ match # << >> => Front(match) \in Seq(BOOLEAN)
      /\ brace # << >> => Front(brace) \in Seq(EndToken)
      /\ switches # << >> => Front(switches) \in Seq(BOOLEAN)
  BY PopPush DEF TypeOK
<1>2. CASE EndIf
  BY <1>1, <1>2 DEF EndIf, CondPop, MatchPop, BracePop, TypeOK
<1>3. CASE EndSwitch
  BY <1>1, <1>3 DEF EndSwitch, CondPop, BracePop, TypeOK
<1>4. CASE EndWhile
  BY <1>1, <1>4 DEF EndWhile, CondPop, BracePop, TypeOK
<1> QED BY <1>2, <1>3, <1>4

LEMMA TextCloseType ==
    ASSUME StackInv, NEW kind, TextClose(kind)
    PROVE  nest' \in Seq(Frame) /\ resume' \in BOOLEAN
<1>1. CASE Innermost(kind)
  <2>1. nest # << >> /\ Front(nest) \in Seq(Frame)
    BY <1>1, Under DEF Innermost
  <2> QED BY <1>1, <2>1 DEF TextClose, Innermost, StackInv, TypeOK
<1>2. CASE Innermost("case")
  <2>1. Front(nest) \in Seq(Frame) /\ Front(Front(nest)) \in Seq(Frame)
    BY <1>2, AtCase, Under DEF Innermost
  <2> QED BY <1>2, <2>1 DEF TextClose, Innermost, StackInv, TypeOK
<1> QED BY <1>1, <1>2 DEF TextClose

(* A block closed by its own end token, with no case left half read.       *)
LEMMA CloseOwn ==
    ASSUME StackInv, again <=> resume, NEW kind \in {"if", "switch", "while"},
           TextClose(kind),
           \/ kind = "if" /\ EndIf
           \/ kind = "switch" /\ EndSwitch
           \/ kind = "while" /\ EndWhile,
           ~(Innermost("case") /\ CaseRead),
           astray' \in BOOLEAN
    PROVE  /\ StackInv' /\ (again' <=> resume')
           /\ resume' => Innermost("while")' /\ Live'
<1>1. /\ cond' \in Seq(CondEntry) /\ match' \in Seq(BOOLEAN)
      /\ brace' \in Seq(EndToken) /\ switches' \in Seq(BOOLEAN)
      /\ whiles' \in Nat /\ again' \in BOOLEAN
      /\ nest' \in Seq(Frame) /\ resume' \in BOOLEAN
  BY EndTokenType, TextCloseType DEF StackInv
<1>2. CASE Innermost(kind)
  <2> DEFINE g == Last(nest)
  <2>1. nest # << >> /\ g.kind = kind /\ g \in Frame /\ Front(nest) \in Seq(Frame) /\ ~resume
    BY <1>2, Under DEF Innermost, TextClose
  <2>2. PICK r \in Stacks : Unfolds(Front(nest), r) /\ Current = After(r, g)
    BY <2>1, Under
  <2>3. CASE kind = "while" /\ Live
    <3>1. nest' = nest /\ resume' = TRUE
      BY <1>2, <2>1, <2>3 DEF TextClose, Innermost
    <3>2. cond' = cond /\ match' = match /\ switches' = switches /\ whiles' = whiles /\ again' = TRUE
      BY <2>1, <2>2, <2>3, CloseWhile
    <3>3. Current' = Current
      BY <3>2 DEF Current
    <3>4. StackInv'
      BY <1>1, <3>1, <3>3 DEF StackInv, TypeOK
    <3> QED BY <1>2, <2>3, <3>1, <3>2, <3>4 DEF Innermost, Live
  <2>4. CASE ~(kind = "while" /\ Live)
    <3>1. nest' = Front(nest) /\ resume' = resume
      BY <1>2, <2>1, <2>4 DEF TextClose, Innermost
    <3>2. /\ cond' = r.cond /\ match' = r.match
          /\ switches' = r.switches /\ whiles' = r.whiles /\ again' = again
      <4>1. CASE kind = "if"
        BY <2>1, <2>2, <4>1, CloseIf
      <4>2. CASE kind = "switch"
        <5>1. g.taken
          BY <2>1, <4>2, Under
        <5> QED BY <2>1, <2>2, <4>2, <5>1, CloseSwitch, Facts
      <4>3. CASE kind = "while"
        BY <2>1, <2>2, <2>4, <4>3, CloseWhile
      <4> QED BY <4>1, <4>2, <4>3
    <3>3. StackInv'
      BY <1>1, <2>1, <2>2, <3>1, <3>2, Landed
    <3> QED BY <2>1, <3>1, <3>2, <3>3
  <2> QED BY <2>3, <2>4
<1>3. CASE ~Innermost(kind)
  <2> DEFINE g == Last(nest)
             sw == Last(Front(nest))
             rest == Front(Front(nest))
  <2>1. /\ kind = "switch" /\ Innermost("case") /\ ~resume
        /\ nest' = rest /\ resume' = resume
    BY <1>3 DEF TextClose
  <2>2. g \in Frame /\ g.kind = "case"
    BY <2>1, Under DEF Innermost
  <2>3. PICK r \in Stacks :
          /\ sw \in Frame /\ sw.kind = "switch" /\ sw.taken /\ rest \in Seq(Frame)
          /\ Unfolds(rest, r)
          /\ After(r, sw) \in Stacks
          /\ Current = After(After(r, sw), g)
    BY <2>1, AtCase
  <2> DEFINE u == After(r, sw)
  <2>4. /\ StateOf(r) => CaseRead
        /\ switches = u.switches /\ match = u.match /\ whiles = u.whiles
        /\ ~StateOf(r) => cond = u.cond
    BY <2>2, <2>3, InCase
  <2>5. cond = u.cond
    BY <2>1, <2>4
  <2>6. /\ cond' = r.cond /\ match' = r.match
        /\ switches' = r.switches /\ whiles' = r.whiles /\ again' = again
    BY <2>1, <2>3, <2>4, <2>5, CloseSwitch
  <2>7. StackInv'
    BY <1>1, <2>1, <2>3, <2>6, Landed
  <2> QED BY <2>1, <2>6, <2>7
<1> QED BY <1>2, <1>3

LEMMA CloseStep ==
    ASSUME StackInv, again <=> resume, NEW style \in {"keyword", "}"}, Close(style)
    PROVE  /\ TypeOK'
           /\ ~astray' => /\ StackInv' /\ (again' <=> resume')
                          /\ resume' => Innermost("while")' /\ Live'
<1> DEFINE Ends(kind, token) ==
        /\ TextClose(kind)
        /\ \/ token = "endif" /\ EndIf
           \/ token = "endswitch" /\ EndSwitch
           \/ token = "endwhile" /\ EndWhile
        /\ astray' = \/ token # Closer(kind)
                     \/ Innermost("case") /\ CaseRead
      Token(kind) == IF style = "keyword" THEN Closer(kind) ELSE BraceCheck
<1>0. PICK kind \in {"if", "switch", "while"} : Ends(kind, Token(kind))
  BY Zenon DEF Close
<1> DEFINE token == Token(kind)
<1>1. Ends(kind, token)
  BY <1>0
<1> HIDE DEF Token
<1>2. astray' \in BOOLEAN
  BY <1>1
<1>3. /\ cond' \in Seq(CondEntry) /\ match' \in Seq(BOOLEAN)
      /\ brace' \in Seq(EndToken) /\ switches' \in Seq(BOOLEAN)
      /\ whiles' \in Nat /\ again' \in BOOLEAN
      /\ nest' \in Seq(Frame) /\ resume' \in BOOLEAN
  BY <1>1, EndTokenType, TextCloseType DEF StackInv
<1>4. TypeOK'
  BY <1>2, <1>3 DEF TypeOK
<1>5. ASSUME ~astray'
      PROVE  /\ StackInv' /\ (again' <=> resume')
             /\ resume' => Innermost("while")' /\ Live'
  <2>1. token = Closer(kind) /\ ~(Innermost("case") /\ CaseRead)
    BY <1>1, <1>5
  <2>2. \/ kind = "if" /\ EndIf
        \/ kind = "switch" /\ EndSwitch
        \/ kind = "while" /\ EndWhile
    <3>1. CASE kind = "if"
      <4>1. token = "endif"
        BY <2>1, <3>1 DEF Closer
      <4> QED BY <1>1, <3>1, <4>1
    <3>2. CASE kind = "while"
      <4>1. token = "endwhile"
        BY <2>1, <3>2 DEF Closer
      <4> QED BY <1>1, <3>2, <4>1
    <3>3. CASE kind = "switch"
      <4>1. token = "endswitch"
        BY <2>1, <3>3 DEF Closer
      <4> QED BY <1>1, <3>3, <4>1
    <3> QED BY <3>1, <3>2, <3>3
  <2> QED BY <1>1, <1>2, <2>1, <2>2, CloseOwn
<1> QED BY <1>4, <1>5

-----------------------------------------------------------------------------
LEMMA InitUnfolds ==
    ASSUME Init
    PROVE  IInv
<1> DEFINE sv == [i \in 0..0 |-> Empty]
<1>1. nest = << >> /\ nest \in Seq(Frame) /\ Len(nest) = 0
  BY DEF Init, ScriptInit
<1>2. Current = Empty
  BY DEF Init, Current, Empty
<1>3. Empty \in Stacks
  BY DEF Empty, Stacks
<1>4. StateOf(Empty)
  BY DEF StateOf, Empty
<1>5. IsUnfolding(sv, nest)
  <2>1. sv \in [0..Len(nest) -> Stacks] /\ sv[0] = Empty
    BY <1>1, <1>3
  <2>2. \A i \in 1..Len(nest) : FALSE
    BY <1>1
  <2>3. \A i \in 0..Len(nest) : StateOf(sv[i]) <=> \A j \in 1..i : nest[j].taken
    BY <1>1, <1>4
  <2> QED BY <2>1, <2>2, <2>3 DEF IsUnfolding
<1>6. Unfolds(nest, Current)
  BY <1>1, <1>2, <1>5 DEF Unfolds
<1>7. TypeOK
  <2>1. /\ << >> \in Seq(CondEntry) /\ << >> \in Seq(BOOLEAN)
        /\ << >> \in Seq(EndToken) /\ << >> \in Seq(Frame)
    OBVIOUS
  <2> QED BY <2>1 DEF Init, ScriptInit, TypeOK
<1>8. again <=> resume
  BY DEF Init, ScriptInit
<1>9. ~resume
  BY DEF Init, ScriptInit
<1> QED BY <1>6, <1>7, <1>8, <1>9 DEF IInv

(* A page with nothing open has left nothing behind.                       *)
LEMMA EmptyUnfolds ==
    ASSUME StackInv, nest = << >>
    PROVE  Current = Empty
BY DEF StackInv, Unfolds, IsUnfolding

(* The statements that neither leave nor return to a loop head.            *)
LEMMA PlainStep ==
    ASSUME IInv, Next, UNCHANGED again, UNCHANGED resume, ~resume,
           TypeOK' /\ (~astray' => StackInv')
    PROVE  IInv'
BY DEF IInv, StackInv, Next

LEMMA NextKeepsIInv ==
    ASSUME IInv, [Next]_vars
    PROVE  IInv'
<1>1. CASE UNCHANGED vars
  BY <1>1 DEF IInv, TypeOK, vars, Unfolds, IsUnfolding, Current, Innermost, Live
<1>2. ASSUME Next PROVE IInv'
  <2>1. /\ ~astray /\ StackInv /\ (again <=> resume)
        /\ resume => Innermost("while") /\ Live
        /\ resume \in BOOLEAN
    BY <1>2 DEF Next, IInv, StackInv, TypeOK
  <2>2. ASSUME NEW c \in BOOLEAN, If(c) PROVE IInv'
    <3>1. UNCHANGED again /\ UNCHANGED resume /\ ~resume
      BY <2>2 DEF If, TextIf, Enter
    <3>2. StackInv'
      BY <2>1, <2>2, IfStep
    <3> QED BY <1>2, <3>1, <3>2, PlainStep DEF StackInv
  <2>3. ASSUME NEW c \in BOOLEAN, ElseIf(c) PROVE IInv'
    <3>1. UNCHANGED again /\ UNCHANGED resume /\ ~resume
      BY <2>3 DEF ElseIf, TextElseIf
    <3>2. StackInv'
      BY <2>1, <2>3, ElseIfStep
    <3> QED BY <1>2, <3>1, <3>2, PlainStep DEF StackInv
  <2>4. ASSUME NEW c \in BOOLEAN, Case(c) PROVE IInv'
    <3>1. UNCHANGED again /\ UNCHANGED resume /\ ~resume
      BY <2>4 DEF Case, TextCase, Enter, JoinCase
    <3> QED BY <1>2, <2>1, <2>4, <3>1, CaseStep, PlainStep
  <2>5. ASSUME NEW c \in BOOLEAN, While(c) PROVE IInv'
    <3>1. StackInv' /\ ~again' /\ ~resume'
      BY <2>1, <2>5, WhileOpens, WhileRepeats DEF While
    <3> QED BY <3>1 DEF IInv, StackInv
  <2>6. ASSUME Else PROVE IInv'
    <3>1. UNCHANGED again /\ UNCHANGED resume /\ ~resume
      BY <2>6 DEF Else, TextElse
    <3>2. StackInv'
      BY <2>1, <2>6, ElseStep
    <3> QED BY <1>2, <3>1, <3>2, PlainStep DEF StackInv
  <2>7. ASSUME Switch PROVE IInv'
    <3>1. UNCHANGED again /\ UNCHANGED resume /\ ~resume
      BY <2>7 DEF Switch, TextSwitch, Enter
    <3>2. StackInv'
      BY <2>1, <2>7, SwitchStep
    <3> QED BY <1>2, <3>1, <3>2, PlainStep DEF StackInv
  <2>8. ASSUME Default PROVE IInv'
    <3>1. UNCHANGED again /\ UNCHANGED resume /\ ~resume
      BY <2>8 DEF Default, TextDefault, Enter, JoinCase
    <3> QED BY <1>2, <2>1, <2>8, <3>1, DefaultStep, PlainStep
  <2>9. ASSUME Break PROVE IInv'
    <3>1. UNCHANGED again /\ UNCHANGED resume /\ ~resume
      BY <2>9 DEF Break, TextBreak
    <3>2. StackInv'
      BY <2>1, <2>9, BreakStep
    <3> QED BY <1>2, <3>1, <3>2, PlainStep DEF StackInv
  <2>10. ASSUME NEW style \in {"keyword", "}"}, Close(style) PROVE IInv'
    BY <2>1, <2>10, CloseStep DEF IInv, StackInv
  <2> QED BY <1>2, <2>2, <2>3, <2>4, <2>5, <2>6, <2>7, <2>8, <2>9, <2>10
          DEF Next, CloseKeyword, CloseBrace
<1> QED BY <1>1, <1>2

(* However the block statements of a page are nested, the interpreter's     *)
(* stacks (cond.c, switch.c, while.c) are those its open constructs unfold  *)
(* to, as long as the text has not gone astray.                             *)
THEOREM StacksUnfold == Spec => []IInv
<1>1. Init => IInv
  BY InitUnfolds
<1>2. IInv /\ [Next]_vars => IInv'
  BY NextKeepsIInv
<1> QED BY <1>1, <1>2, PTL DEF Spec

(* The stacks of cond.c, switch.c and while.c hold entries of their kind,   *)
(* and the count of loop records never goes below zero.                     *)
THEOREM TypeCorrect == Spec => []TypeOK
<1>1. IInv => TypeOK
  BY DEF IInv
<1> QED BY <1>1, StacksUnfold, PTL

(* GetCurrentState (cond.c:188) is the author's nesting: text is executed   *)
(* iff every construct around it has selected its branch.                   *)
THEOREM ExecutesIffTaken == Spec => []LiveIffTaken
<1>1. IInv => LiveIffTaken
  BY Facts DEF IInv, StackInv, LiveIffTaken
<1> QED BY <1>1, StacksUnfold, PTL

(* When every block of a page is closed the condition, match, switch and    *)
(* while stacks of the interpreter are empty again.                         *)
THEOREM StacksDrained == Spec => []StacksDrain
<1>1. IInv => StacksDrain
  <2> SUFFICES ASSUME IInv, ~astray, nest = << >>
               PROVE  cond = << >> /\ match = << >> /\ switches = << >> /\ whiles = 0
    BY DEF StacksDrain
  <2>1. Current = Empty
    BY EmptyUnfolds DEF IInv, StackInv
  <2> QED BY <2>1 DEF Current, Empty
<1> QED BY <1>1, StacksUnfold, PTL

(* Case, Default and Break (switch.c:134-188) and a repeated While          *)
(* (while.c:102) find the record they follow the top pointer to.            *)
THEOREM RecordsFound == Spec => []RecordsPresent
<1>1. IInv => RecordsPresent
  <2> SUFFICES ASSUME IInv, ~astray
               PROVE  /\ Innermost("switch") /\ GetCurrentState => switches # << >>
                      /\ Innermost("case") /\ CaseRead => switches # << >>
                      /\ again <=> resume
                      /\ again => whiles > 0 /\ GetCurrentState
    BY DEF RecordsPresent
  <2>1. StackInv /\ (again <=> resume) /\ (resume => Innermost("while") /\ Live)
    BY DEF IInv, StackInv
  <2>2. Innermost("switch") /\ GetCurrentState => switches # << >>
    BY <2>1, AtSwitch
  <2>3. ASSUME Innermost("case"), CaseRead PROVE switches # << >>
    <3> DEFINE sw == Last(Front(nest))
    <3>1. PICK r \in Stacks :
            /\ sw \in Frame /\ sw.kind = "switch" /\ sw.taken
            /\ After(r, sw) \in Stacks
            /\ Current = After(After(r, sw), Last(nest))
      BY <2>1, <2>3, AtCase
    <3>2. Last(nest) \in Frame /\ Last(nest).kind = "case"
      BY <2>1, <2>3, Under DEF Innermost
    <3>3. StateOf(r) /\ switches = After(r, sw).switches
      BY <2>1, <2>3, <3>1, <3>2, InCase
    <3> QED BY <3>1, <3>3, AfterParts
  <2>4. ASSUME again PROVE whiles > 0 /\ GetCurrentState
    <3>1. Innermost("while") /\ Live
      BY <2>1, <2>4
    <3>2. nest # << >> /\ Last(nest).kind = "while" /\ Last(nest) \in Frame
      BY <2>1, <3>1, Under DEF Innermost
    <3>3. PICK r \in Stacks : Unfolds(Front(nest), r) /\ Current = After(r, Last(nest))
      BY <2>1, <3>2, Under
    <3>4. GetCurrentState /\ StateOf(r) /\ Last(nest).taken
      BY <2>1, <3>1, <3>2, <3>3, AfterState, Facts
    <3>5. whiles = r.whiles + 1
      BY <2>1, <3>2, <3>3, <3>4, AfterParts, Facts
    <3>6. r.whiles \in Nat
      BY <3>3 DEF Stacks
    <3> QED BY <3>4, <3>5, <3>6
  <2> QED BY <2>1, <2>2, <2>3, <2>4
<1> QED BY <1>1, StacksUnfold, PTL

(* Up to the statement that leads it astray, the interpreter seen through   *)
(* GetCurrentState (cond.c:188) is the block language of PageLanguage.      *)
THEOREM InterpreterKeepsPromise == Spec => KeepsPromise
<1>1. Init => IInv
  BY InitUnfolds
<1>2. IInv /\ [Next]_vars => IInv'
  BY NextKeepsIInv
<1>3. Init => Promise!Init
  BY DEF Init, ScriptInit, Promise!Init, Promise!ScriptInit, GetCurrentState, Shown
<1>4. IInv => Shown = Live
  <2> SUFFICES ASSUME IInv PROVE Shown = Live
    OBVIOUS
  <2>1. CASE astray
    BY <2>1 DEF Shown
  <2>2. CASE ~astray
    <3>1. GetCurrentState \in BOOLEAN /\ (GetCurrentState <=> Live)
      BY <2>2, Facts DEF IInv, StackInv
    <3>2. Live \in BOOLEAN
      BY DEF Live
    <3> QED BY <2>2, <3>1, <3>2 DEF Shown
  <2>3. astray \in BOOLEAN
    BY DEF IInv, TypeOK
  <2> QED BY <2>1, <2>2, <2>3
<1>5. Next => Promise!Read
  <2>1. /\ \A c : TextIf(c) => Promise!TextIf(c)
        /\ \A c : TextWhile(c) => Promise!TextWhile(c)
        /\ TextSwitch => Promise!TextSwitch
    BY DEF TextIf, TextWhile, TextSwitch, Enter, Open,
           Promise!TextIf, Promise!TextWhile, Promise!TextSwitch, Promise!Enter, Promise!Open
  <2>2. /\ \A c : TextElseIf(c) => Promise!TextElseIf(c)
        /\ TextElse => Promise!TextElse
        /\ \A c : TextWhileAgain(c) => Promise!TextWhileAgain(c)
    BY Zenon DEF Last, Front, Promise!Last, Promise!Front,
           TextElseIf, TextElse, TextWhileAgain, Innermost, ReplaceInnermost, Open,
           Promise!TextElseIf, Promise!TextElse, Promise!TextWhileAgain,
           Promise!Innermost, Promise!ReplaceInnermost, Promise!Open
  <2>3. /\ \A c : TextCase(c) => Promise!TextCase(c)
        /\ TextDefault => Promise!TextDefault
    BY Zenon DEF Last, Front, Promise!Last, Promise!Front,
           TextCase, TextDefault, Enter, Open, JoinCase, Innermost, ReplaceInnermost,
           Promise!TextCase, Promise!TextDefault, Promise!Enter, Promise!Open,
           Promise!JoinCase, Promise!Innermost, Promise!ReplaceInnermost
  <2>4. /\ TextBreak => Promise!TextBreak
        /\ \A kind : TextClose(kind) => Promise!TextClose(kind)
    BY Zenon DEF Last, Front, Promise!Last, Promise!Front,
           TextBreak, TextClose, Innermost, Live,
           Promise!TextBreak, Promise!TextClose, Promise!Innermost, Promise!Live
  <2>5. Next => \/ \E c \in BOOLEAN : \/ TextIf(c) \/ TextElseIf(c) \/ TextCase(c)
                                      \/ TextWhile(c) \/ TextWhileAgain(c)
                \/ TextElse \/ TextSwitch \/ TextDefault \/ TextBreak
                \/ \E kind \in {"if", "switch", "while"} : TextClose(kind)
    BY Zenon DEF Next, If, ElseIf, Else, Switch, Case, Default, Break, While,
           CloseKeyword, CloseBrace, Close
  <2> QED BY <2>1, <2>2, <2>3, <2>4, <2>5, Zenon DEF Promise!Read
<1>6. (Shown = Live)' /\ [Next]_vars => [Promise!Next]_<<nest, resume, Shown>>
  <2>1. UNCHANGED vars => UNCHANGED <<nest, resume, Shown>>
    BY DEF vars, Shown, Live, GetCurrentState
  <2>2. (Shown = Live)' /\ Next => Promise!Next
    BY <1>5, Zenon DEF Promise!Next, Promise!Live, Live
  <2> QED BY <2>1, <2>2
<1> HIDE DEF IInv
<1> QED BY <1>1, <1>2, <1>3, <1>4, <1>6, PTL DEF Spec, KeepsPromise, Promise!Spec
=============================================================================
