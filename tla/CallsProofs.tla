----------------------------- MODULE CallsProofs -----------------------------
(***************************************************************************)
(* Proofs about Calls, for any files, names, depths and descriptors.  The   *)
(* inductive invariant reads the file stack, the marks and the frames off   *)
(* the texts that are entered: what FilePush saved of the text at depth i   *)
(* is what the interpreter stood at when it entered the text at depth i+1   *)
(* (Linked), and that is what one stands at within the text at depth i      *)
(* (Fit).                                                                   *)
(***************************************************************************)
EXTENDS Calls, SequenceTheorems, WellFoundedInduction, TLAPS

Size    == File \cup 0 .. MaxDefs
NowType == [pa : Text, gsize : Size, name : File \cup Name, size : Size, fn : Nat, eval : BOOLEAN,
            frames : Seq(Def), cond : Nat, marks : Seq(Nat)]
Ctx     == [kind : {"page", "include", "eval", "call"}, fn : Nat, text : Text, blocks : Seq(Block), seen : NowType]

TypeInv == TypeOK /\ ctx \in Seq(Ctx)

-----------------------------------------------------------------------------
(* A program that mixes no kinds of text but functions called from files    *)
(* and functions, finishes the files and strings it enters, includes files  *)
(* that are there, and does not redefine what it executes.                  *)
Careful == {"mixing", "unfinished text", "missing file", "redefinition"} \subseteq Avoided

OfFile(c)   == c.kind \in {"page", "include"}
Executes(c) == IF c.kind = "call" THEN c.fn ELSE 0

(* What the interpreter stands at within a text.                            *)
Fit(c, now) ==
    /\ now.pa = c.text /\ now.fn = Executes(c) /\ now.eval = (c.kind = "eval")
    /\ now.cond = c.seen.cond + Len(c.blocks)
    /\ c.kind = "call" => now.gsize = c.fn
    /\ OfFile(c) => now.gsize = now.size
    /\ ~OfFile(c) => now.name = c.seen.name /\ now.size = c.seen.size
    /\ now.frames = (IF c.kind = "call" THEN Append(c.seen.frames, c.fn) ELSE c.seen.frames)
    /\ now.marks = (IF OfFile(c) THEN c.seen.marks ELSE Append(c.seen.marks, c.seen.cond))

(* A text and the one it enters.                                           *)
Enters(c, d) ==
    /\ c.kind # "eval" /\ d.kind # "page"
    /\ d.kind \in {"include", "eval"} => OfFile(c)
    /\ Fit(c, d.seen)

(* The function of a name among some that are defined.                      *)
Finds(fs, name) == LET found == {d \in DOMAIN fs : fs[d] = name} IN IF found = {} THEN 0 ELSE Max(found)

(* What FilePush saves of a text when it enters another.                    *)
Saved(c, d, s, fs) ==
    /\ s.pa = d.seen.pa
    /\ IF c.kind = "call" THEN s.fd = NoFd /\ s.filename = fs[c.fn]
       ELSE s.fd \in Fd /\ s.filename = d.seen.name /\ s.size = d.seen.size

(* What a text is read from.                                               *)
Sound(c, fs) ==
    /\ c.text # NULL
    /\ ~OfFile(c) => c.text.map = 0
    /\ c.kind = "call" => c.fn \in DOMAIN fs /\ Finds(fs, fs[c.fn]) = c.fn

NestedIn(cx, tp, fs) ==
    /\ cx # << >> /\ cx[1].kind = "page" /\ Len(cx) = Len(tp) + 1
    /\ \A i \in 1 .. Len(cx) : Sound(cx[i], fs)
    /\ \A i \in 1 .. Len(cx) - 1 : Enters(cx[i], cx[i + 1])
    /\ \A i \in 1 .. Len(cx) - 1 : Saved(cx[i], cx[i + 1], tp[i], fs)

FdsOf(tp)  == {tp[i].fd : i \in DOMAIN tp}
MapsOf(tp) == {tp[i].pa.map : i \in DOMAIN tp}

(* The modes and the descriptor go with the text, after exit too, when pa   *)
(* may be gone already.                                                     *)
Within ==
    /\ cur_func = Executes(This) /\ eval_mode = (This.kind = "eval")
    /\ pa = This.text \/ (ExitCalled /\ pa = NULL)
    /\ IF OfFile(This) THEN gfd \in Fd ELSE gfd \in {NoFd} \cup FdsOf(top)
    /\ ~ExitCalled => Fit(This, Now) /\ (state = "end" => This.kind = "call" \/ This.blocks = << >>)

OnDisk ==
    /\ open \subseteq FdsOf(top) \cup (IF pa = NULL THEN {} ELSE {gfd})
    /\ maps \subseteq MapsOf(top) \cup (IF pa = NULL THEN {} ELSE {pa.map})

CallInv ==
    /\ TypeInv
    /\ ExitCalled => state # "reading"
    /\ IF state = "over" THEN ExitCalled /\ open = {} /\ maps = {}
       ELSE NestedIn(ctx, top, functop) /\ Within /\ OnDisk

-----------------------------------------------------------------------------
(* Sequences used as stacks.                                               *)
LEMMA PushPop ==
    ASSUME NEW S, NEW s \in Seq(S), NEW e \in S
    PROVE  /\ Append(s, e) \in Seq(S)
           /\ Append(s, e) # << >>
           /\ Len(Append(s, e)) = Len(s) + 1
           /\ Front(Append(s, e)) = s
           /\ Last(Append(s, e)) = e
<1> DEFINE t == Append(s, e)
<1>1. t \in Seq(S) /\ t # << >> /\ Len(t) = Len(s) + 1
  BY AppendProperties
<1>2. Last(t) = e
  BY AppendProperties DEF Last
<1>3. Front(t) = SubSeq(t, 1, Len(s))
  BY <1>1, LenProperties DEF Front
<1>4. SubSeq(t, 1, Len(s)) = s
  BY <1>1, SMT
<1> QED BY <1>1, <1>2, <1>3, <1>4

LEMMA PopPush ==
    ASSUME NEW S, NEW s \in Seq(S), s # << >>
    PROVE  /\ Front(s) \in Seq(S)
           /\ Last(s) \in S
           /\ Len(s) \in Nat \ {0}
           /\ Len(Front(s)) = Len(s) - 1
           /\ s = Append(Front(s), Last(s))
           /\ Last(s) = s[Len(s)]
           /\ \A i \in 1..Len(s)-1 : Front(s)[i] = s[i]
<1>1. PICK t \in Seq(S), e \in S : s = Append(t, e)
  BY SequenceEmptyOrAppend
<1>2. Front(s) = t /\ Last(s) = e
  BY <1>1, PushPop
<1>3. /\ Len(t) \in Nat
      /\ Len(s) = Len(t) + 1
      /\ \A i \in 1..Len(t) : s[i] = t[i]
  BY <1>1, AppendProperties, LenProperties
<1> QED BY <1>1, <1>2, <1>3 DEF Last

(* The least of some numbers.                                              *)
LEMMA NatMin == ASSUME NEW S, S \subseteq Nat, S # {} PROVE Min(S) \in S /\ \A y \in S : Min(S) <= y
<1>1. IsWellFoundedOn(OpToRel(<, Nat), Nat) BY NatLessThanWellFounded
<1>2. \E x \in S : \A y \in S : ~(<<y, x>> \in OpToRel(<, Nat)) BY <1>1, WFMin
<1>3. PICK x \in S : \A y \in S : ~(<<y, x>> \in OpToRel(<, Nat)) BY <1>2
<1>4. ASSUME NEW y \in S PROVE x <= y
  <2>1. ~(<<y, x>> \in OpToRel(<, Nat)) BY <1>3
  <2>2. ~(y < x) BY <2>1 DEF OpToRel
  <2> QED BY <2>2
<1> QED BY <1>4 DEF Min

(* The greatest of some numbers that have a bound.                          *)
LEMMA NatMax ==
    ASSUME NEW n \in Nat, NEW S, S \subseteq 0 .. n, S # {}
    PROVE  Max(S) \in S /\ \A y \in S : Max(S) >= y
<1> DEFINE T == {n - x : x \in S}
<1>1. T \subseteq Nat /\ T # {}
  <2>1. \A x \in S : x \in 0 .. n /\ n - x \in Nat OBVIOUS
  <2> QED BY <2>1
<1>2. Min(T) \in T /\ \A y \in T : Min(T) <= y
  <2> HIDE DEF T
  <2> QED BY <1>1, NatMin
<1>3. PICK x \in S : Min(T) = n - x BY <1>2
<1>4. ASSUME NEW y \in S PROVE x >= y
  <2>1. n - y \in T OBVIOUS
  <2>2. n - x <= n - y BY <1>2, <1>3, <2>1
  <2>3. x \in Int /\ y \in Int OBVIOUS
  <2> QED BY <2>2, <2>3
<1> QED BY <1>4 DEF Max

(* A descriptor that is free.                                              *)
LEMMA FreshIs == ASSUME NEW used, Fd \ used # {} PROVE Fresh(used) \in Fd /\ Fresh(used) \notin used
<1> DEFINE S == Fd \ used
<1>1. S \subseteq Nat /\ S # {} BY DEF Fd
<1>2. \E n \in S : \A m \in S : n <= m
  <2> HIDE DEF S
  <2> QED BY <1>1, NatMin
<1>3. Fresh(used) \in S BY <1>2 DEF Fresh
<1> QED BY <1>3

(* The function of a name is the one defined last.                          *)
LEMMA FindFuncIs ==
    ASSUME NEW name, functop \in Seq(Name)
    PROVE  /\ FindFunc(name) \in 0 .. Len(functop)
           /\ FindFunc(name) # 0 => FindFunc(name) \in DOMAIN functop /\ functop[FindFunc(name)] = name
           /\ \A d \in DOMAIN functop : functop[d] = name => FindFunc(name) # 0 /\ FindFunc(name) >= d
<1> DEFINE found == {d \in DOMAIN functop : functop[d] = name}
<1>1. Len(functop) \in Nat /\ DOMAIN functop = 1 .. Len(functop) BY LenProperties
<1>2. FindFunc(name) = IF found = {} THEN 0 ELSE Max(found) BY DEF FindFunc
<1>3. found \subseteq 0 .. Len(functop) BY <1>1
<1>4. found # {} => Max(found) \in found /\ \A y \in found : Max(found) >= y
  <2> HIDE DEF found
  <2> QED BY <1>1, <1>3, NatMax
<1> QED BY <1>1, <1>2, <1>4

-----------------------------------------------------------------------------
(* Types.                                                                  *)
LEMMA NowTyped == ASSUME TypeOK PROVE Now \in NowType
<1>1. cur_func \in Nat
  <2>1. Len(functop) \in Nat BY DEF TypeOK
  <2> QED BY <2>1 DEF TypeOK
<1> QED BY <1>1 DEF TypeOK, Now, NowType, Size

LEMMA ContextTyped ==
    ASSUME TypeOK, NEW kind \in {"page", "include", "eval", "call"}, NEW fn \in Nat, NEW text \in Text
    PROVE  /\ Context(kind, fn, text) \in Ctx
           /\ Context(kind, fn, text).kind = kind /\ Context(kind, fn, text).fn = fn
           /\ Context(kind, fn, text).text = text /\ Context(kind, fn, text).blocks = << >>
           /\ Context(kind, fn, text).seen = Now
<1>1. Now \in NowType BY NowTyped
<1> HIDE DEF Now
<1> QED BY <1>1 DEF Context, Ctx

(* The stack grows by what FilePush saves.                                 *)
LEMMA PushTyped ==
    ASSUME TypeOK, NEW name \in File \cup Name, NEW size \in Size, NEW fd \in Fd \cup {NoFd}, FilePush(name, size, fd)
    PROVE  /\ top' \in Seq(Entry) /\ Len(top') = Len(top) + 1
           /\ top' = Append(top, [pa |-> pa, size |-> size, fd |-> fd, filename |-> name])
<1> DEFINE e == [pa |-> pa, size |-> size, fd |-> fd, filename |-> name]
<1>1. e \in Entry BY DEF TypeOK, Entry, Size
<1>2. top \in Seq(Entry) BY DEF TypeOK
<1>3. top' = Append(top, e) BY DEF FilePush
<1> HIDE DEF e
<1>4. top' \in Seq(Entry) /\ Len(top') = Len(top) + 1 BY <1>1, <1>2, <1>3, AppendProperties
<1> QED BY <1>3, <1>4 DEF e

(* The innermost text, while one is read or has come to its end.            *)
LEMMA Entered ==
    ASSUME TypeInv, state # "over"
    PROVE  /\ ctx # << >> /\ This \in Ctx /\ This = ctx[Len(ctx)] /\ Len(ctx) \in Nat \ {0} /\ Len(ctx) = Len(top) + 1
           /\ Front(ctx) \in Seq(Ctx) /\ Len(Front(ctx)) = Len(ctx) - 1
           /\ \A i \in 1 .. Len(ctx) - 1 : Front(ctx)[i] = ctx[i]
<1>1. ctx \in Seq(Ctx) /\ Len(ctx) = Len(top) + 1 /\ Len(top) \in Nat BY DEF TypeInv, TypeOK
<1>2. ctx # << >> BY <1>1
<1> QED BY <1>1, <1>2, PopPush DEF This

(* A text put in the place of the innermost one, or on top of it.           *)
LEMMA Replaced ==
    ASSUME TypeInv, state # "over", NEW c \in Ctx
    PROVE  LET next == Append(Front(ctx), c)
           IN  /\ next \in Seq(Ctx) /\ Len(next) = Len(ctx) /\ next[Len(ctx)] = c /\ Last(next) = c /\ next # << >>
               /\ \A i \in 1 .. Len(ctx) - 1 : next[i] = ctx[i]
<1> DEFINE F == Front(ctx)
           next == Append(F, c)
<1>1. F \in Seq(Ctx) /\ Len(F) = Len(ctx) - 1 /\ Len(ctx) \in Nat \ {0}
      /\ \A i \in 1 .. Len(ctx) - 1 : F[i] = ctx[i]
  BY Entered
<1> HIDE DEF F
<1>2. /\ next \in Seq(Ctx) /\ Len(next) = Len(F) + 1 /\ next[Len(F) + 1] = c
      /\ \A i \in 1 .. Len(F) : next[i] = F[i]
  BY <1>1, AppendProperties
<1> HIDE DEF next
<1>3. Last(next) = c BY <1>1, <1>2 DEF Last
<1>4. /\ next \in Seq(Ctx) /\ Len(next) = Len(ctx) /\ next[Len(ctx)] = c /\ Last(next) = c /\ next # << >>
      /\ \A i \in 1 .. Len(ctx) - 1 : next[i] = ctx[i]
  BY <1>1, <1>2, <1>3
<1> QED BY <1>4 DEF F, next

LEMMA Pushed ==
    ASSUME TypeInv, NEW c \in Ctx, NEW next, next = Append(ctx, c)
    PROVE  /\ next \in Seq(Ctx) /\ Len(next) = Len(ctx) + 1 /\ next[Len(ctx) + 1] = c /\ Last(next) = c /\ next # << >>
           /\ \A i \in 1 .. Len(ctx) : next[i] = ctx[i]
<1>1. ctx \in Seq(Ctx) BY DEF TypeInv
<1>2. /\ next \in Seq(Ctx) /\ Len(next) = Len(ctx) + 1 /\ next[Len(ctx) + 1] = c
      /\ \A i \in 1 .. Len(ctx) : next[i] = ctx[i]
  BY <1>1, AppendProperties
<1> QED BY <1>1, <1>2, LenProperties DEF Last

-----------------------------------------------------------------------------
(* No step leaves the types.                                               *)
LEMMA BlockTypes ==
    ASSUME CallsAssumption, TypeInv, (\E b \in Block : OpenBlock(b)) \/ CloseBlock PROVE TypeInv'
<1>1. /\ TypeOK /\ state = "reading" /\ state' = state /\ Len(top) \in Nat /\ This \in Ctx /\ This.blocks \in Seq(Block)
      /\ Len(ctx) = Len(top) + 1
  <2>1. state = "reading" /\ state' = state BY DEF OpenBlock, CloseBlock, Reading
  <2>2. This \in Ctx BY <2>1, Entered
  <2> QED BY <2>1, <2>2, Entered DEF TypeInv, TypeOK, Ctx
<1>2. UNCHANGED <<texts, call, disk, mark, top, functop, state, ExitCalled>> BY DEF OpenBlock, CloseBlock
<1>3. cond' \in Nat /\ brace' \in Seq(Block)
  <2>1. brace \in Seq(Block) /\ cond \in Nat BY <1>1 DEF TypeOK
  <2>2. CASE CloseBlock BY <2>1, <2>2, PopPush DEF CloseBlock
  <2>3. ASSUME NEW b \in Block, OpenBlock(b) PROVE cond' \in Nat /\ brace' \in Seq(Block)
    BY <2>1, <2>3, AppendProperties DEF OpenBlock
  <2> QED BY <2>2, <2>3
<1>4. ctx' \in Seq(Ctx) /\ Len(ctx') = Len(ctx)
  <2>1. PICK bl \in Seq(Block) : ctx' = Append(Front(ctx), [This EXCEPT !.blocks = bl])
    <3>1. CASE CloseBlock
      <4>1. Front(This.blocks) \in Seq(Block) BY <1>1, <3>1, PopPush DEF CloseBlock
      <4> QED BY <1>1, <3>1, <4>1 DEF CloseBlock, Ctx
    <3>2. ASSUME NEW b \in Block, OpenBlock(b)
          PROVE  \E bl \in Seq(Block) : ctx' = Append(Front(ctx), [This EXCEPT !.blocks = bl])
      <4>1. Append(This.blocks, b) \in Seq(Block) BY <1>1, AppendProperties
      <4> QED BY <1>1, <3>2, <4>1 DEF OpenBlock, Ctx
    <3> QED BY <3>1, <3>2
  <2>2. [This EXCEPT !.blocks = bl] \in Ctx BY <1>1 DEF Ctx
  <2> QED BY <1>1, <2>1, <2>2, Replaced
<1> QED BY <1>1, <1>2, <1>3, <1>4 DEF TypeInv, TypeOK, texts, call, disk, Text, Entry

LEMMA DefineTypes ==
    ASSUME CallsAssumption, TypeInv, NEW name \in Name, DefineFunc(name) PROVE TypeInv'
<1>1. functop \in Seq(Name) /\ cur_func \in 0 .. Len(functop) /\ Len(functop) \in Nat /\ MaxDefs \in Nat /\ TypeOK
  BY DEF TypeInv, TypeOK, CallsAssumption
<1>2. Len(functop) < MaxDefs /\ functop' = Append(functop, name) BY DEF DefineFunc
<1>3. functop' \in Seq(Name) /\ Len(functop') = Len(functop) + 1 BY <1>1, <1>2, AppendProperties
<1>4. Len(functop') <= MaxDefs /\ cur_func \in 0 .. Len(functop') BY <1>1, <1>2, <1>3
<1> QED BY <1>1, <1>3, <1>4 DEF DefineFunc, TypeInv, TypeOK, texts, call, block, disk, Text, Entry

LEMMA EnterTypes ==
    ASSUME CallsAssumption, TypeInv,
           (\E f \in File : Include(f)) \/ Eval \/ \E name \in Name : RunFunc(name)
    PROVE  TypeInv'
<1>1. /\ TypeOK /\ state = "reading" /\ state' = state /\ functop' = functop /\ ExitCalled' = ExitCalled
      /\ brace' = brace /\ Len(ctx) = Len(top) + 1 /\ Len(top) \in Nat
  <2>1. state = "reading" /\ state' = state BY DEF Include, Eval, RunFunc, Reading
  <2> QED BY <2>1, Entered DEF Include, Eval, RunFunc, TypeInv, TypeOK, block
<1>2. /\ functop \in Seq(Name) /\ Len(functop) \in Nat /\ Len(functop) <= MaxDefs /\ MaxDefs \in Nat
      /\ cur_func \in 0 .. Len(functop) /\ mark \in Seq(Nat) /\ cond \in Nat /\ frames \in Seq(Def)
  BY <1>1 DEF TypeOK, CallsAssumption
<1>3. CurrentFilename \in File \cup Name /\ CurrentFileSize \in Size /\ gsize \in Size /\ gfd \in Fd \cup {NoFd}
  BY <1>1 DEF TypeOK, Size
<1>4. ASSUME NEW f \in File, Include(f) PROVE TypeInv'
  <2>1. top' \in Seq(Entry) /\ Len(top') = Len(top) + 1 BY <1>1, <1>3, <1>4, PushTyped DEF Include
  <2>2. Fresh(maps) \in Fd /\ Fresh(open) \in Fd BY <1>4, FreshIs DEF Include
  <2>3. pa' = Mapped(f, Fresh(maps)) /\ gfd' = Fresh(open) /\ open' = open \cup {gfd'} /\ maps' = maps \cup {pa'.map}
    BY <1>4 DEF Include
  <2>4. pa' \in Text /\ pa'.map \in Fd /\ pa' \in [kind : {"file"}, id : File, map : Fd]
    BY <2>2, <2>3 DEF Mapped, Text
  <2>5. open' \subseteq Fd /\ maps' \subseteq Fd BY <1>1, <2>2, <2>3, <2>4 DEF TypeOK
  <2>6. cur_func \in Nat BY <1>2
  <2>7. Context("include", cur_func, pa') \in Ctx BY <1>1, <2>4, <2>6, ContextTyped
  <2>8. ctx' = Append(ctx, Context("include", cur_func, pa')) BY <1>4 DEF Include
  <2>9. ctx' \in Seq(Ctx) /\ Len(ctx') = Len(ctx) + 1 BY <2>7, <2>8, Pushed
  <2>10. /\ gsize' = f /\ CurrentFilename' = f /\ CurrentFileSize' = f /\ gsb' = f /\ UNCHANGED <<call, block>>
    BY <1>4 DEF Include
  <2> QED BY <1>1, <1>2, <2>1, <2>2, <2>3, <2>4, <2>5, <2>9, <2>10 DEF TypeInv, TypeOK, call, block, Text, Entry
<1>5. CASE Eval
  <2>1. top' \in Seq(Entry) /\ Len(top') = Len(top) + 1 BY <1>1, <1>3, <1>5, PushTyped DEF Eval
  <2>2. String \in Text BY DEF Text
  <2>3. cur_func \in Nat BY <1>2
  <2>4. Context("eval", cur_func, String) \in Ctx BY <1>1, <2>2, <2>3, ContextTyped
  <2>5. ctx' \in Seq(Ctx) /\ Len(ctx') = Len(ctx) + 1 BY <1>5, <2>4, Pushed DEF Eval
  <2>6. mark' \in Seq(Nat) BY <1>2, <1>5, AppendProperties DEF Eval, PushCondMatchMarks
  <2>7. gsize' = 0 /\ 0 \in 0 .. MaxDefs /\ pa' = String /\ eval_mode' = TRUE BY <1>2, <1>5 DEF Eval
  <2>8. UNCHANGED <<gfd, CurrentFilename, CurrentFileSize, gsb, cur_func, frames, cond, brace, open, maps, functop, state, ExitCalled>>
    BY <1>5 DEF Eval, disk
  <2> QED BY <1>1, <1>2, <2>1, <2>2, <2>5, <2>6, <2>7, <2>8 DEF TypeInv, TypeOK, Text, Entry
<1>6. ASSUME NEW name \in Name, RunFunc(name) PROVE TypeInv'
  <2> DEFINE d == FindFunc(name)
  <2>1. d # 0 /\ cur_func' = d /\ pa' = Body(d) /\ gsize' = d /\ frames' = Append(frames, d)
        /\ ctx' = Append(ctx, Context("call", d, Body(d)))
    BY <1>6 DEF RunFunc
  <2>2. d \in 0 .. Len(functop) BY <1>2, FindFuncIs
  <2> HIDE DEF d
  <2>3. d \in Def /\ d \in 0 .. MaxDefs /\ d \in Nat BY <1>2, <2>1, <2>2 DEF Def
  <2>4. Body(d) \in Text BY <2>3 DEF Body, Text
  <2>5. top' \in Seq(Entry) /\ Len(top') = Len(top) + 1
    <3>1. CASE cur_func # 0
      <4>1. functop[cur_func] \in File \cup Name BY <1>2, <3>1
      <4>2. FilePush(functop[cur_func], gsize, NoFd) BY <1>6, <3>1 DEF RunFunc
      <4>3. NoFd \in Fd \cup {NoFd} OBVIOUS
      <4> QED BY <1>1, <1>3, <4>1, <4>2, <4>3, PushTyped
    <3>2. CASE cur_func = 0
      <4>1. FilePush(CurrentFilename, CurrentFileSize, gfd) BY <1>6, <3>2 DEF RunFunc
      <4> QED BY <1>1, <1>3, <4>1, PushTyped
    <3> QED BY <3>1, <3>2
  <2>6. Context("call", d, Body(d)) \in Ctx BY <1>1, <2>3, <2>4, ContextTyped
  <2>7. ctx' \in Seq(Ctx) /\ Len(ctx') = Len(ctx) + 1 BY <2>1, <2>6, Pushed
  <2>8. mark' \in Seq(Nat) BY <1>2, <1>6, AppendProperties DEF RunFunc, PushCondMatchMarks
  <2>9. frames' \in Seq(Def) BY <1>2, <2>1, <2>3, AppendProperties
  <2>10. UNCHANGED <<gfd, CurrentFilename, CurrentFileSize, gsb, eval_mode, cond, brace, open, maps, functop, state, ExitCalled>>
    BY <1>6 DEF RunFunc, disk
  <2> QED BY <1>1, <1>2, <2>1, <2>2, <2>3, <2>4, <2>5, <2>7, <2>8, <2>9, <2>10 DEF TypeInv, TypeOK, Text, Entry
<1> QED BY <1>4, <1>5, <1>6

LEMMA LeaveTypes ==
    ASSUME CallsAssumption, TypeInv, IncludeMissing \/ EndText \/ Exit \/ EndPage PROVE TypeInv'
<1>1. TypeOK /\ state # "over" /\ Len(top) \in Nat /\ 0 \in Nat
  <2>1. state \in {"reading", "end"} BY DEF IncludeMissing, EndText, Exit, EndPage, Reading
  <2>2. TypeOK /\ Len(top) \in Nat BY DEF TypeInv, TypeOK
  <2> QED BY <2>1, <2>2
<1>2. NULL \in Text BY DEF Text
<1>3. CASE IncludeMissing
  BY <1>1, <1>3 DEF IncludeMissing, TypeInv, TypeOK, texts, call, block, disk, Text, Entry
<1>4. CASE EndText
  BY <1>1, <1>4 DEF EndText, TypeInv, TypeOK, texts, call, block, disk, Text, Entry, Reading
<1>5. CASE Exit
  <2>1. open' \subseteq Fd /\ maps' \subseteq Fd BY <1>1, <1>5 DEF Exit, Unmap, TypeOK
  <2> QED BY <1>1, <1>2, <1>5, <2>1 DEF Exit, TypeInv, TypeOK, texts, call, block, Text, Entry, Reading
<1>6. CASE EndPage
  <2>1. open' \subseteq Fd /\ maps' \subseteq Fd BY <1>1, <1>6 DEF EndPage, Unmap, TypeOK, disk
  <2>2. ctx' = << >> /\ << >> \in Seq(Ctx) /\ Len(<< >>) = 0 BY <1>6 DEF EndPage
  <2> QED BY <1>1, <1>2, <1>6, <2>1, <2>2 DEF EndPage, TypeInv, TypeOK, call, block, Text, Entry
<1> QED BY <1>3, <1>4, <1>5, <1>6

(* The stacks a text leaves.                                               *)
LEMMA CutIs == ASSUME NEW length \in Nat, NEW marks \in Seq(Nat) PROVE Cut(length, marks) \in Nat
<1>1. CASE marks = << >> BY <1>1 DEF Cut
<1>2. CASE marks # << >>
  <2>1. Last(marks) \in Nat BY <1>2, PopPush
  <2> QED BY <1>2, <2>1 DEF Cut
<1> QED BY <1>1, <1>2

LEMMA DropIs == ASSUME NEW S, NEW s \in Seq(S) PROVE Drop(s) \in Seq(S)
BY PopPush DEF Drop

LEMMA PopTypes == ASSUME CallsAssumption, TypeInv, FilePop PROVE TypeInv'
<1> DEFINE s == Last(top)
           marks == IF cur_func # 0 THEN Drop(mark) ELSE mark
           length == IF cur_func # 0 THEN Cut(cond, mark) ELSE cond
<1>1. TypeOK /\ state = "end" /\ top \in Seq(Entry) /\ top # << >> BY DEF TypeInv, TypeOK, FilePop
<1>2. s \in Entry /\ Front(top) \in Seq(Entry) /\ Len(Front(top)) = Len(top) - 1 /\ Len(top) \in Nat BY <1>1, PopPush
<1>3. /\ functop \in Seq(Name) /\ Len(functop) \in Nat /\ Len(functop) <= MaxDefs /\ MaxDefs \in Nat
      /\ cur_func \in 0 .. Len(functop) /\ mark \in Seq(Nat) /\ cond \in Nat /\ frames \in Seq(Def)
  BY <1>1 DEF TypeOK, CallsAssumption
<1>4. marks \in Seq(Nat) /\ length \in Nat BY <1>3, CutIs, DropIs
<1>5. /\ pa' = s.pa /\ gfd' = s.fd /\ frames' = IF cur_func # 0 THEN Drop(frames) ELSE frames
      /\ eval_mode' = FALSE
      /\ cond' = IF eval_mode THEN Cut(length, marks) ELSE length
      /\ mark' = IF eval_mode THEN Drop(marks) ELSE marks
      /\ top' = Front(top) /\ state' = Resume /\ ctx' = Front(ctx) /\ UNCHANGED <<gsb, brace, functop, ExitCalled>>
  BY DEF FilePop
<1>6. \/ /\ cur_func' = FindFunc(s.filename) /\ gsize' = (IF cur_func' # 0 THEN cur_func' ELSE s.size)
         /\ UNCHANGED <<CurrentFilename, CurrentFileSize>>
      \/ cur_func' = 0 /\ gsize' = s.size /\ CurrentFilename' = s.filename /\ CurrentFileSize' = s.size
      \/ gsize' = s.size /\ UNCHANGED <<cur_func, CurrentFilename, CurrentFileSize>>
  BY DEF FilePop
<1>7. open' \subseteq Fd /\ maps' \subseteq Fd
  <2>1. open' \subseteq open /\ maps' \subseteq maps BY DEF FilePop, Unmap, disk
  <2> QED BY <1>1, <2>1 DEF TypeOK
<1> HIDE DEF s, marks, length
<1>8. s.pa \in Text /\ s.size \in Size /\ s.fd \in Fd \cup {NoFd} /\ s.filename \in File \cup Name
  BY <1>2 DEF Entry, Size
<1>9. cond' \in Nat /\ mark' \in Seq(Nat) /\ frames' \in Seq(Def) BY <1>3, <1>4, <1>5, CutIs, DropIs
<1>10. cur_func' \in 0 .. Len(functop) /\ gsize' \in Size
  <2>1. FindFunc(s.filename) \in 0 .. Len(functop) BY <1>3, FindFuncIs
  <2>2. 0 .. Len(functop) \subseteq 0 .. MaxDefs /\ 0 \in 0 .. Len(functop) BY <1>3
  <2> QED BY <1>3, <1>6, <1>8, <2>1, <2>2 DEF Size
<1>11. CurrentFilename' \in File \cup Name /\ CurrentFileSize' \in Size BY <1>1, <1>6, <1>8 DEF TypeOK, Size
<1>12. ctx' \in Seq(Ctx) /\ Len(ctx') = Len(top') + 1 /\ state' \in {"reading", "end"}
  <2>1. Front(ctx) \in Seq(Ctx) /\ Len(Front(ctx)) = Len(ctx) - 1 /\ Len(ctx) = Len(top) + 1 BY <1>1, Entered
  <2>2. state' \in {"reading", "end"} BY <1>5 DEF Resume
  <2> QED BY <1>2, <1>5, <2>1, <2>2
<1>13. state' # "over" BY <1>12
<1> QED BY <1>1, <1>2, <1>5, <1>7, <1>8, <1>9, <1>10, <1>11, <1>12, <1>13 DEF TypeInv, TypeOK, Size

LEMMA TypeNext == ASSUME CallsAssumption, TypeInv, [Next]_vars PROVE TypeInv'
<1>1. CASE UNCHANGED vars
  BY <1>1 DEF vars, texts, call, block, disk, TypeInv, TypeOK, Text, Entry
<1>2. CASE Next
  BY <1>2, BlockTypes, DefineTypes, EnterTypes, LeaveTypes, PopTypes DEF Next, Statement
<1> QED BY <1>1, <1>2

LEMMA TypeInit == ASSUME CallsAssumption, Init PROVE TypeInv
<1>1. /\ 1 \in Fd /\ Page \in File /\ MaxDefs \in Nat BY DEF CallsAssumption, Fd
<1>2. Mapped(Page, 1) \in Text BY <1>1 DEF Mapped, Text
<1>3. Now \in NowType
  <2>1. Now = [pa |-> Mapped(Page, 1), gsize |-> Page, name |-> Page, size |-> Page, fn |-> 0, eval |-> FALSE,
               frames |-> << >>, cond |-> 0, marks |-> << >>]
    BY DEF Init, Now
  <2>2. << >> \in Seq(Def) /\ << >> \in Seq(Nat) /\ 0 \in Nat /\ FALSE \in BOOLEAN
        /\ Page \in Size /\ Page \in File \cup Name
    BY <1>1 DEF Size
  <2> QED BY <1>2, <2>1, <2>2 DEF NowType
<1>4. Context("page", 0, Mapped(Page, 1)) \in Ctx
  <2> HIDE DEF Now
  <2> QED BY <1>2, <1>3 DEF Context, Ctx
<1>5. ctx \in Seq(Ctx) /\ Len(ctx) = 1 BY <1>4 DEF Init
<1>6. TypeOK
  <2>1. top \in Seq(Entry) /\ functop \in Seq(Name) /\ frames \in Seq(Def) /\ mark \in Seq(Nat) /\ brace \in Seq(Block)
        /\ Len(top) = 0 /\ Len(functop) = 0
    BY DEF Init
  <2>2. pa \in Text /\ gsize \in File /\ gfd \in Fd /\ CurrentFilename \in File /\ CurrentFileSize \in File /\ gsb \in File
    BY <1>1, <1>2 DEF Init
  <2>3. cur_func = 0 /\ eval_mode = FALSE /\ cond = 0 /\ state = "reading" /\ ExitCalled = FALSE /\ open = {1} /\ maps = {1}
    BY DEF Init
  <2>4. cur_func \in 0 .. Len(functop) /\ Len(functop) <= MaxDefs /\ cond \in Nat BY <1>1, <2>1, <2>3
  <2>5. eval_mode \in BOOLEAN /\ ExitCalled \in BOOLEAN BY <2>3
  <2>6. state \in {"reading", "end", "over"} /\ state # "over" /\ open \subseteq Fd /\ maps \subseteq Fd BY <1>1, <2>3
  <2>7. Len(ctx) = IF state = "over" THEN 0 ELSE Len(top) + 1 BY <1>5, <2>1, <2>6
  <2> QED BY <2>1, <2>2, <2>4, <2>5, <2>6, <2>7 DEF TypeOK
<1> QED BY <1>5, <1>6 DEF TypeInv

(* No step leaves the types, whatever a program does, mixing of texts and   *)
(* returns and exits from anywhere among it: a text that is entered has an  *)
(* entry on the file stack until it is left.                                *)
THEOREM CallsTypeOK == Spec => []TypeOK
<1>1. Init => TypeInv BY CallsAssumption, TypeInit
<1>2. TypeInv /\ [Next]_vars => TypeInv' BY CallsAssumption, TypeNext
<1>3. TypeInv => TypeOK BY DEF TypeInv
<1> QED BY <1>1, <1>2, <1>3, PTL DEF Spec

-----------------------------------------------------------------------------
(* The nest of texts, as it grows and shrinks.                              *)
LEMMA NestedEnters ==
    ASSUME NEW cx \in Seq(Ctx), NEW tp \in Seq(Entry), NEW fs, NestedIn(cx, tp, fs), NEW c \in Ctx, NEW s \in Entry,
           Sound(c, fs), Enters(cx[Len(cx)], c), Saved(cx[Len(cx)], c, s, fs)
    PROVE  NestedIn(Append(cx, c), Append(tp, s), fs)
<1> DEFINE n == Len(cx)
           x == Append(cx, c)
           t == Append(tp, s)
<1>1. n \in Nat \ {0} /\ Len(tp) \in Nat /\ n = Len(tp) + 1 BY DEF NestedIn
<1>2. /\ x # << >> /\ Len(x) = n + 1 /\ x[n + 1] = c /\ \A i \in 1 .. n : x[i] = cx[i]
  BY AppendProperties
<1>3. Len(t) = Len(tp) + 1 /\ t[Len(tp) + 1] = s /\ \A i \in 1 .. Len(tp) : t[i] = tp[i] BY AppendProperties
<1> HIDE DEF x, t, n
<1>4. x[1].kind = "page" BY <1>1, <1>2 DEF NestedIn, n
<1>5. ASSUME NEW i \in 1 .. Len(x) PROVE Sound(x[i], fs)
  <2>1. i = n + 1 \/ i \in 1 .. n BY <1>1, <1>2
  <2> QED BY <1>2, <2>1 DEF NestedIn, n
<1>6. ASSUME NEW i \in 1 .. Len(x) - 1 PROVE Enters(x[i], x[i + 1]) /\ Saved(x[i], x[i + 1], t[i], fs)
  <2>1. CASE i = n BY <1>1, <1>2, <1>3, <2>1 DEF n
  <2>2. CASE i # n
    <3>1. i \in 1 .. n - 1 /\ i \in 1 .. n /\ i + 1 \in 1 .. n /\ i \in 1 .. Len(tp) BY <1>1, <1>2, <2>2
    <3>2. x[i] = cx[i] /\ x[i + 1] = cx[i + 1] /\ t[i] = tp[i] BY <1>2, <1>3, <3>1
    <3> QED BY <3>1, <3>2 DEF NestedIn, n
  <2> QED BY <2>1, <2>2
<1>7. Len(x) = Len(t) + 1 BY <1>1, <1>2, <1>3
<1>8. NestedIn(x, t, fs) BY <1>2, <1>4, <1>5, <1>6, <1>7 DEF NestedIn
<1> QED BY <1>8 DEF x, t

LEMMA NestedReplaces ==
    ASSUME NEW cx \in Seq(Ctx), NEW tp \in Seq(Entry), NEW fs, NestedIn(cx, tp, fs), NEW x \in Seq(Ctx),
           Len(x) = Len(cx), \A i \in 1 .. Len(cx) - 1 : x[i] = cx[i],
           x[Len(cx)].kind = cx[Len(cx)].kind, x[Len(cx)].fn = cx[Len(cx)].fn,
           x[Len(cx)].text = cx[Len(cx)].text, x[Len(cx)].seen = cx[Len(cx)].seen
    PROVE  NestedIn(x, tp, fs)
<1> DEFINE n == Len(cx)
<1>1. n \in Nat \ {0} BY DEF NestedIn
<1>2. x # << >> /\ Len(x) = n BY <1>1
<1>3. /\ \A i \in 1 .. n - 1 : x[i] = cx[i]
      /\ x[n].kind = cx[n].kind /\ x[n].fn = cx[n].fn /\ x[n].text = cx[n].text /\ x[n].seen = cx[n].seen
  OBVIOUS
<1>4. cx[1].kind = "page" /\ n = Len(tp) + 1 BY DEF NestedIn
<1>5. /\ \A i \in 1 .. n : Sound(cx[i], fs)
      /\ \A i \in 1 .. n - 1 : Enters(cx[i], cx[i + 1]) /\ Saved(cx[i], cx[i + 1], tp[i], fs)
  BY DEF NestedIn
<1> HIDE DEF n
<1>6. ASSUME NEW i \in 1 .. n
      PROVE x[i].kind = cx[i].kind /\ x[i].fn = cx[i].fn /\ x[i].text = cx[i].text /\ x[i].seen = cx[i].seen
  <2>1. i = n \/ i \in 1 .. n - 1 BY <1>1
  <2> QED BY <1>3, <2>1
<1>7. ASSUME NEW i \in 1 .. n PROVE Sound(x[i], fs) BY <1>5, <1>6 DEF Sound, OfFile
<1>8. ASSUME NEW i \in 1 .. n - 1 PROVE Enters(x[i], x[i + 1]) /\ Saved(x[i], x[i + 1], tp[i], fs)
  <2>1. i + 1 \in 1 .. n /\ x[i] = cx[i] BY <1>1, <1>3
  <2>2. x[i + 1].kind = cx[i + 1].kind /\ x[i + 1].seen = cx[i + 1].seen BY <1>6, <2>1
  <2> QED BY <1>5, <2>1, <2>2 DEF Enters, Saved
<1>9. x[1].kind = "page" BY <1>1, <1>4, <1>6
<1> QED BY <1>2, <1>4, <1>7, <1>8, <1>9 DEF NestedIn

LEMMA NestedLeaves ==
    ASSUME NEW cx \in Seq(Ctx), NEW tp \in Seq(Entry), NEW fs, NestedIn(cx, tp, fs), tp # << >>
    PROVE  LET n == Len(cx)
           IN  /\ NestedIn(Front(cx), Front(tp), fs) /\ n - 1 \in 1 .. n /\ cx[n - 1] \in Ctx /\ cx[n] \in Ctx
               /\ Last(Front(cx)) = cx[n - 1] /\ Last(tp) = tp[n - 1] /\ Last(tp) \in Entry
               /\ Enters(cx[n - 1], cx[n]) /\ Saved(cx[n - 1], cx[n], Last(tp), fs)
               /\ Sound(cx[n - 1], fs) /\ Sound(cx[n], fs)
<1> DEFINE n == Len(cx)
           x == Front(cx)
           t == Front(tp)
<1>1. n \in Nat /\ Len(tp) \in Nat \ {0} /\ n = Len(tp) + 1 /\ cx # << >> BY DEF NestedIn
<1>2. x \in Seq(Ctx) /\ Len(x) = n - 1 /\ \A i \in 1 .. n - 1 : x[i] = cx[i] BY <1>1, PopPush
<1>3. t \in Seq(Entry) /\ Len(t) = Len(tp) - 1 /\ (\A i \in 1 .. Len(tp) - 1 : t[i] = tp[i])
      /\ Last(tp) = tp[Len(tp)] /\ Last(tp) \in Entry
  BY PopPush
<1>4. /\ cx[1].kind = "page" /\ \A i \in 1 .. n : Sound(cx[i], fs)
      /\ \A i \in 1 .. n - 1 : Enters(cx[i], cx[i + 1]) /\ Saved(cx[i], cx[i + 1], tp[i], fs)
  BY DEF NestedIn
<1>5. n - 1 \in 1 .. n /\ n \in 1 .. n /\ n - 1 \in 1 .. n - 1 /\ (n - 1) + 1 = n /\ n - 1 = Len(tp) BY <1>1
<1>6. cx[n - 1] \in Ctx /\ cx[n] \in Ctx BY <1>5
<1> HIDE DEF n, x, t
<1>7. Last(x) = cx[n - 1] BY <1>2, <1>5 DEF Last
<1>8. NestedIn(x, t, fs)
  <2>1. x # << >> /\ x[1].kind = "page" /\ Len(x) = Len(t) + 1 BY <1>1, <1>2, <1>3, <1>4, <1>5
  <2>2. ASSUME NEW i \in 1 .. Len(x) PROVE Sound(x[i], fs)
    <3>1. i \in 1 .. n /\ i \in 1 .. n - 1 BY <1>1, <1>2
    <3> QED BY <1>2, <1>4, <3>1
  <2>3. ASSUME NEW i \in 1 .. Len(x) - 1 PROVE Enters(x[i], x[i + 1]) /\ Saved(x[i], x[i + 1], t[i], fs)
    <3>1. i \in 1 .. n - 1 /\ i + 1 \in 1 .. n - 1 /\ i \in 1 .. Len(tp) - 1 BY <1>1, <1>2
    <3>2. x[i] = cx[i] /\ x[i + 1] = cx[i + 1] /\ t[i] = tp[i] BY <1>2, <1>3, <3>1
    <3> QED BY <1>4, <3>1, <3>2
  <2> QED BY <2>1, <2>2, <2>3 DEF NestedIn
<1>9. Enters(cx[n - 1], cx[n]) /\ Saved(cx[n - 1], cx[n], tp[n - 1], fs)
  <2>1. Enters(cx[n - 1], cx[(n - 1) + 1]) /\ Saved(cx[n - 1], cx[(n - 1) + 1], tp[n - 1], fs) BY <1>4, <1>5
  <2> QED BY <1>5, <2>1
<1>10. Sound(cx[n - 1], fs) /\ Sound(cx[n], fs) BY <1>4, <1>5
<1>11. Last(tp) = tp[n - 1] BY <1>3, <1>5
<1> QED BY <1>3, <1>5, <1>6, <1>7, <1>8, <1>9, <1>10, <1>11 DEF n, x, t

(* A function that is not being executed is defined anew.                   *)
LEMMA NestedDefines ==
    ASSUME NEW cx \in Seq(Ctx), NEW tp \in Seq(Entry), NEW fs \in Seq(Name), NestedIn(cx, tp, fs), NEW name \in Name,
           \A i \in DOMAIN cx : cx[i].kind = "call" => fs[cx[i].fn] # name
    PROVE  NestedIn(cx, tp, Append(fs, name))
<1> DEFINE gs == Append(fs, name)
<1>1. Len(fs) \in Nat /\ DOMAIN fs = 1 .. Len(fs) /\ DOMAIN cx = 1 .. Len(cx) /\ Len(cx) \in Nat OBVIOUS
<1>2. /\ gs \in Seq(Name) /\ Len(gs) = Len(fs) + 1 /\ gs[Len(fs) + 1] = name /\ DOMAIN gs = 1 .. Len(fs) + 1
      /\ \A d \in 1 .. Len(fs) : gs[d] = fs[d]
  BY AppendProperties, LenProperties
<1> HIDE DEF gs
<1>3. ASSUME NEW i \in 1 .. Len(cx) PROVE Sound(cx[i], gs) /\ (cx[i].kind = "call" => gs[cx[i].fn] = fs[cx[i].fn])
  <2>1. Sound(cx[i], fs) BY DEF NestedIn
  <2>2. ASSUME cx[i].kind = "call"
        PROVE  /\ cx[i].fn \in DOMAIN gs /\ Finds(gs, gs[cx[i].fn]) = cx[i].fn
               /\ gs[cx[i].fn] = fs[cx[i].fn]
    <3>1. cx[i].fn \in 1 .. Len(fs) /\ Finds(fs, fs[cx[i].fn]) = cx[i].fn /\ fs[cx[i].fn] # name
      BY <1>1, <2>1, <2>2 DEF Sound
    <3>2. gs[cx[i].fn] = fs[cx[i].fn] BY <1>2, <3>1
    <3>3. {d \in DOMAIN gs : gs[d] = fs[cx[i].fn]} = {d \in DOMAIN fs : fs[d] = fs[cx[i].fn]}
      <4>1. ASSUME NEW d \in DOMAIN gs, gs[d] = fs[cx[i].fn] PROVE d \in DOMAIN fs /\ fs[d] = fs[cx[i].fn]
        <5>1. d # Len(fs) + 1 BY <1>2, <3>1, <4>1
        <5>2. d \in 1 .. Len(fs) BY <1>1, <1>2, <5>1
        <5> QED BY <1>1, <1>2, <4>1, <5>2
      <4>2. ASSUME NEW d \in DOMAIN fs, fs[d] = fs[cx[i].fn] PROVE d \in DOMAIN gs /\ gs[d] = fs[cx[i].fn]
        BY <1>1, <1>2, <4>2
      <4> QED BY <4>1, <4>2
    <3>4. cx[i].fn \in DOMAIN gs BY <1>1, <1>2, <3>1
    <3> QED BY <3>1, <3>2, <3>3, <3>4 DEF Finds
  <2> QED BY <2>1, <2>2 DEF Sound
<1>4. ASSUME NEW i \in 1 .. Len(cx) - 1 PROVE Saved(cx[i], cx[i + 1], tp[i], gs)
  <2>1. Saved(cx[i], cx[i + 1], tp[i], fs) BY DEF NestedIn
  <2>2. i \in 1 .. Len(cx) BY <1>1
  <2>3. cx[i].kind = "call" => gs[cx[i].fn] = fs[cx[i].fn] BY <1>3, <2>2
  <2> QED BY <2>1, <2>3 DEF Saved
<1>5. NestedIn(cx, tp, gs) BY <1>3, <1>4 DEF NestedIn
<1> QED BY <1>5 DEF gs

LEMMA SavedAdds ==
    ASSUME NEW tp \in Seq(Entry), NEW s \in Entry
    PROVE  FdsOf(Append(tp, s)) = FdsOf(tp) \cup {s.fd} /\ MapsOf(Append(tp, s)) = MapsOf(tp) \cup {s.pa.map}
<1> DEFINE t == Append(tp, s)
           n == Len(tp)
<1>1. n \in Nat /\ DOMAIN tp = 1 .. n OBVIOUS
<1>2. DOMAIN t = 1 .. n + 1 /\ t[n + 1] = s /\ \A i \in 1 .. n : t[i] = tp[i] BY AppendProperties, LenProperties
<1> HIDE DEF t, n
<1>3. \A i \in 1 .. n + 1 : i = n + 1 \/ i \in 1 .. n BY <1>1
<1>4. n + 1 \in 1 .. n + 1 /\ \A i \in 1 .. n : i \in 1 .. n + 1 BY <1>1
<1>5. FdsOf(t) = FdsOf(tp) \cup {s.fd} BY <1>1, <1>2, <1>3, <1>4 DEF FdsOf
<1>6. MapsOf(t) = MapsOf(tp) \cup {s.pa.map} BY <1>1, <1>2, <1>3, <1>4 DEF MapsOf
<1> QED BY <1>5, <1>6 DEF t

LEMMA SavedTakes ==
    ASSUME NEW tp \in Seq(Entry), tp # << >>
    PROVE  FdsOf(tp) = FdsOf(Front(tp)) \cup {Last(tp).fd} /\ MapsOf(tp) = MapsOf(Front(tp)) \cup {Last(tp).pa.map}
<1> DEFINE f == Front(tp)
           l == Last(tp)
<1>1. f \in Seq(Entry) /\ l \in Entry /\ tp = Append(f, l) BY PopPush
<1> HIDE DEF f, l
<1>2. FdsOf(Append(f, l)) = FdsOf(f) \cup {l.fd} /\ MapsOf(Append(f, l)) = MapsOf(f) \cup {l.pa.map} BY <1>1, SavedAdds
<1> QED BY <1>1, <1>2 DEF f, l

-----------------------------------------------------------------------------
(* Where the program is when it executes a statement.                       *)
LEMMA Where ==
    ASSUME CallsAssumption, CallInv, state # "over"
    PROVE  /\ TypeInv /\ TypeOK /\ NestedIn(ctx, top, functop) /\ Within /\ OnDisk
           /\ ctx \in Seq(Ctx) /\ top \in Seq(Entry) /\ functop \in Seq(Name) /\ Len(ctx) \in Nat \ {0}
           /\ Len(ctx) \in DOMAIN ctx /\ This = ctx[Len(ctx)] /\ This \in Ctx /\ This.seen \in NowType
           /\ This.blocks \in Seq(Block) /\ This.text \in Text /\ Sound(This, functop)
           /\ Now \in NowType /\ (state = "reading" => ~ExitCalled)
<1>1. TypeInv /\ TypeOK /\ NestedIn(ctx, top, functop) /\ Within /\ OnDisk BY DEF CallInv, TypeInv
<1>2. /\ This \in Ctx /\ This = ctx[Len(ctx)] /\ Len(ctx) \in Nat \ {0} BY <1>1, Entered
<1>3. /\ ctx \in Seq(Ctx) /\ top \in Seq(Entry) /\ functop \in Seq(Name) BY <1>1 DEF TypeInv, TypeOK
<1>4. Len(ctx) \in 1 .. Len(ctx) /\ DOMAIN ctx = 1 .. Len(ctx) BY <1>2, <1>3
<1>5. Sound(This, functop) BY <1>1, <1>2, <1>4 DEF NestedIn
<1>6. Now \in NowType BY <1>1, NowTyped
<1>7. This.seen \in NowType /\ This.blocks \in Seq(Block) /\ This.text \in Text BY <1>2 DEF Ctx
<1> QED BY <1>1, <1>2, <1>3, <1>4, <1>5, <1>6, <1>7 DEF CallInv

(* The fields of Now.                                                      *)
LEMMA NowIs ==
    /\ Now.pa = pa /\ Now.gsize = gsize /\ Now.name = CurrentFilename /\ Now.size = CurrentFileSize
    /\ Now.fn = cur_func /\ Now.eval = eval_mode /\ Now.frames = frames /\ Now.cond = cond /\ Now.marks = mark
BY DEF Now

(* A statement that leaves the texts as they are.                           *)
LEMMA InvSame ==
    ASSUME CallsAssumption, CallInv, TypeInv', state = "reading", state' \in {"reading", "end"}, ExitCalled' = ExitCalled,
           UNCHANGED <<pa, gfd, top, ctx, functop, cur_func, eval_mode, disk>>, Now' = Now,
           state' = "end" => This.kind = "call" \/ This.blocks = << >>
    PROVE  CallInv'
<1>1. state # "over" BY DEF CallInv
<1>2. NestedIn(ctx, top, functop) /\ Within /\ OnDisk /\ ~ExitCalled BY <1>1, Where
<1>3. UNCHANGED <<open, maps>> BY DEF disk
<1>4. This' = This /\ top' = top BY DEF This
<1>5. Within'
  <2> HIDE DEF Now, This
  <2> QED BY <1>2, <1>4 DEF Within
<1>6. OnDisk' BY <1>2, <1>3, <1>4 DEF OnDisk
<1>7. NestedIn(ctx, top, functop)' BY <1>2
<1>8. state' # "over" OBVIOUS
<1> QED BY <1>2, <1>5, <1>6, <1>7, <1>8 DEF CallInv

LEMMA EndTextKeeps ==
    ASSUME CallsAssumption, Careful, CallInv, TypeInv', IncludeMissing \/ EndText PROVE CallInv'
<1>1. state = "reading" /\ state # "over" /\ ~ExitCalled
  <2>1. state = "reading" BY DEF IncludeMissing, EndText, Reading
  <2> QED BY <2>1, Where
<1>2. This.kind \in {"page", "include", "eval", "call"} BY <1>1, Where DEF Ctx
<1>3. CASE IncludeMissing
  <2>1. "missing file" \in Avoided BY DEF Careful
  <2>2. CurrentFileSize' = CurrentFileSize /\ UNCHANGED <<pa, CurrentFilename, gsize, gfd, cur_func, eval_mode, frames, cond, mark>>
    BY <1>3, <2>1 DEF IncludeMissing, call, block
  <2>3. Now' = Now BY <2>2 DEF Now
  <2>4. state' = state /\ UNCHANGED <<ExitCalled, top, ctx, functop, disk>> BY <1>3 DEF IncludeMissing
  <2> HIDE DEF Now
  <2> QED BY <1>1, <2>2, <2>3, <2>4, InvSame
<1>4. CASE EndText
  <2>1. UNCHANGED <<texts, call, block, disk, top, functop, ExitCalled, ctx>> /\ state' = "end" BY <1>4 DEF EndText
  <2>2. Now' = Now BY <2>1 DEF Now, texts, call, block
  <2>3. This.kind = "call" \/ This.blocks = << >>
    <3>1. "unfinished text" \in Avoided BY DEF Careful
    <3> QED BY <1>4, <3>1 DEF EndText
  <2>4. UNCHANGED <<pa, gfd, cur_func, eval_mode>> BY <2>1 DEF texts, call
  <2> HIDE DEF Now
  <2> QED BY <1>1, <2>1, <2>2, <2>3, <2>4, InvSame
<1> QED BY <1>3, <1>4

LEMMA DefineKeeps ==
    ASSUME CallsAssumption, Careful, CallInv, TypeInv', NEW name \in Name, DefineFunc(name) PROVE CallInv'
<1>1. state = "reading" /\ state # "over" BY DEF DefineFunc, Reading
<1>2. /\ NestedIn(ctx, top, functop) /\ Within /\ OnDisk /\ ~ExitCalled /\ ctx \in Seq(Ctx) /\ top \in Seq(Entry)
      /\ functop \in Seq(Name)
  BY <1>1, Where
<1>3. UNCHANGED <<texts, call, block, disk, top, state, ExitCalled, ctx>> /\ functop' = Append(functop, name)
  BY DEF DefineFunc
<1>4. \A i \in DOMAIN ctx : ctx[i].kind = "call" => functop[ctx[i].fn] # name
  <2>1. "redefinition" \in Avoided BY DEF Careful
  <2> QED BY <2>1 DEF DefineFunc, Calling
<1>5. NestedIn(ctx, top, functop') BY <1>2, <1>3, <1>4, NestedDefines
<1>6. Now' = Now /\ This' = This BY <1>3 DEF Now, This, texts, call, block
<1>7. UNCHANGED <<pa, gfd, cur_func, eval_mode, open, maps>> BY <1>3 DEF texts, call, disk
<1>8. Within'
  <2> HIDE DEF Now, This
  <2> QED BY <1>2, <1>3, <1>6, <1>7 DEF Within
<1>9. OnDisk' BY <1>2, <1>3, <1>7 DEF OnDisk
<1> QED BY <1>1, <1>2, <1>3, <1>5, <1>8, <1>9 DEF CallInv

LEMMA BlockKeeps ==
    ASSUME CallsAssumption, CallInv, TypeInv', (\E b \in Block : OpenBlock(b)) \/ CloseBlock PROVE CallInv'
<1>1. state = "reading" /\ state # "over" BY DEF OpenBlock, CloseBlock, Reading
<1>2. /\ TypeInv /\ NestedIn(ctx, top, functop) /\ Within /\ OnDisk /\ ~ExitCalled /\ ctx \in Seq(Ctx) /\ top \in Seq(Entry)
      /\ This \in Ctx /\ This.blocks \in Seq(Block) /\ This = ctx[Len(ctx)] /\ This.seen \in NowType /\ cond \in Nat
  BY <1>1, Where DEF TypeOK
<1>3. UNCHANGED <<texts, call, disk, mark, top, functop, state, ExitCalled>> BY DEF OpenBlock, CloseBlock
<1>4. Fit(This, Now) BY <1>2 DEF Within
<1>5. cond = This.seen.cond + Len(This.blocks) /\ This.seen.cond \in Nat
  BY <1>2, <1>4, NowIs DEF Fit, NowType
<1>6. PICK bl \in Seq(Block) : /\ ctx' = Append(Front(ctx), [This EXCEPT !.blocks = bl])
                               /\ cond' = This.seen.cond + Len(bl)
  <2>1. CASE CloseBlock
    <3>1. /\ This.blocks # << >> /\ ctx' = Append(Front(ctx), [This EXCEPT !.blocks = Front(This.blocks)])
          /\ cond' = IF cond = 0 THEN 0 ELSE cond - 1
      BY <1>2, <2>1 DEF CloseBlock, Ctx
    <3>2. /\ Front(This.blocks) \in Seq(Block) /\ Len(Front(This.blocks)) = Len(This.blocks) - 1
          /\ Len(This.blocks) \in Nat \ {0}
      BY <1>2, <3>1, PopPush
    <3>3. cond' = This.seen.cond + Len(Front(This.blocks)) BY <1>5, <3>1, <3>2
    <3> QED BY <3>1, <3>2, <3>3
  <2>2. ASSUME NEW b \in Block, OpenBlock(b)
        PROVE  \E bl \in Seq(Block) : /\ ctx' = Append(Front(ctx), [This EXCEPT !.blocks = bl])
                                      /\ cond' = This.seen.cond + Len(bl)
    <3>1. ctx' = Append(Front(ctx), [This EXCEPT !.blocks = Append(This.blocks, b)]) /\ cond' = cond + 1
      BY <1>2, <2>2 DEF OpenBlock, Ctx
    <3>2. /\ Append(This.blocks, b) \in Seq(Block) /\ Len(Append(This.blocks, b)) = Len(This.blocks) + 1
          /\ Len(This.blocks) \in Nat
      BY <1>2, AppendProperties
    <3>3. cond' = This.seen.cond + Len(Append(This.blocks, b)) BY <1>5, <3>1, <3>2
    <3> QED BY <3>1, <3>2, <3>3
  <2> QED BY <2>1, <2>2
<1> DEFINE c == [This EXCEPT !.blocks = bl]
<1>7. /\ c \in Ctx /\ c.kind = This.kind /\ c.fn = This.fn /\ c.text = This.text /\ c.seen = This.seen /\ c.blocks = bl
  BY <1>2 DEF Ctx
<1>8. ctx' = Append(Front(ctx), c) BY <1>6
<1> HIDE DEF c
<1>9. /\ ctx' \in Seq(Ctx) /\ Len(ctx') = Len(ctx) /\ ctx'[Len(ctx)] = c /\ Last(ctx') = c
      /\ \A i \in 1 .. Len(ctx) - 1 : ctx'[i] = ctx[i]
  <2>1. TypeInv /\ state # "over" /\ c \in Ctx BY <1>1, <1>2, <1>7
  <2> QED BY <1>8, <2>1, Replaced
<1>10. NestedIn(ctx', top, functop) BY <1>2, <1>7, <1>9, NestedReplaces
<1>11. UNCHANGED <<pa, gsize, gfd, CurrentFilename, CurrentFileSize, cur_func, eval_mode, frames, mark, open, maps, top, functop, state, ExitCalled>>
  BY <1>3 DEF texts, call, disk
<1>12. This' = c BY <1>9 DEF This
<1>13. Fit(c, Now')
  <2>1. /\ Now'.pa = Now.pa /\ Now'.gsize = Now.gsize /\ Now'.name = Now.name /\ Now'.size = Now.size /\ Now'.fn = Now.fn
        /\ Now'.eval = Now.eval /\ Now'.frames = Now.frames /\ Now'.marks = Now.marks /\ Now'.cond = cond'
    BY <1>11 DEF Now
  <2> HIDE DEF Now, This
  <2> QED BY <1>4, <1>6, <1>7, <2>1 DEF Fit, OfFile, Executes
<1>14. Within'
  <2> HIDE DEF Now, This
  <2> QED BY <1>1, <1>2, <1>7, <1>11, <1>12, <1>13 DEF Within, OfFile, Executes
<1>15. OnDisk' BY <1>2, <1>11 DEF OnDisk
<1> QED BY <1>1, <1>2, <1>10, <1>11, <1>14, <1>15 DEF CallInv

-----------------------------------------------------------------------------
(* A text is entered from another.                                         *)
LEMMA EntersText ==
    ASSUME CallsAssumption, CallInv, TypeInv', state = "reading", state' = state, functop' = functop, ExitCalled' = ExitCalled,
           NEW kind \in {"include", "eval", "call"}, NEW fn \in Nat, NEW text \in Text,
           ctx' = Append(ctx, Context(kind, fn, text)), pa' = text, Sound(Context(kind, fn, text), functop),
           This.kind # "eval", kind \in {"include", "eval"} => OfFile(This),
           NEW s \in Entry, top' = Append(top, s), s.pa = pa,
           IF This.kind = "call" THEN s.fd = NoFd /\ s.filename = functop[This.fn]
           ELSE s.fd = gfd /\ s.filename = CurrentFilename /\ s.size = CurrentFileSize,
           cur_func' = (IF kind = "call" THEN fn ELSE 0), eval_mode' = (kind = "eval"), cond' = cond,
           mark' = (IF kind = "include" THEN mark ELSE Append(mark, cond)),
           frames' = (IF kind = "call" THEN Append(frames, fn) ELSE frames),
           kind = "call" => gsize' = fn, kind = "include" => gsize' = CurrentFileSize',
           kind # "include" => UNCHANGED <<CurrentFilename, CurrentFileSize, gfd, open, maps>>,
           kind = "include" => gfd' \in Fd /\ open' = open \cup {gfd'} /\ maps' = maps \cup {text.map}
    PROVE  CallInv'
<1> DEFINE c == Context(kind, fn, text)
<1>1. state # "over" OBVIOUS
<1>2. /\ TypeInv /\ TypeOK /\ NestedIn(ctx, top, functop) /\ Within /\ OnDisk /\ ~ExitCalled /\ ctx \in Seq(Ctx)
      /\ top \in Seq(Entry) /\ This \in Ctx /\ This = ctx[Len(ctx)]
  BY <1>1, Where
<1>3. /\ c \in Ctx /\ c.kind = kind /\ c.fn = fn /\ c.text = text /\ c.blocks = << >> /\ c.seen = Now
  BY <1>2, ContextTyped
<1>4. ctx' = Append(ctx, c) /\ Sound(c, functop) OBVIOUS
<1> HIDE DEF c
<1>5. Fit(This, Now) BY <1>2 DEF Within
<1>6. Enters(This, c) BY <1>3, <1>5 DEF Enters
<1>7. gfd \in Fd \/ This.kind = "call"
  <2>1. This.kind \in {"page", "include", "eval", "call"} BY <1>2 DEF Ctx
  <2> QED BY <1>2, <2>1 DEF Within, OfFile
<1>8. Saved(This, c, s, functop) BY <1>3, <1>7, NowIs DEF Saved
<1>9. NestedIn(ctx', top', functop') BY <1>2, <1>3, <1>4, <1>6, <1>8, NestedEnters
<1>10. This' = c BY <1>2, <1>3, <1>4, Pushed DEF This
<1>11. FdsOf(top') = FdsOf(top) \cup {s.fd} /\ MapsOf(top') = MapsOf(top) \cup {s.pa.map} BY <1>2, SavedAdds
<1>12. Fit(c, Now')
  <2>1. /\ Now'.pa = pa' /\ Now'.gsize = gsize' /\ Now'.name = CurrentFilename' /\ Now'.size = CurrentFileSize'
        /\ Now'.fn = cur_func' /\ Now'.eval = eval_mode' /\ Now'.frames = frames' /\ Now'.cond = cond' /\ Now'.marks = mark'
    BY DEF Now
  <2>2. /\ Now.name = CurrentFilename /\ Now.size = CurrentFileSize /\ Now.frames = frames /\ Now.cond = cond /\ Now.marks = mark
    BY NowIs
  <2>3. cond \in Nat /\ Len(<< >>) = 0 BY <1>2 DEF TypeOK
  <2>4. c.seen.cond + Len(c.blocks) = cond BY <1>3, <2>2, <2>3
  <2>5. OfFile(c) <=> kind = "include" BY <1>3 DEF OfFile
  <2> HIDE DEF Now, This
  <2> QED BY <1>3, <2>1, <2>2, <2>4, <2>5 DEF Fit, Executes
<1>13. gfd \in {NoFd} \cup FdsOf(top')
  <2>1. CASE This.kind = "call" BY <1>2, <1>11, <2>1 DEF Within, OfFile
  <2>2. CASE This.kind # "call" BY <1>11, <2>2
  <2> QED BY <2>1, <2>2
<1>14. Within'
  <2>1. OfFile(c) <=> kind = "include" BY <1>3 DEF OfFile
  <2>2. cur_func' = Executes(c) /\ eval_mode' = (c.kind = "eval") /\ pa' = c.text BY <1>3 DEF Executes
  <2>3. IF OfFile(c) THEN gfd' \in Fd ELSE gfd' \in {NoFd} \cup FdsOf(top') BY <1>13, <2>1
  <2>4. state' # "end" OBVIOUS
  <2> HIDE DEF Now, This
  <2> QED BY <1>10, <1>12, <2>2, <2>3, <2>4 DEF Within
<1>15. OnDisk'
  <2>1. pa' # NULL BY <1>3, <1>4 DEF Sound
  <2>2. maps \subseteq MapsOf(top') BY <1>2, <1>11 DEF OnDisk
  <2>3. open \subseteq FdsOf(top') \cup {gfd} BY <1>2, <1>11 DEF OnDisk
  <2>4. CASE kind = "include"
    <3>1. gfd \in FdsOf(top')
      <4>1. This.kind # "call" BY <2>4 DEF OfFile
      <4> QED BY <1>11, <4>1
    <3> QED BY <2>1, <2>2, <2>3, <2>4, <3>1 DEF OnDisk
  <2>5. CASE kind # "include" BY <2>1, <2>2, <2>3, <2>5 DEF OnDisk
  <2> QED BY <2>4, <2>5
<1>16. state' # "over" OBVIOUS
<1> QED BY <1>2, <1>9, <1>14, <1>15, <1>16 DEF CallInv

LEMMA OnlyFilesHere == ASSUME CallsAssumption, CallInv, state = "reading", OnlyFiles PROVE OfFile(This) /\ cur_func = 0 /\ ~eval_mode
<1>1. /\ Len(ctx) \in DOMAIN ctx /\ This = ctx[Len(ctx)] /\ Within
  <2>1. state # "over" OBVIOUS
  <2> QED BY <2>1, Where
<1>2. This.kind \in {"page", "include"} BY <1>1 DEF OnlyFiles
<1> QED BY <1>1, <1>2 DEF OfFile, Within, Executes

LEMMA IncludeKeeps ==
    ASSUME CallsAssumption, Careful, CallInv, TypeInv', NEW f \in File, Include(f) PROVE CallInv'
<1>1. state = "reading" /\ state # "over" BY DEF Include, Reading
<1>2. /\ TypeOK /\ Within /\ functop \in Seq(Name) BY <1>1, Where
<1>3. OfFile(This) /\ cur_func = 0 /\ ~eval_mode /\ This.kind \notin {"eval", "call"}
  <2>1. "mixing" \in Avoided BY DEF Careful
  <2>2. OnlyFiles BY <2>1 DEF Include
  <2> QED BY <1>1, <2>2, OnlyFilesHere DEF OfFile
<1> DEFINE s == [pa |-> pa, size |-> CurrentFileSize, fd |-> gfd, filename |-> CurrentFilename]
<1>4. top' = Append(top, s) BY DEF Include, FilePush
<1>5. s \in Entry BY <1>2 DEF TypeOK, Entry
<1>6. s.pa = pa /\ s.fd = gfd /\ s.filename = CurrentFilename /\ s.size = CurrentFileSize OBVIOUS
<1> HIDE DEF s
<1>7. Fresh(maps) \in Fd /\ Fresh(open) \in Fd BY FreshIs DEF Include
<1> DEFINE t == Mapped(f, Fresh(maps))
<1>8. t \in Text /\ t # NULL /\ t.map = Fresh(maps) BY <1>7 DEF Mapped, Text, NULL
<1>9. /\ pa' = t /\ gsize' = f /\ gfd' = Fresh(open) /\ open' = open \cup {gfd'} /\ maps' = maps \cup {pa'.map}
      /\ CurrentFilename' = f /\ CurrentFileSize' = f /\ ctx' = Append(ctx, Context("include", cur_func, pa'))
      /\ UNCHANGED <<call, block, functop, state, ExitCalled>>
  BY DEF Include
<1> HIDE DEF t
<1>10. ctx' = Append(ctx, Context("include", 0, t)) BY <1>3, <1>9
<1>11. Sound(Context("include", 0, t), functop) BY <1>8 DEF Sound, Context, OfFile
<1>12. /\ cur_func' = 0 /\ eval_mode' = FALSE /\ frames' = frames /\ cond' = cond /\ mark' = mark
  BY <1>2, <1>3, <1>9 DEF call, block, TypeOK
<1>13. gfd' \in Fd /\ open' = open \cup {gfd'} /\ maps' = maps \cup {t.map} BY <1>7, <1>9
<1> QED BY <1>1, <1>3, <1>4, <1>5, <1>6, <1>8, <1>9, <1>10, <1>11, <1>12, <1>13, EntersText

LEMMA EvalKeeps ==
    ASSUME CallsAssumption, Careful, CallInv, TypeInv', Eval PROVE CallInv'
<1>1. state = "reading" /\ state # "over" BY DEF Eval, Reading
<1>2. /\ TypeOK /\ Within /\ functop \in Seq(Name) BY <1>1, Where
<1>3. OfFile(This) /\ cur_func = 0 /\ ~eval_mode /\ This.kind \notin {"eval", "call"}
  <2>1. "mixing" \in Avoided BY DEF Careful
  <2>2. OnlyFiles BY <2>1 DEF Eval
  <2> QED BY <1>1, <2>2, OnlyFilesHere DEF OfFile
<1> DEFINE s == [pa |-> pa, size |-> CurrentFileSize, fd |-> gfd, filename |-> CurrentFilename]
<1>4. top' = Append(top, s) BY DEF Eval, FilePush
<1>5. s \in Entry BY <1>2 DEF TypeOK, Entry
<1>6. s.pa = pa /\ s.fd = gfd /\ s.filename = CurrentFilename /\ s.size = CurrentFileSize OBVIOUS
<1> HIDE DEF s
<1> DEFINE t == String
<1>7. t \in Text /\ t # NULL /\ t.map = 0 BY DEF String, NULL, Text
<1>8. /\ pa' = t /\ eval_mode' = TRUE /\ mark' = Append(mark, cond) /\ ctx' = Append(ctx, Context("eval", cur_func, t))
      /\ UNCHANGED <<gfd, CurrentFilename, CurrentFileSize, cur_func, frames, cond, open, maps, functop, state, ExitCalled>>
  BY DEF Eval, PushCondMatchMarks, disk
<1> HIDE DEF t
<1>9. ctx' = Append(ctx, Context("eval", 0, t)) /\ cur_func' = 0 BY <1>3, <1>8
<1>10. Sound(Context("eval", 0, t), functop) BY <1>7 DEF Sound, Context, OfFile
<1>11. /\ cond' = cond /\ frames' = frames /\ UNCHANGED <<CurrentFilename, CurrentFileSize, gfd, open, maps>>
       /\ functop' = functop /\ ExitCalled' = ExitCalled /\ state' = state
  BY <1>8
<1>12. cur_func' = 0 /\ eval_mode' = ("eval" = "eval") BY <1>8, <1>9
<1> HIDE DEF This
<1> QED BY <1>12, <1>1, <1>3, <1>4, <1>5, <1>6, <1>7, <1>8, <1>9, <1>10, <1>11, EntersText

LEMMA FindFuncFinds == ASSUME NEW name PROVE FindFunc(name) = Finds(functop, name)
BY DEF FindFunc, Finds

LEMMA RunFuncKeeps ==
    ASSUME CallsAssumption, Careful, CallInv, TypeInv', NEW name \in Name, RunFunc(name) PROVE CallInv'
<1>1. state = "reading" /\ state # "over" BY DEF RunFunc, Reading
<1>2. /\ TypeOK /\ Within /\ functop \in Seq(Name) /\ Len(ctx) \in DOMAIN ctx /\ This = ctx[Len(ctx)] /\ This \in Ctx
      /\ Sound(This, functop)
  BY <1>1, Where
<1>3. This.kind # "eval" /\ This.kind \in {"page", "include", "call"}
  <2>1. "mixing" \in Avoided BY DEF Careful
  <2> QED BY <1>2, <2>1 DEF RunFunc, Ctx
<1> DEFINE d == FindFunc(name)
<1>4. /\ d # 0 /\ cur_func' = d /\ pa' = Body(d) /\ gsize' = d /\ frames' = Append(frames, d) /\ mark' = Append(mark, cond)
      /\ ctx' = Append(ctx, Context("call", d, Body(d)))
      /\ UNCHANGED <<gfd, CurrentFilename, CurrentFileSize, eval_mode, cond, open, maps, functop, state, ExitCalled>>
  BY DEF RunFunc, PushCondMatchMarks, disk
<1>5. d \in DOMAIN functop /\ functop[d] = name /\ d \in 0 .. Len(functop) BY <1>2, <1>4, FindFuncIs
<1>51. Finds(functop, functop[d]) = d BY <1>5, FindFuncFinds
<1> HIDE DEF d
<1>6. d \in Def /\ d \in Nat
  <2>1. Len(functop) \in Nat /\ Len(functop) <= MaxDefs /\ MaxDefs \in Nat BY <1>2 DEF TypeOK, CallsAssumption
  <2> QED BY <1>4, <1>5, <2>1 DEF Def
<1>7. Body(d) \in Text /\ Body(d) # NULL /\ Body(d).map = 0 BY <1>6 DEF Body, Text, NULL
<1>8. Sound(Context("call", d, Body(d)), functop) BY <1>5, <1>51, <1>7 DEF Sound, Context, OfFile
<1>9. eval_mode' = FALSE BY <1>2, <1>3, <1>4 DEF Within, TypeOK
<1>10. PICK s \in Entry : /\ top' = Append(top, s) /\ s.pa = pa
                          /\ IF This.kind = "call" THEN s.fd = NoFd /\ s.filename = functop[This.fn]
                             ELSE s.fd = gfd /\ s.filename = CurrentFilename /\ s.size = CurrentFileSize
  <2>1. CASE This.kind = "call"
    <3>1. cur_func = This.fn /\ This.fn \in DOMAIN functop BY <1>2, <2>1 DEF Within, Executes, Sound
    <3>2. cur_func # 0 BY <1>2, <3>1
    <3> DEFINE s == [pa |-> pa, size |-> gsize, fd |-> NoFd, filename |-> functop[cur_func]]
    <3>3. top' = Append(top, s) BY <3>2 DEF RunFunc, FilePush
    <3>4. functop[cur_func] \in Name BY <1>2, <3>1
    <3>5. s \in Entry BY <1>2, <3>4 DEF TypeOK, Entry
    <3>6. s.pa = pa /\ s.fd = NoFd /\ s.filename = functop[cur_func] OBVIOUS
    <3> HIDE DEF s
    <3> QED BY <2>1, <3>1, <3>3, <3>5, <3>6
  <2>2. CASE This.kind # "call"
    <3>1. cur_func = 0 BY <1>2, <2>2 DEF Within, Executes
    <3> DEFINE s == [pa |-> pa, size |-> CurrentFileSize, fd |-> gfd, filename |-> CurrentFilename]
    <3>3. top' = Append(top, s) BY <3>1 DEF RunFunc, FilePush
    <3>5. s \in Entry BY <1>2 DEF TypeOK, Entry
    <3>6. s.pa = pa /\ s.fd = gfd /\ s.filename = CurrentFilename /\ s.size = CurrentFileSize OBVIOUS
    <3> HIDE DEF s
    <3> QED BY <2>2, <3>3, <3>5, <3>6
  <2> QED BY <2>1, <2>2
<1> QED BY <1>1, <1>3, <1>4, <1>6, <1>7, <1>8, <1>9, <1>10, EntersText

-----------------------------------------------------------------------------
(* A text is left for the one that entered it.                              *)
Under == ctx[Len(ctx) - 1]

LEMMA PopWhere ==
    ASSUME CallsAssumption, CallInv, FilePop
    PROVE  /\ state = "end" /\ TypeInv /\ TypeOK /\ Within /\ OnDisk /\ top # << >> /\ top \in Seq(Entry) /\ functop \in Seq(Name)
           /\ This \in Ctx /\ Under \in Ctx /\ Last(top) \in Entry /\ top' = Front(top) /\ functop' = functop /\ ctx' = Front(ctx)
           /\ NestedIn(ctx', top', functop') /\ This' = Under
           /\ Enters(Under, This) /\ Saved(Under, This, Last(top), functop) /\ Sound(Under, functop) /\ Sound(This, functop)
           /\ This.kind \in {"include", "eval", "call"} /\ Under.kind \in {"page", "include", "call"}
<1>1. state = "end" /\ state # "over" /\ top # << >> /\ top' = Front(top) /\ functop' = functop /\ ctx' = Front(ctx)
  BY DEF FilePop
<1>2. /\ TypeInv /\ TypeOK /\ NestedIn(ctx, top, functop) /\ Within /\ OnDisk /\ ctx \in Seq(Ctx) /\ top \in Seq(Entry)
      /\ functop \in Seq(Name) /\ This = ctx[Len(ctx)] /\ This \in Ctx
  BY <1>1, Where
<1>3. /\ NestedIn(Front(ctx), Front(top), functop) /\ ctx[Len(ctx) - 1] \in Ctx
      /\ Last(Front(ctx)) = ctx[Len(ctx) - 1] /\ Last(top) \in Entry
      /\ Enters(ctx[Len(ctx) - 1], ctx[Len(ctx)]) /\ Saved(ctx[Len(ctx) - 1], ctx[Len(ctx)], Last(top), functop)
      /\ Sound(ctx[Len(ctx) - 1], functop) /\ Sound(ctx[Len(ctx)], functop)
  BY <1>1, <1>2, NestedLeaves
<1>4. This' = Under BY <1>1, <1>3 DEF This, Under
<1>5. Enters(Under, This) BY <1>2, <1>3 DEF Under
<1>6. This.kind # "page" /\ Under.kind # "eval" BY <1>5 DEF Enters
<1>7. Under \in Ctx BY <1>3 DEF Under
<1>8. This.kind \in {"include", "eval", "call"} /\ Under.kind \in {"page", "include", "call"} BY <1>2, <1>6, <1>7 DEF Ctx
<1> QED BY <1>1, <1>2, <1>3, <1>4, <1>5, <1>7, <1>8 DEF Under

(* FilePop finds the modes of the text it goes back to, though all it has   *)
(* of a function is the name.                                               *)
LEMMA PopModes ==
    ASSUME CallsAssumption, CallInv, FilePop
    PROVE  /\ cur_func' = Executes(Under) /\ eval_mode' = FALSE /\ pa' = Under.text /\ gfd' = Last(top).fd
           /\ Under.kind = "call" => gsize' = (IF eval_mode THEN Last(top).size ELSE Under.fn)
           /\ Under.kind # "call" => gsize' = Last(top).size
           /\ Under.kind = "call" \/ eval_mode => UNCHANGED <<CurrentFilename, CurrentFileSize>>
           /\ Under.kind # "call" /\ ~eval_mode => CurrentFilename' = Last(top).filename /\ CurrentFileSize' = Last(top).size
<1> DEFINE s == Last(top)
<1>1. /\ Within /\ Enters(Under, This) /\ Saved(Under, This, s, functop) /\ Sound(Under, functop) /\ Sound(This, functop)
      /\ This.kind \in {"include", "eval", "call"} /\ Under.kind \in {"page", "include", "call"} /\ functop \in Seq(Name)
  BY PopWhere
<1>2. /\ pa' = s.pa /\ gfd' = s.fd /\ eval_mode' = FALSE
      /\ \/ /\ ~eval_mode /\ s.fd = NoFd
            /\ cur_func' = FindFunc(s.filename)
            /\ gsize' = IF cur_func' # 0 THEN cur_func' ELSE s.size
            /\ UNCHANGED <<CurrentFilename, CurrentFileSize>>
         \/ /\ ~eval_mode /\ s.fd # NoFd
            /\ cur_func' = 0
            /\ gsize' = s.size
            /\ CurrentFilename' = s.filename /\ CurrentFileSize' = s.size
         \/ /\ eval_mode
            /\ gsize' = s.size
            /\ UNCHANGED <<cur_func, CurrentFilename, CurrentFileSize>>
  BY DEF FilePop
<1> HIDE DEF s
<1>3. pa' = Under.text BY <1>1, <1>2 DEF Saved, Enters, Fit
<1>4. eval_mode = (This.kind = "eval") /\ cur_func = Executes(This) BY <1>1 DEF Within
<1>5. CASE This.kind = "eval"
  <2>1. OfFile(Under) /\ eval_mode /\ cur_func = 0 BY <1>1, <1>4, <1>5 DEF Enters, Executes
  <2>2. Under.kind # "call" /\ Executes(Under) = 0 BY <2>1 DEF OfFile, Executes
  <2> QED BY <1>2, <1>3, <2>1, <2>2 DEF s
<1>6. CASE This.kind # "eval" /\ Under.kind = "call"
  <2>1. s.fd = NoFd /\ s.filename = functop[Under.fn] BY <1>1, <1>6 DEF Saved
  <2>2. Finds(functop, functop[Under.fn]) = Under.fn /\ Under.fn \in DOMAIN functop BY <1>1, <1>6 DEF Sound
  <2>3. FindFunc(s.filename) = Under.fn BY <2>1, <2>2, FindFuncFinds
  <2>4. Under.fn # 0 BY <1>1, <2>2
  <2>5. Executes(Under) = Under.fn /\ ~eval_mode BY <1>4, <1>6 DEF Executes
  <2>6. /\ cur_func' = Under.fn /\ gsize' = (IF cur_func' # 0 THEN cur_func' ELSE s.size)
        /\ UNCHANGED <<CurrentFilename, CurrentFileSize>>
    BY <1>2, <2>1, <2>3, <2>5
  <2> QED BY <1>2, <1>3, <1>6, <2>4, <2>5, <2>6 DEF s
<1>7. CASE This.kind # "eval" /\ Under.kind # "call"
  <2>1. s.fd \in Fd BY <1>1, <1>7 DEF Saved
  <2>2. s.fd # NoFd BY <2>1 DEF Fd, NoFd
  <2>3. Executes(Under) = 0 /\ ~eval_mode BY <1>4, <1>7 DEF Executes
  <2> QED BY <1>2, <1>3, <1>7, <2>2, <2>3 DEF s
<1> QED BY <1>5, <1>6, <1>7

(* What the blocks of a text that was returned from left is cut off.        *)
LEMMA CutBack ==
    ASSUME NEW m \in Seq(Nat), NEW c \in Nat, NEW k \in Nat
    PROVE  Cut(c + k, Append(m, c)) = c /\ Drop(Append(m, c)) = m
<1>1. Append(m, c) # << >> /\ Last(Append(m, c)) = c /\ Front(Append(m, c)) = m BY PushPop
<1>2. c <= c + k OBVIOUS
<1> QED BY <1>1, <1>2 DEF Cut, Drop

LEMMA DropBack == ASSUME NEW f \in Seq(Def), NEW d \in Def PROVE Drop(Append(f, d)) = f
<1>1. Append(f, d) # << >> /\ Front(Append(f, d)) = f BY PushPop
<1> QED BY <1>1 DEF Drop

LEMMA PopResumes ==
    ASSUME CallsAssumption, CallInv, FilePop, ~ExitCalled
    PROVE  Now' = This.seen
<1> DEFINE s == Last(top)
           w == This.seen
<1>1. /\ Within /\ Enters(Under, This) /\ Saved(Under, This, s, functop) /\ Sound(Under, functop) /\ Sound(This, functop)
      /\ This.kind \in {"include", "eval", "call"} /\ Under.kind \in {"page", "include", "call"} /\ functop \in Seq(Name)
      /\ state = "end" /\ This \in Ctx /\ TypeOK
  BY PopWhere
<1>2. w \in NowType /\ This.blocks \in Seq(Block) /\ Len(This.blocks) \in Nat BY <1>1 DEF Ctx
<1>3. /\ w.pa = Under.text /\ w.fn = Executes(Under) /\ w.eval = FALSE
      /\ (Under.kind = "call" => w.gsize = Under.fn) /\ (Under.kind # "call" => w.gsize = w.size)
  BY <1>1 DEF Enters, Fit, OfFile
<1>4. Fit(This, Now) /\ (This.kind = "call" \/ This.blocks = << >>) BY <1>1 DEF Within
<1>5. /\ cond = w.cond + Len(This.blocks)
      /\ This.kind # "include" => CurrentFilename = w.name /\ CurrentFileSize = w.size
      /\ frames = (IF This.kind = "call" THEN Append(w.frames, This.fn) ELSE w.frames)
      /\ mark = (IF This.kind = "include" THEN w.marks ELSE Append(w.marks, w.cond))
  <2>1. OfFile(This) <=> This.kind = "include" BY <1>1 DEF OfFile
  <2>2. /\ Now.cond = w.cond + Len(This.blocks)
        /\ This.kind # "include" => Now.name = w.name /\ Now.size = w.size
        /\ Now.frames = (IF This.kind = "call" THEN Append(w.frames, This.fn) ELSE w.frames)
        /\ Now.marks = (IF This.kind = "include" THEN w.marks ELSE Append(w.marks, w.cond))
    BY <1>4, <2>1 DEF Fit
  <2> QED BY <2>2, NowIs
<1>6. w.cond \in Nat /\ w.marks \in Seq(Nat) /\ w.frames \in Seq(Def) BY <1>2 DEF NowType
<1>7. /\ eval_mode = (This.kind = "eval") /\ cur_func = Executes(This) BY <1>1 DEF Within
<1>8. This.kind = "call" => cur_func # 0 /\ cur_func = This.fn /\ This.fn \in Def
  <2>1. Len(functop) \in Nat /\ Len(functop) <= MaxDefs /\ MaxDefs \in Nat BY <1>1 DEF TypeOK, CallsAssumption
  <2> QED BY <1>1, <1>7, <2>1 DEF Sound, Executes, Def
<1>9. This.kind # "call" => cur_func = 0 BY <1>7 DEF Executes
<1>10. This.kind \in {"include", "eval"} => Under.kind # "call" BY <1>1 DEF Enters, OfFile
<1>11. Under.kind # "call" => s.filename = w.name /\ s.size = w.size BY <1>1 DEF Saved
<1>12. pa' = w.pa /\ cur_func' = w.fn /\ eval_mode' = w.eval BY <1>3, PopModes
<1>13. gsize' = w.gsize
  <2>1. CASE Under.kind = "call"
    <3>1. ~eval_mode BY <1>7, <1>10, <2>1
    <3> QED BY <1>3, <2>1, <3>1, PopModes
  <2>2. CASE Under.kind # "call" BY <1>3, <1>11, <2>2, PopModes
  <2> QED BY <2>1, <2>2
<1>14. CurrentFilename' = w.name /\ CurrentFileSize' = w.size
  <2>1. CASE Under.kind = "call" \/ eval_mode
    <3>1. This.kind # "include" BY <1>7, <1>10, <2>1
    <3> QED BY <1>5, <2>1, <3>1, PopModes
  <2>2. CASE ~(Under.kind = "call" \/ eval_mode) BY <1>11, <2>2, PopModes
  <2> QED BY <2>1, <2>2
<1>15. frames' = w.frames
  <2>1. frames' = IF cur_func # 0 THEN Drop(frames) ELSE frames BY DEF FilePop
  <2>2. CASE This.kind = "call" BY <1>5, <1>6, <1>8, <2>1, <2>2, DropBack
  <2>3. CASE This.kind # "call" BY <1>5, <1>9, <2>1, <2>3
  <2> QED BY <2>2, <2>3
<1>16. cond' = w.cond /\ mark' = w.marks
  <2> DEFINE marks == IF cur_func # 0 THEN Drop(mark) ELSE mark
             length == IF cur_func # 0 THEN Cut(cond, mark) ELSE cond
  <2>1. /\ cond' = (IF eval_mode THEN Cut(length, marks) ELSE length)
        /\ mark' = (IF eval_mode THEN Drop(marks) ELSE marks)
    BY DEF FilePop
  <2>2. CASE This.kind = "call"
    <3>1. length = Cut(w.cond + Len(This.blocks), Append(w.marks, w.cond)) /\ marks = Drop(Append(w.marks, w.cond)) /\ ~eval_mode
      BY <1>5, <1>7, <1>8, <2>2
    <3> HIDE DEF length, marks
    <3> QED BY <1>2, <1>6, <2>1, <3>1, CutBack
  <2>3. CASE This.kind = "eval"
    <3>1. length = w.cond + Len(This.blocks) /\ marks = Append(w.marks, w.cond) /\ eval_mode BY <1>5, <1>7, <1>9, <2>3
    <3> HIDE DEF length, marks
    <3> QED BY <1>2, <1>6, <2>1, <3>1, CutBack
  <2>4. CASE This.kind = "include"
    <3>1. length = cond /\ marks = w.marks /\ ~eval_mode BY <1>5, <1>7, <1>9, <2>4
    <3>2. cond = w.cond
      <4>1. This.blocks = << >> BY <1>4, <2>4
      <4>2. Len(This.blocks) = 0 BY <4>1
      <4> QED BY <1>5, <1>6, <4>2
    <3> HIDE DEF length, marks
    <3> QED BY <2>1, <3>1, <3>2
  <2> QED BY <1>1, <2>2, <2>3, <2>4
<1>17. /\ Now'.pa = pa' /\ Now'.gsize = gsize' /\ Now'.name = CurrentFilename' /\ Now'.size = CurrentFileSize'
       /\ Now'.fn = cur_func' /\ Now'.eval = eval_mode' /\ Now'.frames = frames' /\ Now'.cond = cond' /\ Now'.marks = mark'
       /\ Now' = [pa |-> pa', gsize |-> gsize', name |-> CurrentFilename', size |-> CurrentFileSize',
                  fn |-> cur_func', eval |-> eval_mode', frames |-> frames', cond |-> cond', marks |-> mark']
  BY DEF Now
<1>18. w = [pa |-> w.pa, gsize |-> w.gsize, name |-> w.name, size |-> w.size,
            fn |-> w.fn, eval |-> w.eval, frames |-> w.frames, cond |-> w.cond, marks |-> w.marks]
  <2> HIDE DEF w
  <2> QED BY <1>2 DEF NowType
<1> HIDE DEF w, Now
<1>19. Now' = w BY <1>12, <1>13, <1>14, <1>15, <1>16, <1>17, <1>18
<1> QED BY <1>19 DEF w

LEMMA PopKeeps ==
    ASSUME CallsAssumption, CallInv, TypeInv', FilePop PROVE CallInv'
<1> DEFINE s == Last(top)
<1>1. /\ Within /\ OnDisk /\ Enters(Under, This) /\ Saved(Under, This, s, functop) /\ Sound(Under, functop) /\ Sound(This, functop)
      /\ This.kind \in {"include", "eval", "call"} /\ Under.kind \in {"page", "include", "call"} /\ TypeOK
      /\ top \in Seq(Entry) /\ top # << >> /\ top' = Front(top) /\ This' = Under /\ NestedIn(ctx', top', functop')
  BY PopWhere
<1>2. /\ cur_func' = Executes(Under) /\ eval_mode' = FALSE /\ pa' = Under.text /\ gfd' = s.fd BY PopModes
<1>3. state' = Resume /\ ExitCalled' = ExitCalled /\ pa' = s.pa BY DEF FilePop
<1>4. Within'
  <2>1. IF OfFile(Under) THEN gfd' \in Fd ELSE gfd' \in {NoFd} \cup FdsOf(top')
    BY <1>1, <1>2 DEF Saved, OfFile
  <2>2. ASSUME ~ExitCalled' PROVE Fit(Under, Now') /\ state' # "end"
    <3>1. Now' = This.seen BY <1>3, <2>2, PopResumes
    <3> QED BY <1>1, <1>3, <2>2, <3>1 DEF Enters, Resume
  <2>3. eval_mode' = (Under.kind = "eval") BY <1>1, <1>2
  <2> HIDE DEF Now, This
  <2> QED BY <1>1, <1>2, <2>1, <2>2, <2>3 DEF Within
<1>5. OnDisk'
  <2>1. FdsOf(top) = FdsOf(top') \cup {s.fd} /\ MapsOf(top) = MapsOf(top') \cup {s.pa.map} BY <1>1, SavedTakes
  <2>2. pa' # NULL BY <1>1, <1>2 DEF Sound
  <2>3. /\ open \subseteq FdsOf(top) \cup (IF pa = NULL THEN {} ELSE {gfd})
        /\ maps \subseteq MapsOf(top) \cup (IF pa = NULL THEN {} ELSE {pa.map})
    BY <1>1 DEF OnDisk
  <2>4. open' \subseteq FdsOf(top) /\ maps' \subseteq MapsOf(top)
    <3>1. CASE s.fd # NoFd /\ pa # NULL /\ cur_func = 0 /\ ~eval_mode
      <4>1. Unmap BY <3>1 DEF FilePop
      <4> QED BY <2>3, <4>1 DEF Unmap
    <3>2. CASE ~(s.fd # NoFd /\ pa # NULL /\ cur_func = 0 /\ ~eval_mode)
      <4>1. UNCHANGED <<open, maps>> BY <3>2 DEF FilePop, disk
      <4>2. CASE pa = NULL BY <2>3, <4>1, <4>2
      <4>3. CASE pa # NULL
        <5>1. ~OfFile(This)
          <6>1. ASSUME OfFile(This) PROVE FALSE
            <7>1. This.kind = "include" BY <1>1, <6>1 DEF OfFile
            <7>2. cur_func = 0 /\ ~eval_mode BY <1>1, <7>1 DEF Within, Executes
            <7>3. s.fd \in Fd BY <1>1, <7>1 DEF Enters, OfFile, Saved
            <7>4. s.fd # NoFd BY <7>3 DEF Fd, NoFd
            <7> QED BY <3>2, <4>3, <7>2, <7>4
          <6> QED BY <6>1
        <5>2. gfd \in {NoFd} \cup FdsOf(top) /\ pa = This.text BY <1>1, <4>3, <5>1 DEF Within
        <5>3. pa.map = 0 BY <1>1, <5>1, <5>2 DEF Sound
        <5>4. NoFd \notin open /\ 0 \notin maps BY <1>1 DEF TypeOK, Fd, NoFd
        <5> QED BY <2>3, <4>1, <5>2, <5>3, <5>4
      <4> QED BY <4>2, <4>3
    <3> QED BY <3>1, <3>2
  <2> QED BY <1>2, <1>3, <2>1, <2>2, <2>4 DEF OnDisk
<1>6. state' # "over" /\ (ExitCalled' => state' # "reading") BY <1>3 DEF Resume
<1> QED BY <1>1, <1>4, <1>5, <1>6 DEF CallInv

LEMMA ExitKeeps ==
    ASSUME CallsAssumption, CallInv, TypeInv', Exit PROVE CallInv'
<1>1. state = "reading" /\ state # "over" BY DEF Exit, Reading
<1>2. NestedIn(ctx, top, functop) /\ Within /\ OnDisk BY <1>1, Where
<1>3. /\ ExitCalled' = TRUE /\ pa' = NULL /\ state' = "end" /\ maps' = maps \ {pa.map} /\ open' = open \ {gfd}
      /\ UNCHANGED <<gfd, cur_func, eval_mode, top, functop, ctx>>
  BY DEF Exit, Unmap, call
<1>4. This' = This BY <1>3 DEF This
<1>5. Within'
  <2> HIDE DEF Now, This
  <2> QED BY <1>2, <1>3, <1>4 DEF Within
<1>6. OnDisk' BY <1>2, <1>3 DEF OnDisk
<1> QED BY <1>2, <1>3, <1>5, <1>6 DEF CallInv

LEMMA EndPageKeeps ==
    ASSUME CallsAssumption, CallInv, TypeInv', EndPage PROVE CallInv'
<1>1. state = "end" /\ state # "over" /\ top = << >> BY DEF EndPage
<1>2. NestedIn(ctx, top, functop) /\ Within /\ OnDisk /\ This = ctx[Len(ctx)] BY <1>1, Where
<1>3. This.kind = "page"
  <2>1. Len(ctx) = 1 /\ ctx[1].kind = "page" BY <1>1, <1>2 DEF NestedIn
  <2> QED BY <1>2, <2>1
<1>4. cur_func = 0 /\ ~eval_mode BY <1>2, <1>3 DEF Within, Executes
<1>5. FdsOf(top) = {} /\ MapsOf(top) = {} BY <1>1 DEF FdsOf, MapsOf
<1>6. open' = {} /\ maps' = {}
  <2>1. CASE pa = NULL
    <3>1. UNCHANGED <<open, maps>> BY <2>1 DEF EndPage, disk
    <3> QED BY <1>2, <1>5, <2>1, <3>1 DEF OnDisk
  <2>2. CASE pa # NULL
    <3>1. Unmap BY <1>4, <2>2 DEF EndPage
    <3> QED BY <1>2, <1>5, <2>2, <3>1 DEF OnDisk, Unmap
  <2> QED BY <2>1, <2>2
<1>7. state' = "over" /\ ExitCalled' BY DEF EndPage
<1> QED BY <1>6, <1>7 DEF CallInv

LEMMA CallInit == ASSUME CallsAssumption, Init PROVE CallInv
<1> DEFINE c == Context("page", 0, Mapped(Page, 1))
<1>1. TypeInv /\ TypeOK BY TypeInit DEF TypeInv
<1>2. /\ pa = Mapped(Page, 1) /\ gsize = Page /\ gfd = 1 /\ CurrentFilename = Page /\ CurrentFileSize = Page
      /\ cur_func = 0 /\ eval_mode = FALSE /\ top = << >> /\ frames = << >> /\ cond = 0 /\ mark = << >>
      /\ state = "reading" /\ ExitCalled = FALSE /\ open = {1} /\ maps = {1} /\ ctx = << c >>
  BY DEF Init
<1>3. /\ c.kind = "page" /\ c.fn = 0 /\ c.text = pa /\ c.blocks = << >> /\ c.seen = Now BY <1>2 DEF Context
<1> HIDE DEF c
<1>4. Len(ctx) = 1 /\ ctx[1] = c /\ ctx # << >> /\ This = c /\ Len(top) = 0
  <2>1. Len(ctx) = 1 /\ ctx[1] = c /\ ctx # << >> /\ Len(top) = 0 BY <1>2
  <2> QED BY <2>1 DEF This, Last
<1>5. pa # NULL /\ pa.map = 1 BY <1>2 DEF Mapped, NULL
<1>6. Sound(c, functop) BY <1>3, <1>5 DEF Sound, OfFile
<1>7. NestedIn(ctx, top, functop)
  <2>1. \A i \in 1 .. Len(ctx) : ctx[i] = c BY <1>4
  <2>2. 1 .. Len(ctx) - 1 = {} BY <1>4
  <2> QED BY <1>3, <1>4, <1>6, <2>1, <2>2 DEF NestedIn
<1>8. Fit(c, Now)
  <2>1. OfFile(c) /\ Executes(c) = 0 /\ c.kind # "call" /\ c.kind # "eval" BY <1>3 DEF OfFile, Executes
  <2>2. Now.pa = c.text /\ Now.gsize = Now.size /\ Now.fn = 0 /\ Now.eval = FALSE BY <1>2, <1>3, NowIs
  <2>3. Now.cond = 0 /\ Len(c.blocks) = 0 BY <1>2, <1>3, NowIs
  <2>4. Now.cond = Now.cond + Len(c.blocks) BY <2>3
  <2> QED BY <1>3, <2>1, <2>2, <2>4 DEF Fit
<1>9. Within
  <2>1. gfd \in Fd BY <1>2 DEF Fd, CallsAssumption
  <2> HIDE DEF Now, This
  <2> QED BY <1>2, <1>3, <1>4, <1>8, <2>1 DEF Within, OfFile, Executes
<1>10. OnDisk BY <1>2, <1>5 DEF OnDisk
<1> QED BY <1>1, <1>2, <1>7, <1>9, <1>10 DEF CallInv

LEMMA CallNext == ASSUME CallsAssumption, Careful, CallInv, [Next]_vars PROVE CallInv'
<1>1. TypeInv' BY TypeNext DEF CallInv
<1>2. CASE UNCHANGED vars
  <2>1. UNCHANGED <<texts, call, block, disk, top, functop, state, ExitCalled, ctx>> BY <1>2 DEF vars
  <2>2. UNCHANGED <<pa, gsize, gfd, CurrentFilename, CurrentFileSize, cur_func, eval_mode, frames, cond, mark, open, maps>>
    BY <2>1 DEF texts, call, block, disk
  <2>3. Now' = Now /\ This' = This BY <2>1, <2>2 DEF Now, This
  <2>4. Within' <=> Within
    <3> HIDE DEF Now, This
    <3> QED BY <2>1, <2>2, <2>3 DEF Within
  <2>5. OnDisk' <=> OnDisk BY <2>1, <2>2 DEF OnDisk
  <2> QED BY <1>1, <2>1, <2>2, <2>4, <2>5 DEF CallInv
<1>3. CASE Next
  BY <1>1, <1>3, BlockKeeps, DefineKeeps, RunFuncKeeps, IncludeKeeps, EvalKeeps, EndTextKeeps, ExitKeeps, PopKeeps, EndPageKeeps
     DEF Next, Statement
<1> QED BY <1>2, <1>3

LEMMA CallAlways == ASSUME Careful PROVE Spec => []CallInv
<1>1. Init => CallInv BY CallsAssumption, CallInit
<1>2. CallInv /\ [Next]_vars => CallInv' BY CallsAssumption, CallNext
<1> QED BY <1>1, <1>2, PTL DEF Spec

(* When the page is over nothing is left open, however deep exit was called *)
(* and whatever was entered on the way.                                     *)
THEOREM CallsAllClosed ==
    ASSUME {"mixing", "unfinished text", "missing file", "redefinition"} \subseteq Avoided
    PROVE  Spec => []AllClosed
<1>1. Careful BY DEF Careful
<1>2. CallInv => AllClosed BY DEF CallInv, AllClosed
<1> QED BY <1>1, <1>2, CallAlways, PTL

(* Only the end of a text shortens the stack of those entered.              *)
LEMMA PopsResume ==
    ASSUME CallsAssumption, CallInv, [Next]_vars, Len(ctx') < Len(ctx), ~ExitCalled'
    PROVE  Now' = This.seen
<1>1. CASE FilePop
  <2>1. ~ExitCalled BY <1>1 DEF FilePop
  <2> QED BY <1>1, <2>1, PopResumes
<1>2. CASE EndPage BY <1>2 DEF EndPage
<1>3. CASE Statement \/ UNCHANGED vars
  <2>1. CASE UNCHANGED ctx
    <3>1. Len(ctx) \in Nat BY DEF CallInv, TypeInv
    <3> QED BY <2>1, <3>1
  <2>2. CASE \E c : ctx' = Append(ctx, c)
    <3>1. ctx \in Seq(Ctx) BY DEF CallInv, TypeInv
    <3>2. PICK c : ctx' = Append(ctx, c) BY <2>2
    <3>3. Len(ctx') = Len(ctx) + 1 /\ Len(ctx) \in Nat BY <3>1, <3>2
    <3> QED BY <3>3
  <2>3. CASE (\E b \in Block : OpenBlock(b)) \/ CloseBlock
    <3>1. state # "over" /\ TypeInv BY <2>3 DEF OpenBlock, CloseBlock, Reading, CallInv
    <3>2. Front(ctx) \in Seq(Ctx) /\ Len(Front(ctx)) = Len(ctx) - 1 /\ Len(ctx) \in Nat BY <3>1, Entered
    <3>3. PICK c : ctx' = Append(Front(ctx), c) BY <2>3 DEF OpenBlock, CloseBlock
    <3>4. Len(ctx') = Len(Front(ctx)) + 1 BY <3>2, <3>3
    <3> QED BY <3>2, <3>4
  <2>4. CASE UNCHANGED vars BY <2>1, <2>4 DEF vars
  <2>5. CASE Statement
    BY <2>1, <2>2, <2>3, <2>5
       DEF Statement, DefineFunc, RunFunc, Include, IncludeMissing, Eval, EndText, Exit
  <2> QED BY <1>3, <2>4, <2>5
<1> QED BY <1>1, <1>2, <1>3 DEF Next

(* Each text that is left, before exit, leaves everything the interpreter   *)
(* stands at as it was when the text was entered: the text and its size,    *)
(* the file's name, the function, the modes, the frames, the conditions.    *)
THEOREM CallsEachTextResumes ==
    ASSUME {"mixing", "unfinished text", "missing file", "redefinition"} \subseteq Avoided
    PROVE  Spec => EachTextResumes
<1>1. Careful BY DEF Careful
<1>2. CallInv /\ [Next]_vars => [Len(ctx') < Len(ctx) /\ ~ExitCalled' => Now' = This.seen]_vars
  BY CallsAssumption, PopsResume
<1> QED BY <1>1, <1>2, CallAlways, PTL DEF Spec, EachTextResumes

(* After exit no text is read on, whatever was being executed when it was   *)
(* called: the part of ExitEndsPage that is about each state (every         *)
(* yyparse() is followed by if(ExitCalled) state=99).                       *)
THEOREM CallsExitReadsNoMore == Spec => [](ExitCalled => ~Reading)
<1> DEFINE I == ExitCalled => state # "reading"
<1>1. Init => I BY DEF Init
<1>2. I /\ [Next]_vars => I'
  <2> SUFFICES ASSUME I, [Next]_vars PROVE I' OBVIOUS
  <2>1. CASE UNCHANGED vars BY <2>1 DEF vars
  <2>2. CASE Statement
    <3>1. state = "reading" /\ ~ExitCalled
      <4>1. state = "reading"
        BY <2>2 DEF Statement, OpenBlock, CloseBlock, DefineFunc, RunFunc, Include, IncludeMissing, Eval, EndText, Exit, Reading
      <4> QED BY <4>1
    <3>2. CASE Exit BY <3>2 DEF Exit
    <3>3. CASE ~Exit
      <4>1. ExitCalled' = ExitCalled
        BY <2>2, <3>3 DEF Statement, OpenBlock, CloseBlock, DefineFunc, RunFunc, Include, IncludeMissing, Eval, EndText
      <4> QED BY <3>1, <4>1
    <3> QED BY <3>2, <3>3
  <2>3. CASE FilePop BY <2>3 DEF FilePop, Resume
  <2>4. CASE EndPage BY <2>4 DEF EndPage
  <2> QED BY <2>1, <2>2, <2>3, <2>4 DEF Next
<1>3. I => (ExitCalled => ~Reading) BY DEF Reading
<1> QED BY <1>1, <1>2, <1>3, PTL DEF Spec
=============================================================================
