----------------------------- MODULE ScopesProofs -----------------------------
(***************************************************************************)
(* Proofs about Scopes, for any names, functions, parameters, values and    *)
(* depths: the types, that a careful program reads what a name denotes, and *)
(* that each of its steps is the language's (ScopeLanguage), which is what  *)
(* placeholders, the search and the moves of var_top are there to do.       *)
(***************************************************************************)
EXTENDS Scopes, SequenceTheorems, TLAPS

Scope == {"local", "global", "static"}
Held  == Value \cup {NoValue}

-----------------------------------------------------------------------------
(* Sequences used as stacks.                                               *)
LEMMA PushPop ==
    ASSUME NEW S, NEW s \in Seq(S), NEW e \in S
    PROVE  /\ Append(s, e) \in Seq(S)
           /\ Append(s, e) # << >>
           /\ Len(Append(s, e)) = Len(s) + 1
           /\ Front(Append(s, e)) = s
           /\ Last(Append(s, e)) = e
<1> DEFINE t == Append(s, e)
<1>1. t \in Seq(S) /\ t # << >> /\ Len(t) = Len(s) + 1
  BY AppendProperties
<1>2. Last(t) = e
  BY AppendProperties DEF Last
<1>3. Front(t) = SubSeq(t, 1, Len(s))
  BY <1>1, LenProperties DEF Front
<1>4. SubSeq(t, 1, Len(s)) = s
  BY <1>1, SMT
<1> QED BY <1>1, <1>2, <1>3, <1>4

LEMMA PopPush ==
    ASSUME NEW S, NEW s \in Seq(S), s # << >>
    PROVE  /\ Front(s) \in Seq(S)
           /\ Last(s) \in S
           /\ Len(s) \in Nat \ {0}
           /\ Len(Front(s)) = Len(s) - 1
           /\ s = Append(Front(s), Last(s))
           /\ Last(s) = s[Len(s)]
           /\ \A i \in 1..Len(s)-1 : Front(s)[i] = s[i]
<1>1. PICK t \in Seq(S), e \in S : s = Append(t, e)
  BY SequenceEmptyOrAppend
<1>2. Front(s) = t /\ Last(s) = e
  BY <1>1, PushPop
<1>3. /\ Len(t) \in Nat
      /\ Len(s) = Len(t) + 1
      /\ \A i \in 1..Len(t) : s[i] = t[i]
  BY <1>1, AppendProperties, LenProperties
<1> QED BY <1>1, <1>2, <1>3 DEF Last

(* An element put in the place of the last one.                             *)
LEMMA Relast ==
    ASSUME NEW S, NEW s \in Seq(S), s # << >>, NEW e \in S
    PROVE  /\ Append(Front(s), e) \in Seq(S) /\ Append(Front(s), e) # << >>
           /\ Len(Append(Front(s), e)) = Len(s) /\ Append(Front(s), e)[Len(s)] = e
           /\ Last(Append(Front(s), e)) = e /\ Front(Append(Front(s), e)) = Front(s)
           /\ \A i \in 1 .. Len(s) - 1 : Append(Front(s), e)[i] = s[i]
<1> DEFINE F == Front(s)
           t == Append(F, e)
<1>1. F \in Seq(S) /\ Len(F) = Len(s) - 1 /\ Len(s) \in Nat \ {0} /\ \A i \in 1 .. Len(s) - 1 : F[i] = s[i] BY PopPush
<1> HIDE DEF F
<1>2. t \in Seq(S) /\ t # << >> /\ Len(t) = Len(F) + 1 /\ Front(t) = F /\ Last(t) = e BY <1>1, PushPop
<1>3. t[Len(F) + 1] = e /\ \A i \in 1 .. Len(F) : t[i] = F[i] BY <1>1, AppendProperties
<1> HIDE DEF t
<1>4. /\ t \in Seq(S) /\ t # << >> /\ Len(t) = Len(s) /\ t[Len(s)] = e /\ Last(t) = e /\ Front(t) = F
      /\ \A i \in 1 .. Len(s) - 1 : t[i] = s[i]
  BY <1>1, <1>2, <1>3
<1> QED BY <1>4 DEF F, t

-----------------------------------------------------------------------------
(* A tree that was given a node.                                           *)
LEMMA PutIs ==
    ASSUME NEW tree \in Tree, NEW x \in Name, NEW v \in Held, NEW scope \in Scope
    PROVE  Put(tree, x, v, scope) \in Tree /\ Put(tree, x, v, scope) # Empty
<1> DEFINE p == Put(tree, x, v, scope)
           sc == IF x \in DOMAIN tree THEN tree[x].scope ELSE scope
           D == DOMAIN tree \cup {x}
<1>1. PICK T \in SUBSET Name : tree \in [T -> Node] BY DEF Tree
<1>2. sc \in Scope BY <1>1 DEF Node, Scope
<1>3. [scope |-> sc, val |-> v] \in Node BY <1>2 DEF Node, Held, Scope
<1>4. p = [y \in D |-> IF y # x THEN tree[y] ELSE [scope |-> sc, val |-> v]] BY DEF Put
<1> HIDE DEF p, sc
<1>5. D \in SUBSET Name BY <1>1
<1>6. p \in [D -> Node]
  <2>1. ASSUME NEW y \in D PROVE (IF y # x THEN tree[y] ELSE [scope |-> sc, val |-> v]) \in Node BY <1>1, <1>3
  <2> QED BY <1>4, <2>1
<1>7. p \in Tree BY <1>5, <1>6 DEF Tree
<1>8. p # Empty
  <2>1. x \in DOMAIN p /\ DOMAIN Empty = {} BY <1>4 DEF Empty
  <2> QED BY <2>1
<1> QED BY <1>7, <1>8 DEF p

(* What is found in a tree, and in one that was given a node.               *)
LEMMA FindIs ==
    ASSUME NEW tree \in Tree, NEW x \in Name
    PROVE  /\ Find(tree, x) \in Held /\ Meaning(tree, x) \in Scope
           /\ x \in DOMAIN tree => tree[x].val = Find(tree, x) /\ tree[x].scope = Meaning(tree, x)
           /\ x \notin DOMAIN tree => Find(tree, x) = NoValue /\ Meaning(tree, x) = "local"
<1>1. PICK T \in SUBSET Name : tree \in [T -> Node] BY DEF Tree
<1>2. x \in DOMAIN tree => tree[x] \in Node BY <1>1
<1>3. x \in DOMAIN tree => tree[x].val \in Held /\ tree[x].scope \in Scope BY <1>2 DEF Node, Held, Scope
<1> QED BY <1>2, <1>3 DEF Find, Meaning, Held, Scope

LEMMA FindPut ==
    ASSUME NEW tree \in Tree, NEW x \in Name, NEW v \in Held, NEW scope \in Scope, NEW y \in Name
    PROVE  /\ Find(Put(tree, x, v, scope), y) = (IF y = x THEN v ELSE Find(tree, y))
           /\ Meaning(Put(tree, x, v, scope), y) =
                  (IF y # x \/ x \in DOMAIN tree THEN Meaning(tree, y) ELSE scope)
<1> DEFINE p == Put(tree, x, v, scope)
           sc == IF x \in DOMAIN tree THEN tree[x].scope ELSE scope
           e == [scope |-> sc, val |-> v]
           D == DOMAIN tree \cup {x}
<1>1. p = [z \in D |-> IF z # x THEN tree[z] ELSE e] BY DEF Put
<1>2. e.scope = sc /\ e.val = v OBVIOUS
<1>3. DOMAIN p = D BY <1>1
<1> HIDE DEF p, e
<1>4. CASE y = x
  <2>1. p[y] = e /\ y \in DOMAIN p BY <1>1, <1>3, <1>4
  <2>2. Find(p, y) = v /\ Meaning(p, y) = sc BY <1>2, <2>1 DEF Find, Meaning
  <2>3. sc = (IF x \in DOMAIN tree THEN Meaning(tree, y) ELSE scope) BY <1>4 DEF Meaning
  <2> QED BY <1>4, <2>2, <2>3 DEF p
<1>5. CASE y # x
  <2>1. y \in DOMAIN p <=> y \in DOMAIN tree BY <1>3, <1>5
  <2>2. y \in DOMAIN tree => p[y] = tree[y] BY <1>1, <1>5
  <2>3. Find(p, y) = Find(tree, y) /\ Meaning(p, y) = Meaning(tree, y) BY <2>1, <2>2 DEF Find, Meaning
  <2> QED BY <1>5, <2>3 DEF p
<1> QED BY <1>4, <1>5

LEMMA EmptyTree == Empty \in Tree
<1>1. {} \in SUBSET Name /\ Empty \in [{} -> Node] BY DEF Empty
<1> QED BY <1>1 DEF Tree

-----------------------------------------------------------------------------
(* No step leaves the types.                                               *)
LEMMA InCallTypes ==
    ASSUME TypeOK, InCall
    PROVE  /\ frames # << >> /\ frames \in Seq(Tree) /\ Len(frames) \in Nat \ {0} /\ Frame \in Tree /\ Frame = frames[Len(frames)]
           /\ running # << >> /\ running \in Seq(Function) /\ cur_func \in Function /\ cur_func = running[Len(frames)]
           /\ Len(running) = Len(frames) /\ static[cur_func] \in Tree
<1>1. frames # << >> /\ frames \in Seq(Tree) /\ running \in Seq(Function) /\ Len(running) = Len(frames)
      /\ static \in [Function -> Tree]
  BY DEF TypeOK, InCall
<1>2. Last(frames) \in Tree /\ Len(frames) \in Nat \ {0} /\ Last(frames) = frames[Len(frames)] BY <1>1, PopPush
<1>3. running # << >> BY <1>1, <1>2
<1>4. Last(running) \in Function /\ Last(running) = running[Len(running)] BY <1>1, <1>3, PopPush
<1> QED BY <1>1, <1>2, <1>3, <1>4 DEF Frame, cur_func

(* What a statement leaves: the trees, and where the calls are.             *)
Leaves == /\ var_main' \in Tree /\ frames' \in Seq(Tree) /\ on_main' \in BOOLEAN /\ static' \in [Function -> Tree]
          /\ overrun' \in BOOLEAN /\ Len(frames') = Len(frames)

LEMMA FrameTypes ==
    ASSUME TypeOK, InCall, NEW tree \in Tree, SetFrame(tree)
    PROVE  /\ frames' \in Seq(Tree) /\ Len(frames') = Len(frames) /\ frames' # << >> /\ Frame' = tree
           /\ Front(frames') = Front(frames) /\ frames'[Len(frames)] = tree
           /\ \A i \in 1 .. Len(frames) - 1 : frames'[i] = frames[i]
<1>1. frames # << >> /\ frames \in Seq(Tree) BY InCallTypes
<1>2. frames' = Append(Front(frames), tree) BY DEF SetFrame
<1>3. /\ Append(Front(frames), tree) \in Seq(Tree) /\ Append(Front(frames), tree) # << >>
      /\ Len(Append(Front(frames), tree)) = Len(frames) /\ Append(Front(frames), tree)[Len(frames)] = tree
      /\ Last(Append(Front(frames), tree)) = tree /\ Front(Append(Front(frames), tree)) = Front(frames)
      /\ \A i \in 1 .. Len(frames) - 1 : Append(Front(frames), tree)[i] = frames[i]
  BY <1>1, Relast
<1> QED BY <1>2, <1>3 DEF Frame

LEMMA StaticTypes ==
    ASSUME TypeOK, InCall, NEW x \in Name, NEW v \in Held, SetStatic(x, v)
    PROVE  static' \in [Function -> Tree]
<1>1. static \in [Function -> Tree] /\ cur_func \in Function /\ static[cur_func] \in Tree BY InCallTypes DEF TypeOK
<1>2. Put(static[cur_func], x, v, "local") \in Tree BY <1>1, PutIs DEF Scope
<1>3. static' = [static EXCEPT ![cur_func] = Put(static[cur_func], x, v, "local")] BY DEF SetStatic
<1> QED BY <1>1, <1>2, <1>3

LEMMA SetVarTypes ==
    ASSUME TypeOK, NEW x \in Name, NEW v \in Held, NEW scope \in Scope, SetVar(x, v, scope)
    PROVE  Leaves
<1>1. var_main \in Tree /\ frames \in Seq(Tree) /\ on_main \in BOOLEAN /\ static \in [Function -> Tree] /\ overrun \in BOOLEAN
  BY DEF TypeOK
<1>2. Put(var_main, x, v, scope) \in Tree /\ Put(var_main, x, v, "local") \in Tree BY <1>1, PutIs DEF Scope
<1>3. ASSUME InCall PROVE /\ Put(Frame, x, v, scope) \in Tree /\ Put(Frame, x, v, "local") \in Tree
                          /\ Put(Empty, x, v, scope) \in Tree
  BY <1>3, InCallTypes, EmptyTree, PutIs DEF Scope
<1>4. CASE InCall /\ Refers(x, "global") /\ scope # "global" /\ SetThroughGlobal(x, v, scope)
  <2>1. frames' = frames /\ on_main' = FALSE BY <1>4 DEF SetThroughGlobal
  <2>2. SetStatic(x, v) \/ static' = static BY <1>4 DEF SetThroughGlobal
  <2>3. static' \in [Function -> Tree] BY <1>1, <1>4, <2>2, StaticTypes
  <2>4. var_main' = var_main \/ var_main' = Put(var_main, x, v, scope) BY <1>4 DEF SetThroughGlobal
  <2>5. overrun' \in BOOLEAN BY <1>1, <1>4 DEF SetThroughGlobal
  <2> QED BY <1>1, <1>2, <2>1, <2>3, <2>4, <2>5 DEF Leaves
<1>5. CASE InCall /\ SetStatic(x, v) /\ on_main' = FALSE /\ UNCHANGED <<var_main, frames, overrun>>
  BY <1>1, <1>5, StaticTypes DEF Leaves
<1>6. CASE Replace(x, v) /\ UNCHANGED <<on_main, static, overrun>>
  <2>1. CASE OnPage BY <1>1, <1>2, <1>6, <2>1 DEF Replace, Leaves
  <2>2. CASE ~OnPage
    <3>1. InCall BY <2>2 DEF OnPage
    <3>2. SetFrame(Put(Frame, x, v, "local")) /\ var_main' = var_main BY <1>6, <2>2 DEF Replace
    <3> QED BY <1>1, <1>3, <1>6, <3>1, <3>2, FrameTypes DEF Leaves
  <2> QED BY <2>1, <2>2
<1>7. CASE /\ x \notin DOMAIN var_top
           /\ Create(x, v, scope)
           /\ IF InCall /\ scope = "static"
              THEN /\ IF Find(static[cur_func], x) = NoValue
                      THEN SetStatic(x, v) ELSE UNCHANGED static
                   /\ on_main' = FALSE
              ELSE /\ on_main' = (on_main /\ var_top # Empty)
                   /\ UNCHANGED static
           /\ UNCHANGED overrun
  <2>1. static' \in [Function -> Tree] BY <1>1, <1>7, StaticTypes
  <2>2. on_main' \in BOOLEAN BY <1>7
  <2>3. var_main' \in Tree /\ frames' \in Seq(Tree) /\ Len(frames') = Len(frames)
    <3>1. CASE InCall /\ var_top = Empty
      <4>1. SetFrame(Put(Empty, x, v, scope)) /\ var_main' = var_main BY <1>7, <3>1 DEF Create
      <4> QED BY <1>1, <1>3, <3>1, <4>1, FrameTypes
    <3>2. CASE ~(InCall /\ var_top = Empty) /\ OnPage
      <4>1. var_main' = Put(var_main, x, v, scope) /\ frames' = frames BY <1>7, <3>2 DEF Create
      <4> QED BY <1>1, <1>2, <4>1
    <3>3. CASE ~(InCall /\ var_top = Empty) /\ ~OnPage
      <4>1. SetFrame(Put(Frame, x, v, scope)) /\ var_main' = var_main BY <1>7, <3>3 DEF Create
      <4>2. InCall BY <3>3 DEF OnPage
      <4> QED BY <1>1, <1>3, <4>1, <4>2, FrameTypes
    <3> QED BY <3>1, <3>2, <3>3
  <2> QED BY <1>1, <1>7, <2>1, <2>2, <2>3 DEF Leaves
<1> QED BY <1>4, <1>5, <1>6, <1>7 DEF SetVar

LEMMA UnSetTypes ==
    ASSUME TypeOK, NEW x \in Name, UnSet(x)
    PROVE  Leaves
<1>1. var_main \in Tree /\ frames \in Seq(Tree) /\ on_main \in BOOLEAN /\ static \in [Function -> Tree] /\ overrun \in BOOLEAN
  BY DEF TypeOK
<1>2. NoValue \in Held /\ "local" \in Scope BY DEF Held, Scope
<1>3. UNCHANGED <<on_main, overrun>> BY DEF UnSet
<1>4. CASE ~OnPage /\ Refers(x, "static")
  <2>1. InCall BY <1>4 DEF OnPage
  <2>2. SetStatic(x, NoValue) /\ UNCHANGED <<var_main, frames>> BY <1>4 DEF UnSet
  <2> QED BY <1>1, <1>2, <1>3, <2>1, <2>2, StaticTypes DEF Leaves
<1>5. CASE ~(~OnPage /\ Refers(x, "static")) /\ (OnPage \/ Refers(x, "global"))
  <2>1. var_main' = Put(var_main, x, NoValue, "local") /\ UNCHANGED <<frames, static>> BY <1>5 DEF UnSet
  <2> QED BY <1>1, <1>2, <1>3, <2>1, PutIs DEF Leaves
<1>6. CASE ~(~OnPage /\ Refers(x, "static")) /\ ~(OnPage \/ Refers(x, "global"))
  <2>1. InCall BY <1>6 DEF OnPage
  <2>2. SetFrame(Put(Frame, x, NoValue, "local")) /\ UNCHANGED <<var_main, static>> BY <1>6 DEF UnSet
  <2>3. Put(Frame, x, NoValue, "local") \in Tree BY <1>2, <2>1, InCallTypes, PutIs
  <2> QED BY <1>1, <1>3, <2>1, <2>2, <2>3, FrameTypes DEF Leaves
<1> QED BY <1>4, <1>5, <1>6

(* The names and values of a program are some of those there are.           *)
LEMMA ProgramIs ==
    ASSUME ScopesAssumption, TypeOK
    PROVE  /\ program.names \subseteq Name /\ program.functions \subseteq Function /\ program.values \subseteq Value
           /\ program.calls \in 0 .. MaxCalls /\ Value \subseteq Held /\ Zero \in Value /\ NoValue \notin Value
BY DEF ScopesAssumption, TypeOK, Held

LEMMA CallIs ==
    ASSUME ScopesAssumption, TypeOK, NEW f \in Function, NEW args \in [Params[f] -> Value], RunFunc(f, args)
    PROVE  /\ [x \in Params[f] |-> [scope |-> "local", val |-> args[x]]] \in Tree
           /\ frames' \in Seq(Tree) /\ running' \in Seq(Function) /\ Len(running') = Len(frames')
           /\ Len(frames') = Len(frames) + 1 /\ Params[f] \subseteq Name
<1> DEFINE t == [x \in Params[f] |-> [scope |-> "local", val |-> args[x]]]
<1>1. Params[f] \in SUBSET Name BY DEF ScopesAssumption
<1>2. t \in [Params[f] -> Node] BY DEF Node
<1>3. t \in Tree BY <1>1, <1>2 DEF Tree
<1>4. frames' = Append(frames, t) /\ running' = Append(running, f) BY DEF RunFunc
<1> HIDE DEF t
<1>5. frames \in Seq(Tree) /\ running \in Seq(Function) /\ Len(running) = Len(frames) BY DEF TypeOK
<1>6. Append(frames, t) \in Seq(Tree) /\ Len(Append(frames, t)) = Len(frames) + 1 BY <1>3, <1>5, PushPop
<1>7. Append(running, f) \in Seq(Function) /\ Len(Append(running, f)) = Len(running) + 1 BY <1>5, PushPop
<1> QED BY <1>1, <1>3, <1>4, <1>5, <1>6, <1>7 DEF t

LEMMA ReturnIs ==
    ASSUME TypeOK, PopStackFrame
    PROVE  /\ frames' \in Seq(Tree) /\ running' \in Seq(Function) /\ Len(running') = Len(frames')
           /\ Len(frames') = Len(frames) - 1 /\ InCall /\ frames' = Front(frames) /\ running' = Front(running)
           /\ \A i \in 1 .. Len(frames) - 1 : frames'[i] = frames[i] /\ running'[i] = running[i]
<1>1. InCall /\ frames' = Front(frames) /\ running' = Front(running) BY DEF PopStackFrame
<1>2. /\ frames # << >> /\ frames \in Seq(Tree) /\ running # << >> /\ running \in Seq(Function) /\ Len(running) = Len(frames)
  BY <1>1, InCallTypes
<1>3. Front(frames) \in Seq(Tree) /\ Len(Front(frames)) = Len(frames) - 1 /\ \A i \in 1 .. Len(frames) - 1 : Front(frames)[i] = frames[i]
  BY <1>2, PopPush
<1>4. Front(running) \in Seq(Function) /\ Len(Front(running)) = Len(running) - 1
      /\ \A i \in 1 .. Len(running) - 1 : Front(running)[i] = running[i]
  BY <1>2, PopPush
<1> QED BY <1>1, <1>2, <1>3, <1>4

LEMMA TypeNext == ASSUME ScopesAssumption, TypeOK, [Next]_vars PROVE TypeOK'
<1>1. CASE UNCHANGED vars
  <2>1. UNCHANGED <<program, var_main, frames, on_main, running, static, overrun, said>> BY <1>1 DEF vars
  <2> QED BY <2>1 DEF TypeOK
<1>2. CASE Next
  <2>1. program' = program /\ said'.turn \in {0, 1}
    <3>1. program' = program BY <1>2 DEF Next
    <3>2. \E does, of : said' = [does |-> does, of |-> of, turn |-> 1 - said.turn] BY <1>2 DEF Next, Says
    <3>3. said.turn \in {0, 1} BY DEF TypeOK
    <3> QED BY <3>1, <3>2, <3>3
  <2>2. /\ program.names \subseteq Name /\ program.functions \subseteq Function /\ program.values \subseteq Value
        /\ Value \subseteq Held /\ Zero \in Value
    BY ProgramIs
  <2>3. "local" \in Scope /\ "global" \in Scope /\ "static" \in Scope BY DEF Scope
  <2>4. ASSUME Leaves, running' = running PROVE TypeOK'
    BY <2>1, <2>4 DEF TypeOK, Leaves
  <2>5. ASSUME NEW x \in program.names, NEW v \in program.values, Assign(x, v) PROVE TypeOK'
    BY <2>2, <2>3, <2>4, <2>5, SetVarTypes DEF Assign
  <2>6. ASSUME NEW x \in program.names, NEW v \in program.values, DeclareStatic(x, v) PROVE TypeOK'
    BY <2>2, <2>3, <2>4, <2>6, SetVarTypes DEF DeclareStatic
  <2>7. ASSUME NEW x \in program.names, DeclareGlobal(x) PROVE TypeOK'
    <3>1. CASE SetVar(x, Zero, "global") BY <2>2, <2>3, <2>4, <2>7, <3>1, SetVarTypes DEF DeclareGlobal
    <3>2. CASE UNCHANGED <<var_main, frames, on_main, static, overrun>>
      <4>1. running' = running BY <2>7 DEF DeclareGlobal
      <4> QED BY <2>1, <3>2, <4>1 DEF TypeOK
    <3> QED BY <2>7, <3>1, <3>2 DEF DeclareGlobal
  <2>8. ASSUME NEW x \in program.names, UnSet(x) PROVE TypeOK'
    <3>1. running' = running BY <2>8 DEF UnSet
    <3> QED BY <2>2, <2>4, <2>8, <3>1, UnSetTypes
  <2>9. ASSUME NEW f \in program.functions, NEW args \in [Params[f] -> program.values], RunFunc(f, args) PROVE TypeOK'
    <3>1. f \in Function /\ args \in [Params[f] -> Value] BY <2>2
    <3>2. frames' \in Seq(Tree) /\ running' \in Seq(Function) /\ Len(running') = Len(frames') BY <2>9, <3>1, CallIs
    <3>3. on_main' = FALSE /\ UNCHANGED <<var_main, static, overrun>> BY <2>9 DEF RunFunc
    <3> QED BY <2>1, <3>2, <3>3 DEF TypeOK
  <2>10. ASSUME PopStackFrame PROVE TypeOK'
    <3>1. frames' \in Seq(Tree) /\ running' \in Seq(Function) /\ Len(running') = Len(frames') BY <2>10, ReturnIs
    <3>2. on_main' \in BOOLEAN /\ UNCHANGED <<var_main, static, overrun>> BY <2>10 DEF PopStackFrame
    <3> QED BY <2>1, <3>1, <3>2 DEF TypeOK
  <2> QED BY <1>2, <2>5, <2>6, <2>7, <2>8, <2>9, <2>10 DEF Next
<1> QED BY <1>1, <1>2

LEMMA TypeInit == ASSUME Init PROVE TypeOK
<1>1. var_main \in Tree /\ static \in [Function -> Tree] BY EmptyTree DEF Init
<1>2. frames = << >> /\ running = << >> /\ on_main = FALSE /\ overrun = FALSE /\ said.turn = 0 /\ program \in Programs BY DEF Init
<1>3. << >> \in Seq(Tree) /\ << >> \in Seq(Function) OBVIOUS
<1>4. frames \in Seq(Tree) /\ running \in Seq(Function) /\ Len(running) = Len(frames) BY <1>2, <1>3
<1>5. on_main \in BOOLEAN /\ overrun \in BOOLEAN /\ said.turn \in {0, 1} BY <1>2
<1> QED BY <1>1, <1>2, <1>4, <1>5 DEF TypeOK

(* Whatever a program does, careful or not, the trees hold nodes of the     *)
(* three scopes under the names there are, and each call has its frame.     *)
THEOREM ScopesTypeOK == Spec => []TypeOK
<1>1. Init => TypeOK BY TypeInit
<1>2. TypeOK /\ [Next]_vars => TypeOK' BY ScopesAssumption, TypeNext
<1> QED BY <1>1, <1>2, PTL DEF Spec

-----------------------------------------------------------------------------
(* The trees of a careful program: var_top is not astray while a call is    *)
(* active, the page's own nodes are no placeholders, a placeholder is not   *)
(* deleted, and no caller's tree is empty.                                  *)
ScopeInv ==
    /\ TypeOK
    /\ ~on_main /\ ~overrun
    /\ \A x \in Name : Meaning(var_main, x) = "local"
    /\ \A i \in 1 .. Len(frames) : \A x \in Name : Meaning(frames[i], x) # "local" => Find(frames[i], x) # NoValue
    /\ \A i \in 1 .. Len(frames) - 1 : frames[i] # Empty

(* What a statement does to the trees.                                      *)
Same == UNCHANGED <<running, on_main, overrun>>
OnMain(x, v)         == Same /\ var_main' = Put(var_main, x, v, "local") /\ UNCHANGED <<frames, static>>
OnFrame(x, v, scope) == Same /\ InCall /\ SetFrame(Put(Frame, x, v, scope)) /\ UNCHANGED <<var_main, static>>
OnStatic(x, v)       == Same /\ InCall /\ SetStatic(x, v) /\ UNCHANGED <<var_main, frames>>
OnBoth(x, v)         == Same /\ InCall /\ SetFrame(Put(Frame, x, v, "static")) /\ SetStatic(x, v) /\ UNCHANGED var_main

(* Which tree SetVar writes to, by what the name means in the call.         *)
Writes(x, v, scope) ==
    \/ /\ ~InCall \/ (Meaning(Frame, x) = "global" /\ scope # "global")
       /\ OnMain(x, v)
    \/ /\ InCall /\ Meaning(Frame, x) = "static" /\ scope # "static"
       /\ OnStatic(x, v)
    \/ /\ InCall /\ x \in DOMAIN Frame /\ Meaning(Frame, x) \in {"local", scope}
       /\ OnFrame(x, v, scope)
    \/ /\ InCall /\ x \notin DOMAIN Frame
       /\ IF scope = "static" /\ Find(static[cur_func], x) = NoValue
          THEN OnBoth(x, v) ELSE OnFrame(x, v, scope)

(* A node that is there keeps its scope, whatever scope Put is given.       *)
LEMMA PutKnown ==
    ASSUME NEW tree, NEW x, NEW v, NEW scope, NEW other, x \in DOMAIN tree
    PROVE  Put(tree, x, v, scope) = Put(tree, x, v, other)
BY DEF Put

LEMMA InvIs ==
    ASSUME ScopeInv
    PROVE  /\ TypeOK /\ on_main = FALSE /\ overrun = FALSE /\ (OnPage <=> ~InCall) /\ var_main \in Tree
           /\ (InCall => var_top = Frame /\ Frame \in Tree) /\ (~InCall => var_top = var_main)
           /\ \A x \in Name : x \in DOMAIN var_main => var_main[x].scope = "local"
<1>1. TypeOK /\ on_main = FALSE /\ overrun = FALSE BY DEF ScopeInv, TypeOK
<1>2. OnPage <=> ~InCall BY <1>1 DEF OnPage
<1>3. InCall => Frame \in Tree BY <1>1, InCallTypes
<1>4. (InCall => var_top = Frame) /\ (~InCall => var_top = var_main) BY <1>2 DEF var_top
<1>5. var_main \in Tree BY <1>1 DEF TypeOK
<1>6. ASSUME NEW x \in Name, x \in DOMAIN var_main PROVE var_main[x].scope = "local"
  <2>1. Meaning(var_main, x) = "local" BY DEF ScopeInv
  <2> QED BY <1>5, <1>6, <2>1, FindIs
<1> QED BY <1>1, <1>2, <1>3, <1>4, <1>5, <1>6

(* In a call a name refers to what its node in the frame says.              *)
LEMMA RefersIs ==
    ASSUME ScopeInv, InCall, NEW x \in Name
    PROVE  /\ Refers(x, "global") <=> Meaning(Frame, x) = "global"
           /\ Refers(x, "static") <=> Meaning(Frame, x) = "static"
<1>1. var_top = Frame BY InvIs
<1> QED BY <1>1 DEF Refers, Meaning

LEMMA SetVarWrites ==
    ASSUME ScopeInv, NEW x \in Name, NEW v \in Value, NEW scope \in Scope, SetVar(x, v, scope), running' = running,
           ~LostOnPage(x) \/ scope # "local", ~StaticOnPage(x) \/ scope # "static", InCall \/ scope # "global"
    PROVE  Writes(x, v, scope)
<1>1. /\ TypeOK /\ on_main = FALSE /\ overrun = FALSE /\ (OnPage <=> ~InCall) /\ var_main \in Tree
      /\ (InCall => var_top = Frame /\ Frame \in Tree) /\ (~InCall => var_top = var_main)
      /\ (x \in DOMAIN var_main => var_main[x].scope = "local")
  BY InvIs
<1>2. InCall => /\ Refers(x, "global") <=> Meaning(Frame, x) = "global"
                /\ Refers(x, "static") <=> Meaning(Frame, x) = "static"
  BY RefersIs
<1>3. CASE InCall /\ Refers(x, "global") /\ scope # "global" /\ SetThroughGlobal(x, v, scope)
  <2>1. ~(x \in DOMAIN var_main /\ var_main[x].scope = "global" /\ scope # "global")
        /\ ~(x \in DOMAIN var_main /\ var_main[x].scope = "static" /\ scope # "static")
    BY <1>1
  <2>2. /\ overrun' = overrun /\ on_main' = FALSE /\ frames' = frames
        /\ var_main' = (IF var_main = Empty THEN var_main ELSE Put(var_main, x, v, scope))
        /\ IF scope = "static" /\ x \notin DOMAIN var_main /\ Find(static[cur_func], x) = NoValue
           THEN SetStatic(x, v) ELSE UNCHANGED static
    BY <1>3, <2>1 DEF SetThroughGlobal
  <2>3. scope \in {"local", "static"} BY <1>3 DEF Scope
  <2>4. var_main # Empty
    <3>1. CASE scope = "local" BY <1>3, <3>1 DEF LostOnPage
    <3>2. CASE scope = "static"
      <4>1. x \in DOMAIN var_main BY <1>3, <3>2 DEF StaticOnPage
      <4> QED BY <4>1 DEF Empty
    <3> QED BY <2>3, <3>1, <3>2
  <2>5. static' = static /\ Put(var_main, x, v, scope) = Put(var_main, x, v, "local")
    <3>1. CASE scope = "local" BY <2>2, <3>1
    <3>2. CASE scope = "static"
      <4>1. x \in DOMAIN var_main BY <1>3, <3>2 DEF StaticOnPage
      <4> QED BY <2>2, <4>1, PutKnown
    <3> QED BY <2>3, <3>1, <3>2
  <2>6. OnMain(x, v) BY <1>1, <2>2, <2>4, <2>5 DEF OnMain, Same
  <2> QED BY <1>2, <1>3, <2>6 DEF Writes
<1>4. CASE InCall /\ Refers(x, "static") /\ scope # "static" /\ SetStatic(x, v) /\ on_main' = FALSE
           /\ UNCHANGED <<var_main, frames, overrun>>
  <2>1. OnStatic(x, v) BY <1>1, <1>4 DEF OnStatic, Same
  <2> QED BY <1>2, <1>4, <2>1 DEF Writes
<1>5. CASE /\ x \in DOMAIN var_top
           /\ ~(InCall /\ Refers(x, "global") /\ scope # "global")
           /\ ~(InCall /\ Refers(x, "static") /\ scope # "static")
           /\ Replace(x, v)
           /\ UNCHANGED <<on_main, static, overrun>>
  <2>1. CASE ~InCall
    <3>1. OnMain(x, v) BY <1>1, <1>5, <2>1 DEF Replace, OnMain, Same
    <3> QED BY <2>1, <3>1 DEF Writes
  <2>2. CASE InCall
    <3>1. x \in DOMAIN Frame /\ Frame \in Tree BY <1>1, <1>5, <2>2
    <3>2. Put(Frame, x, v, "local") = Put(Frame, x, v, scope) BY <3>1, PutKnown
    <3>3. OnFrame(x, v, scope) BY <1>1, <1>5, <2>2, <3>2 DEF Replace, OnFrame, Same
    <3>4. Meaning(Frame, x) \in Scope BY <3>1, FindIs
    <3>5. Meaning(Frame, x) \in {"local", scope} BY <1>2, <1>5, <2>2, <3>4 DEF Scope
    <3> QED BY <2>2, <3>1, <3>3, <3>5 DEF Writes
  <2> QED BY <2>1, <2>2
<1>6. CASE /\ x \notin DOMAIN var_top
           /\ Create(x, v, scope)
           /\ IF InCall /\ scope = "static"
              THEN /\ IF Find(static[cur_func], x) = NoValue
                      THEN SetStatic(x, v) ELSE UNCHANGED static
                   /\ on_main' = FALSE
              ELSE /\ on_main' = (on_main /\ var_top # Empty)
                   /\ UNCHANGED static
           /\ UNCHANGED overrun
  <2>1. on_main' = FALSE /\ on_main' = on_main BY <1>1, <1>6
  <2>2. CASE ~InCall
    <3>1. scope = "local" BY <1>1, <1>6, <2>2 DEF StaticOnPage, Scope
    <3>2. var_main' = Put(var_main, x, v, scope) /\ frames' = frames /\ static' = static BY <1>1, <1>6, <2>2 DEF Create
    <3>3. OnMain(x, v) BY <1>6, <2>1, <3>1, <3>2 DEF OnMain, Same
    <3> QED BY <2>2, <3>3 DEF Writes
  <2>3. CASE InCall
    <3>1. var_top = Frame /\ ~OnPage BY <1>1, <2>3
    <3>2. SetFrame(Put(Frame, x, v, scope)) /\ var_main' = var_main
      <4>1. CASE Frame = Empty BY <1>6, <2>3, <3>1, <4>1 DEF Create
      <4>2. CASE Frame # Empty BY <1>6, <2>3, <3>1, <4>2 DEF Create
      <4> QED BY <4>1, <4>2
    <3>3. CASE scope = "static" /\ Find(static[cur_func], x) = NoValue
      <4>1. OnBoth(x, v) BY <1>6, <2>1, <2>3, <3>2, <3>3 DEF OnBoth, Same
      <4> QED BY <1>6, <2>3, <3>1, <3>3, <4>1 DEF Writes
    <3>4. CASE ~(scope = "static" /\ Find(static[cur_func], x) = NoValue)
      <4>1. OnFrame(x, v, scope) BY <1>6, <2>1, <2>3, <3>2, <3>4 DEF OnFrame, Same
      <4> QED BY <1>6, <2>3, <3>1, <3>4, <4>1 DEF Writes
    <3> QED BY <3>3, <3>4
  <2> QED BY <2>2, <2>3
<1> QED BY <1>3, <1>4, <1>5, <1>6 DEF SetVar

-----------------------------------------------------------------------------
(* No statement, call or return of a careful program leaves the invariant.  *)
LEMMA MainKeeps ==
    ASSUME ScopeInv, TypeOK', NEW x \in Name, NEW v \in Held, OnMain(x, v) PROVE ScopeInv'
<1>1. var_main' = Put(var_main, x, v, "local") /\ UNCHANGED <<frames, on_main, overrun>> BY DEF OnMain, Same
<1>2. ASSUME NEW y \in Name PROVE Meaning(var_main', y) = "local"
  <2>1. var_main \in Tree /\ "local" \in Scope BY InvIs DEF Scope
  <2>2. Meaning(Put(var_main, x, v, "local"), y) = (IF y # x \/ x \in DOMAIN var_main THEN Meaning(var_main, y) ELSE "local")
    BY <2>1, FindPut
  <2>3. Meaning(var_main, y) = "local" BY DEF ScopeInv
  <2> QED BY <1>1, <2>2, <2>3
<1> QED BY <1>1, <1>2 DEF ScopeInv

LEMMA FrameKeeps ==
    ASSUME ScopeInv, TypeOK', Same, InCall, NEW tree \in Tree, SetFrame(tree), var_main' = var_main,
           \A y \in Name : Meaning(tree, y) # "local" => Find(tree, y) # NoValue
    PROVE  ScopeInv'
<1>1. UNCHANGED <<on_main, overrun>> BY DEF Same
<1>2. /\ Len(frames') = Len(frames) /\ Len(frames) \in Nat \ {0} /\ frames'[Len(frames)] = tree
      /\ \A i \in 1 .. Len(frames) - 1 : frames'[i] = frames[i]
  BY FrameTypes, InCallTypes DEF ScopeInv
<1>3. ASSUME NEW i \in 1 .. Len(frames'), NEW y \in Name, Meaning(frames'[i], y) # "local" PROVE Find(frames'[i], y) # NoValue
  <2>1. CASE i = Len(frames) BY <1>2, <1>3, <2>1
  <2>2. CASE i # Len(frames)
    <3>1. i \in 1 .. Len(frames) /\ frames'[i] = frames[i] BY <1>2, <2>2
    <3> QED BY <1>3, <3>1 DEF ScopeInv
  <2> QED BY <2>1, <2>2
<1>4. ASSUME NEW i \in 1 .. Len(frames') - 1 PROVE frames'[i] # Empty
  <2>1. i \in 1 .. Len(frames) - 1 BY <1>2
  <2> QED BY <1>2, <2>1 DEF ScopeInv
<1> QED BY <1>1, <1>3, <1>4 DEF ScopeInv

LEMMA SameKeeps ==
    ASSUME ScopeInv, TypeOK', UNCHANGED <<var_main, frames, on_main, overrun>> PROVE ScopeInv'
BY DEF ScopeInv

(* A frame's node that gets a value is not deleted.                         *)
LEMMA PutFrameKeeps ==
    ASSUME ScopeInv, TypeOK', Same, InCall, NEW x \in Name, NEW v \in Held, NEW scope \in Scope,
           SetFrame(Put(Frame, x, v, scope)), var_main' = var_main,
           v # NoValue \/ (x \in DOMAIN Frame /\ Meaning(Frame, x) = "local")
    PROVE  ScopeInv'
<1>1. Frame \in Tree /\ Frame = frames[Len(frames)] /\ Len(frames) \in 1 .. Len(frames) BY InCallTypes DEF ScopeInv
<1>2. Put(Frame, x, v, scope) \in Tree BY <1>1, PutIs
<1>3. ASSUME NEW y \in Name, Meaning(Put(Frame, x, v, scope), y) # "local" PROVE Find(Put(Frame, x, v, scope), y) # NoValue
  <2>1. /\ Find(Put(Frame, x, v, scope), y) = (IF y = x THEN v ELSE Find(Frame, y))
        /\ Meaning(Put(Frame, x, v, scope), y) = (IF y # x \/ x \in DOMAIN Frame THEN Meaning(Frame, y) ELSE scope)
    BY <1>1, FindPut
  <2>2. CASE y = x BY <1>3, <2>1, <2>2
  <2>3. CASE y # x
    <3>1. Meaning(Frame, y) # "local" BY <1>3, <2>1, <2>3
    <3>2. Find(Frame, y) # NoValue BY <1>1, <3>1 DEF ScopeInv
    <3> QED BY <2>1, <2>3, <3>2
  <2> QED BY <2>2, <2>3
<1> QED BY <1>2, <1>3, FrameKeeps

LEMMA WritesKeeps ==
    ASSUME ScopesAssumption, ScopeInv, TypeOK', NEW x \in Name, NEW v \in Value, NEW scope \in Scope, Writes(x, v, scope)
    PROVE  ScopeInv'
<1>1. v \in Held /\ v # NoValue /\ "static" \in Scope BY DEF Held, ScopesAssumption, Scope
<1>2. CASE OnMain(x, v) BY <1>1, <1>2, MainKeeps
<1>3. CASE OnStatic(x, v) BY <1>3, SameKeeps DEF OnStatic, Same
<1>4. CASE OnFrame(x, v, scope) BY <1>1, <1>4, PutFrameKeeps DEF OnFrame
<1>5. CASE OnBoth(x, v) BY <1>1, <1>5, PutFrameKeeps DEF OnBoth
<1> QED BY <1>2, <1>3, <1>4, <1>5 DEF Writes

(* unset: the node GetVar returned.                                         *)
Unsets(x) ==
    \/ /\ ~InCall \/ Meaning(Frame, x) = "global"
       /\ OnMain(x, NoValue)
    \/ InCall /\ Meaning(Frame, x) = "static" /\ OnStatic(x, NoValue)
    \/ InCall /\ x \in DOMAIN Frame /\ Meaning(Frame, x) = "local" /\ OnFrame(x, NoValue, "local")

LEMMA GetVarIs ==
    ASSUME ScopeInv, NEW x \in Name
    PROVE  GetVar(x) = IF ~InCall THEN Find(var_main, x)
                       ELSE IF Meaning(Frame, x) = "global" THEN Find(var_main, x)
                       ELSE IF Meaning(Frame, x) = "static" THEN Find(static[cur_func], x)
                       ELSE Find(Frame, x)
<1>1. CASE ~InCall
  <2>1. OnPage /\ var_top = var_main BY <1>1, InvIs
  <2> QED BY <1>1, <2>1 DEF GetVar
<1>2. CASE InCall
  <2>1. ~OnPage /\ var_top = Frame /\ Frame \in Tree BY <1>2, InvIs
  <2>2. /\ Refers(x, "global") <=> Meaning(Frame, x) = "global"
        /\ Refers(x, "static") <=> Meaning(Frame, x) = "static"
    BY <1>2, RefersIs
  <2>3. ASSUME Meaning(Frame, x) # "local" PROVE Frame[x].val # NoValue
    <3>1. Frame = frames[Len(frames)] /\ Len(frames) \in 1 .. Len(frames) BY <1>2, InCallTypes DEF ScopeInv
    <3>2. Find(Frame, x) # NoValue BY <2>3, <3>1 DEF ScopeInv
    <3>3. x \in DOMAIN Frame BY <2>3 DEF Meaning
    <3> QED BY <2>1, <3>2, <3>3, FindIs
  <2>4. Meaning(Frame, x) \in Scope BY <2>1, FindIs
  <2> QED BY <1>2, <2>1, <2>2, <2>3, <2>4 DEF GetVar, Scope
<1> QED BY <1>1, <1>2

LEMMA UnSetUnsets ==
    ASSUME ScopeInv, NEW x \in Name, UnSet(x) PROVE Unsets(x)
<1>1. Same /\ GetVar(x) # NoValue BY DEF UnSet, Same
<1>2. (OnPage <=> ~InCall) /\ (InCall => Frame \in Tree) BY InvIs
<1>3. InCall => /\ Refers(x, "global") <=> Meaning(Frame, x) = "global"
                /\ Refers(x, "static") <=> Meaning(Frame, x) = "static"
  BY RefersIs
<1>4. CASE ~InCall
  <2>1. var_main' = Put(var_main, x, NoValue, "local") /\ UNCHANGED <<frames, static>> BY <1>2, <1>4 DEF UnSet
  <2> QED BY <1>1, <1>4, <2>1 DEF Unsets, OnMain
<1>5. CASE InCall /\ Meaning(Frame, x) = "static"
  <2>1. SetStatic(x, NoValue) /\ UNCHANGED <<var_main, frames>> BY <1>2, <1>3, <1>5 DEF UnSet
  <2> QED BY <1>1, <1>5, <2>1 DEF Unsets, OnStatic
<1>6. CASE InCall /\ Meaning(Frame, x) = "global"
  <2>1. var_main' = Put(var_main, x, NoValue, "local") /\ UNCHANGED <<frames, static>> BY <1>2, <1>3, <1>6 DEF UnSet
  <2> QED BY <1>1, <1>6, <2>1 DEF Unsets, OnMain
<1>7. CASE InCall /\ Meaning(Frame, x) = "local"
  <2>1. SetFrame(Put(Frame, x, NoValue, "local")) /\ UNCHANGED <<var_main, static>> BY <1>2, <1>3, <1>7 DEF UnSet
  <2>2. Find(Frame, x) # NoValue BY <1>1, <1>7, GetVarIs
  <2>3. x \in DOMAIN Frame BY <2>2 DEF Find
  <2> QED BY <1>1, <1>7, <2>1, <2>3 DEF Unsets, OnFrame
<1>8. InCall => Meaning(Frame, x) \in Scope BY <1>2, FindIs
<1> QED BY <1>4, <1>5, <1>6, <1>7, <1>8 DEF Scope

LEMMA UnsetsKeeps ==
    ASSUME ScopeInv, TypeOK', NEW x \in Name, Unsets(x) PROVE ScopeInv'
<1>1. NoValue \in Held /\ "local" \in Scope BY DEF Held, Scope
<1>2. CASE OnMain(x, NoValue) BY <1>1, <1>2, MainKeeps
<1>3. CASE OnStatic(x, NoValue) BY <1>3, SameKeeps DEF OnStatic, Same
<1>4. CASE x \in DOMAIN Frame /\ Meaning(Frame, x) = "local" /\ OnFrame(x, NoValue, "local")
  BY <1>1, <1>4, PutFrameKeeps DEF OnFrame
<1> QED BY <1>2, <1>3, <1>4 DEF Unsets

LEMMA CallKeeps ==
    ASSUME ScopesAssumption, Careful, ScopeInv, TypeOK', NEW f \in Function, NEW args \in [Params[f] -> Value], RunFunc(f, args)
    PROVE  ScopeInv'
<1> DEFINE t == [x \in Params[f] |-> [scope |-> "local", val |-> args[x]]]
<1>1. frames' = Append(frames, t) /\ on_main' = FALSE /\ UNCHANGED <<var_main, overrun>> /\ ~EmptyCaller BY DEF RunFunc
<1>2. ASSUME NEW y \in Name PROVE Meaning(t, y) = "local" BY DEF Meaning
<1>3. t \in Tree BY CallIs DEF ScopeInv
<1> HIDE DEF t
<1>4. frames \in Seq(Tree) /\ Len(frames) \in Nat BY DEF ScopeInv, TypeOK
<1>5. /\ Len(frames') = Len(frames) + 1 /\ frames'[Len(frames) + 1] = t /\ \A i \in 1 .. Len(frames) : frames'[i] = frames[i]
  BY <1>1, <1>3, <1>4, AppendProperties
<1>6. ASSUME NEW i \in 1 .. Len(frames'), NEW y \in Name, Meaning(frames'[i], y) # "local" PROVE Find(frames'[i], y) # NoValue
  <2>1. i # Len(frames) + 1 BY <1>2, <1>5, <1>6
  <2>2. i \in 1 .. Len(frames) /\ frames'[i] = frames[i] BY <1>4, <1>5, <2>1
  <2> QED BY <1>6, <2>2 DEF ScopeInv
<1>7. ASSUME NEW i \in 1 .. Len(frames') - 1 PROVE frames'[i] # Empty
  <2>1. i \in 1 .. Len(frames) /\ frames'[i] = frames[i] BY <1>4, <1>5
  <2>2. CASE i = Len(frames)
    <3>1. InCall
      <4>1. Len(frames) # 0 BY <2>1, <2>2
      <4> QED BY <1>4, <4>1 DEF InCall
    <3>2. Frame = frames[Len(frames)] BY <3>1, InCallTypes DEF ScopeInv
    <3> QED BY <1>1, <2>1, <2>2, <3>1, <3>2 DEF EmptyCaller
  <2>3. CASE i # Len(frames)
    <3>1. i \in 1 .. Len(frames) - 1 BY <1>4, <2>1, <2>3
    <3> QED BY <2>1, <3>1 DEF ScopeInv
  <2> QED BY <2>2, <2>3
<1> QED BY <1>1, <1>6, <1>7 DEF ScopeInv

LEMMA ReturnKeeps ==
    ASSUME ScopeInv, TypeOK', PopStackFrame PROVE ScopeInv'
<1>1. /\ Len(frames') = Len(frames) - 1 /\ InCall /\ \A i \in 1 .. Len(frames) - 1 : frames'[i] = frames[i]
      /\ frames' = Front(frames) /\ frames' \in Seq(Tree)
  BY ReturnIs DEF ScopeInv
<1>2. on_main' = (Len(frames) > 1 /\ Last(Front(frames)) = Empty) /\ UNCHANGED <<var_main, overrun>> BY DEF PopStackFrame
<1>3. Len(frames) \in Nat \ {0} BY <1>1, InCallTypes DEF ScopeInv
<1>4. ~on_main'
  <2>1. ASSUME Len(frames) > 1 PROVE Last(Front(frames)) # Empty
    <3>1. Last(frames') = frames'[Len(frames')] BY DEF Last
    <3>2. Len(frames') = Len(frames) - 1 /\ Len(frames) - 1 \in 1 .. Len(frames) - 1 BY <1>1, <1>3, <2>1
    <3>3. Last(frames') = frames[Len(frames) - 1] BY <1>1, <3>1, <3>2
    <3> QED BY <1>1, <3>2, <3>3 DEF ScopeInv
  <2> QED BY <1>2, <2>1
<1>5. ASSUME NEW i \in 1 .. Len(frames') PROVE i \in 1 .. Len(frames) /\ frames'[i] = frames[i] BY <1>1, <1>3
<1>6. ASSUME NEW i \in 1 .. Len(frames') - 1 PROVE frames'[i] # Empty
  <2>1. i \in 1 .. Len(frames) - 1 /\ frames'[i] = frames[i] BY <1>1, <1>3
  <2> QED BY <2>1 DEF ScopeInv
<1>7. ASSUME NEW i \in 1 .. Len(frames'), NEW y \in Name, Meaning(frames'[i], y) # "local" PROVE Find(frames'[i], y) # NoValue
  BY <1>5, <1>7 DEF ScopeInv
<1> QED BY <1>2, <1>4, <1>6, <1>7 DEF ScopeInv

LEMMA AssignWrites ==
    ASSUME Careful, ScopeInv, NEW x \in Name, NEW v \in Value, Assign(x, v) PROVE Writes(x, v, "local")
BY SetVarWrites DEF Assign, Scope

LEMMA StaticWrites ==
    ASSUME Careful, ScopeInv, NEW x \in Name, NEW v \in Value, DeclareStatic(x, v) PROVE Writes(x, v, "static")
BY SetVarWrites DEF DeclareStatic, Scope

LEMMA GlobalWrites ==
    ASSUME ScopesAssumption, Careful, ScopeInv, NEW x \in Name, DeclareGlobal(x)
    PROVE  /\ InCall /\ ~DeletedHere(x)
           /\ IF GetVar(x) = NoValue THEN Writes(x, Zero, "global")
              ELSE UNCHANGED <<var_main, frames, on_main, running, static, overrun>>
<1>1. /\ InCall /\ ~DeletedHere(x) /\ running' = running
      /\ IF GetVar(x) = NoValue THEN SetVar(x, Zero, "global")
         ELSE UNCHANGED <<var_main, frames, on_main, static, overrun>>
  BY DEF DeclareGlobal
<1>2. CASE GetVar(x) = NoValue
  <2>1. SetVar(x, Zero, "global") /\ Zero \in Value BY <1>1, <1>2 DEF ScopesAssumption
  <2>2. Writes(x, Zero, "global") BY <1>1, <2>1, SetVarWrites DEF Scope
  <2> QED BY <1>1, <1>2, <2>2
<1>3. CASE GetVar(x) # NoValue BY <1>1, <1>3
<1> QED BY <1>2, <1>3

LEMMA ScopeNext == ASSUME ScopesAssumption, Careful, ScopeInv, [Next]_vars PROVE ScopeInv'
<1>1. TypeOK' BY TypeNext DEF ScopeInv
<1>2. CASE UNCHANGED vars
  <2>1. UNCHANGED <<var_main, frames, on_main, overrun>> BY <1>2 DEF vars
  <2> QED BY <1>1, <2>1, SameKeeps
<1>3. CASE Next
  <2>1. /\ program.names \subseteq Name /\ program.functions \subseteq Function /\ program.values \subseteq Value
        /\ Zero \in Value /\ "local" \in Scope /\ "static" \in Scope /\ "global" \in Scope
    BY ProgramIs DEF ScopeInv, Scope
  <2>2. ASSUME NEW x \in program.names, NEW v \in program.values, Assign(x, v) PROVE ScopeInv'
    BY <1>1, <2>1, <2>2, AssignWrites, WritesKeeps
  <2>3. ASSUME NEW x \in program.names, NEW v \in program.values, DeclareStatic(x, v) PROVE ScopeInv'
    BY <1>1, <2>1, <2>3, StaticWrites, WritesKeeps
  <2>4. ASSUME NEW x \in program.names, DeclareGlobal(x) PROVE ScopeInv'
    <3>1. Writes(x, Zero, "global") \/ UNCHANGED <<var_main, frames, on_main, running, static, overrun>>
      BY <2>1, <2>4, GlobalWrites
    <3>2. CASE Writes(x, Zero, "global") BY <1>1, <2>1, <3>2, WritesKeeps
    <3>3. CASE UNCHANGED <<var_main, frames, on_main, running, static, overrun>> BY <1>1, <3>3, SameKeeps
    <3> QED BY <3>1, <3>2, <3>3
  <2>5. ASSUME NEW x \in program.names, UnSet(x) PROVE ScopeInv'
    BY <1>1, <2>1, <2>5, UnSetUnsets, UnsetsKeeps
  <2>6. ASSUME NEW f \in program.functions, NEW args \in [Params[f] -> program.values], RunFunc(f, args) PROVE ScopeInv'
    <3>1. f \in Function /\ args \in [Params[f] -> Value] BY <2>1
    <3> QED BY <1>1, <2>6, <3>1, CallKeeps
  <2>7. CASE PopStackFrame BY <1>1, <2>7, ReturnKeeps
  <2> QED BY <1>3, <2>2, <2>3, <2>4, <2>5, <2>6, <2>7 DEF Next
<1> QED BY <1>2, <1>3

LEMMA ScopeInit == ASSUME Init PROVE ScopeInv
<1>1. TypeOK BY TypeInit
<1>2. var_main = Empty /\ frames = << >> /\ on_main = FALSE /\ overrun = FALSE BY DEF Init
<1>3. ASSUME NEW x \in Name PROVE Meaning(var_main, x) = "local"
  <2>1. x \notin DOMAIN Empty BY DEF Empty
  <2> QED BY <1>2, <2>1 DEF Meaning
<1>4. Len(frames) = 0 BY <1>2
<1>5. 1 .. Len(frames) = {} /\ 1 .. Len(frames) - 1 = {} BY <1>4
<1> QED BY <1>1, <1>2, <1>3, <1>5 DEF ScopeInv

LEMMA ScopeAlways == ASSUME Careful PROVE Spec => []ScopeInv
<1>1. Init => ScopeInv BY ScopeInit
<1>2. ScopeInv /\ [Next]_vars => ScopeInv' BY ScopesAssumption, ScopeNext
<1> QED BY <1>1, <1>2, PTL DEF Spec

-----------------------------------------------------------------------------
(* The language's state as the trees show it.                               *)
PageVars    == [x \in Name |-> Find(var_main, x)]
ActiveCalls == [i \in DOMAIN frames |-> Visible(i)]
KeptVars    == [f \in Function |-> [x \in Name |-> Find(static[f], x)]]
Seen(f, tree) ==
    [fn     |-> f,
     means  |-> [x \in Name |-> Meaning(tree, x)],
     locals |-> [x \in Name |-> IF Meaning(tree, x) = "local" THEN Find(tree, x) ELSE NoValue]]
CallRecord == [fn : Function, means : [Name -> Scope], locals : [Name -> Held]]

LEMMA SeenIs ==
    ASSUME NEW f \in Function, NEW tree \in Tree
    PROVE  /\ Seen(f, tree) \in CallRecord /\ Seen(f, tree).fn = f
           /\ \A x \in Name : /\ Seen(f, tree).means[x] = Meaning(tree, x)
                              /\ Seen(f, tree).locals[x] = (IF Meaning(tree, x) = "local" THEN Find(tree, x) ELSE NoValue)
<1> DEFINE m == [x \in Name |-> Meaning(tree, x)]
           l == [x \in Name |-> IF Meaning(tree, x) = "local" THEN Find(tree, x) ELSE NoValue]
<1>1. \A x \in Name : Meaning(tree, x) \in Scope /\ Find(tree, x) \in Held BY FindIs
<1>2. m \in [Name -> Scope] /\ l \in [Name -> Held] BY <1>1 DEF Held
<1>3. \A x \in Name : m[x] = Meaning(tree, x) /\ l[x] = (IF Meaning(tree, x) = "local" THEN Find(tree, x) ELSE NoValue) OBVIOUS
<1>4. Seen(f, tree) = [fn |-> f, means |-> m, locals |-> l] BY DEF Seen
<1> HIDE DEF m, l
<1> QED BY <1>2, <1>3, <1>4 DEF CallRecord

LEMMA ActiveIs ==
    ASSUME TypeOK
    PROVE  /\ ActiveCalls \in Seq(CallRecord) /\ Len(ActiveCalls) = Len(frames) /\ (ActiveCalls # << >> <=> InCall)
           /\ \A i \in 1 .. Len(frames) : ActiveCalls[i] = Seen(running[i], frames[i])
           /\ InCall => Last(ActiveCalls) = Seen(cur_func, Frame)
<1>1. frames \in Seq(Tree) /\ running \in Seq(Function) /\ Len(running) = Len(frames) /\ Len(frames) \in Nat BY DEF TypeOK
<1> DEFINE n == Len(frames)
<1>2. DOMAIN frames = 1 .. n BY <1>1
<1>3. ActiveCalls = [i \in 1 .. n |-> Seen(running[i], frames[i])] BY <1>2 DEF ActiveCalls, Visible, Seen
<1>4. \A i \in 1 .. n : Seen(running[i], frames[i]) \in CallRecord
  <2>1. ASSUME NEW i \in 1 .. n PROVE running[i] \in Function /\ frames[i] \in Tree BY <1>1
  <2> QED BY <2>1, SeenIs
<1>5. ActiveCalls \in Seq(CallRecord) /\ Len(ActiveCalls) = n
  <2> HIDE DEF n
  <2>1. n \in Nat BY <1>1 DEF n
  <2>2. ActiveCalls \in [1 .. n -> CallRecord] BY <1>3, <1>4
  <2>3. ActiveCalls \in Seq(CallRecord) BY <2>1, <2>2
  <2>4. DOMAIN ActiveCalls = 1 .. n BY <2>2
  <2> QED BY <2>1, <2>3, <2>4, LenProperties
<1>6. ActiveCalls # << >> <=> InCall BY <1>1, <1>5 DEF InCall
<1>7. \A i \in 1 .. n : ActiveCalls[i] = Seen(running[i], frames[i]) BY <1>3
<1>8. InCall => Last(ActiveCalls) = Seen(cur_func, Frame)
  <2> SUFFICES ASSUME InCall PROVE Last(ActiveCalls) = Seen(cur_func, Frame) OBVIOUS
  <2>1. n \in 1 .. n /\ Frame = frames[n] /\ cur_func = running[n] BY InCallTypes
  <2>2. Last(ActiveCalls) = ActiveCalls[n] BY <1>5 DEF Last
  <2> QED BY <1>7, <2>1, <2>2
<1> QED BY <1>5, <1>6, <1>7, <1>8

(* The language's words, in those terms.                                    *)
LEMMA LanguageIs ==
    /\ Language!Inside <=> ActiveCalls # << >>
    /\ Language!This = Last(ActiveCalls)
    /\ \A s : Language!Front(s) = Front(s)
<1>1. Language!Inside <=> ActiveCalls # << >> BY DEF Language!Inside, ActiveCalls
<1>2. Language!This = Last(ActiveCalls) BY DEF Language!This, ActiveCalls, Last, Language!Last
<1>3. ASSUME NEW s PROVE Language!Front(s) = Front(s) BY DEF Front, Language!Front
<1> QED BY <1>1, <1>2, <1>3

LEMMA DenotesIs ==
    ASSUME TypeOK, NEW x \in Name
    PROVE  Language!Denotes(x) = IF ~InCall THEN Find(var_main, x)
                                 ELSE IF Meaning(Frame, x) = "global" THEN Find(var_main, x)
                                 ELSE IF Meaning(Frame, x) = "static" THEN Find(static[cur_func], x)
                                 ELSE (IF Meaning(Frame, x) = "local" THEN Find(Frame, x) ELSE NoValue)
<1>1. /\ PageVars[x] = Find(var_main, x) /\ (ActiveCalls # << >> <=> InCall) /\ (InCall => Last(ActiveCalls) = Seen(cur_func, Frame))
  BY ActiveIs DEF PageVars
<1>2. Language!Denotes(x) = IF ~(ActiveCalls # << >>) THEN PageVars[x]
                            ELSE IF Last(ActiveCalls).means[x] = "global" THEN PageVars[x]
                            ELSE IF Last(ActiveCalls).means[x] = "static" THEN KeptVars[Last(ActiveCalls).fn][x]
                            ELSE Last(ActiveCalls).locals[x]
  <2>1. Language!Denotes(x) = IF ~Language!Inside THEN PageVars[x]
                              ELSE IF Language!This.means[x] = "global" THEN PageVars[x]
                              ELSE IF Language!This.means[x] = "static" THEN KeptVars[Language!This.fn][x]
                              ELSE Language!This.locals[x]
    BY DEF Language!Denotes, PageVars, KeptVars
  <2> QED BY <2>1, LanguageIs
<1>3. CASE ~InCall BY <1>1, <1>2, <1>3
<1>4. CASE InCall
  <2>1. cur_func \in Function /\ Frame \in Tree BY <1>4, InCallTypes
  <2>2. /\ Seen(cur_func, Frame).fn = cur_func /\ Seen(cur_func, Frame).means[x] = Meaning(Frame, x)
        /\ Seen(cur_func, Frame).locals[x] = (IF Meaning(Frame, x) = "local" THEN Find(Frame, x) ELSE NoValue)
    BY <2>1, SeenIs
  <2>3. KeptVars[cur_func][x] = Find(static[cur_func], x) BY <2>1 DEF KeptVars
  <2> QED BY <1>1, <1>2, <1>4, <2>2, <2>3
<1> QED BY <1>3, <1>4

LEMMA ReadsRight == ASSUME ScopeInv, NEW x \in Name PROVE GetVar(x) = Language!Denotes(x)
<1>1. TypeOK BY DEF ScopeInv
<1>2. InCall => Meaning(Frame, x) \in Scope BY <1>1, InCallTypes, FindIs
<1> QED BY <1>1, <1>2, GetVarIs, DenotesIs DEF Scope

(* For a careful program of any size, what is read of a name is what the    *)
(* language says it denotes, in every state: the search through frames and  *)
(* placeholders is that of the declarations made.                          *)
THEOREM ScopesReadsWhatItDenotes == ASSUME Careful PROVE Spec => []ReadsWhatItDenotes
<1>1. ScopeInv => ReadsWhatItDenotes BY ReadsRight DEF ReadsWhatItDenotes
<1> QED BY <1>1, ScopeAlways, PTL

(* And SetVar does not call itself without end (overrun).                   *)
THEOREM ScopesNeverOverruns == ASSUME Careful PROVE Spec => []~overrun
<1>1. ScopeInv => ~overrun BY DEF ScopeInv
<1> QED BY <1>1, ScopeAlways, PTL

-----------------------------------------------------------------------------
(* How the language's state moves with the trees.                           *)
Shown(fr, run) == [i \in DOMAIN fr |-> Seen(run[i], fr[i])]

LEMMA SameSeq ==
    ASSUME NEW S, NEW s \in Seq(S), NEW t \in Seq(S), Len(s) = Len(t), \A i \in 1 .. Len(s) : s[i] = t[i]
    PROVE  s = t
<1>1. DOMAIN s = 1 .. Len(s) /\ DOMAIN t = 1 .. Len(t) BY LenProperties
<1>2. s = [i \in DOMAIN s |-> s[i]] /\ t = [i \in DOMAIN t |-> t[i]] OBVIOUS
<1> QED BY <1>1, <1>2

LEMMA ShownIs ==
    ASSUME NEW fr \in Seq(Tree), NEW run \in Seq(Function), Len(fr) = Len(run)
    PROVE  /\ Shown(fr, run) \in Seq(CallRecord) /\ Len(Shown(fr, run)) = Len(fr)
           /\ \A i \in 1 .. Len(fr) : Shown(fr, run)[i] = Seen(run[i], fr[i]) /\ run[i] \in Function /\ fr[i] \in Tree
<1> DEFINE n == Len(fr)
<1>1. DOMAIN fr = 1 .. n /\ n \in Nat BY LenProperties
<1>2. Shown(fr, run) = [i \in 1 .. n |-> Seen(run[i], fr[i])] BY <1>1 DEF Shown
<1>3. \A i \in 1 .. n : run[i] \in Function /\ fr[i] \in Tree OBVIOUS
<1>4. \A i \in 1 .. n : Seen(run[i], fr[i]) \in CallRecord BY <1>3, SeenIs
<1>5. Shown(fr, run) \in [1 .. n -> CallRecord] BY <1>2, <1>4
<1> HIDE DEF n
<1>6. Shown(fr, run) \in Seq(CallRecord) /\ DOMAIN Shown(fr, run) = 1 .. n BY <1>1, <1>5
<1>7. Len(Shown(fr, run)) = n BY <1>1, <1>6, LenProperties
<1> QED BY <1>2, <1>3, <1>6, <1>7 DEF n

LEMMA ShownRelast ==
    ASSUME NEW fr \in Seq(Tree), NEW run \in Seq(Function), Len(fr) = Len(run), fr # << >>, NEW tree \in Tree
    PROVE  Shown(Append(Front(fr), tree), run) = Append(Front(Shown(fr, run)), Seen(Last(run), tree))
<1> DEFINE g == Append(Front(fr), tree)
           n == Len(fr)
           c == Seen(Last(run), tree)
           a == Shown(fr, run)
           h == Append(Front(a), c)
<1>1. n \in Nat \ {0} /\ run # << >> /\ Last(run) = run[n] /\ Last(run) \in Function
  <2>1. n \in Nat \ {0} BY PopPush
  <2>2. run # << >> BY <2>1
  <2> QED BY <2>1, <2>2, PopPush
<1>2. g \in Seq(Tree) /\ Len(g) = n /\ g[n] = tree /\ \A i \in 1 .. n - 1 : g[i] = fr[i] BY Relast
<1>3. c \in CallRecord BY <1>1, SeenIs
<1>4. a \in Seq(CallRecord) /\ Len(a) = n /\ \A i \in 1 .. n : a[i] = Seen(run[i], fr[i]) BY ShownIs
<1> HIDE DEF c, n, a
<1>5. a # << >> BY <1>1, <1>4
<1>6. h \in Seq(CallRecord) /\ Len(h) = n /\ h[n] = c /\ \A i \in 1 .. n - 1 : h[i] = a[i]
  BY <1>3, <1>4, <1>5, Relast
<1> HIDE DEF g, h
<1>7. Shown(g, run) \in Seq(CallRecord) /\ Len(Shown(g, run)) = n /\ \A i \in 1 .. n : Shown(g, run)[i] = Seen(run[i], g[i])
  BY <1>2, ShownIs DEF n
<1>8. ASSUME NEW i \in 1 .. n PROVE Shown(g, run)[i] = h[i]
  <2>1. CASE i = n BY <1>1, <1>2, <1>6, <1>7, <2>1 DEF c
  <2>2. CASE i # n
    <3>1. i \in 1 .. n - 1 BY <1>1, <2>2
    <3> QED BY <1>2, <1>4, <1>6, <1>7, <3>1
  <2> QED BY <2>1, <2>2
<1>9. Shown(g, run) = h BY <1>6, <1>7, <1>8, SameSeq
<1> QED BY <1>9 DEF g, h, c, a

LEMMA ShownPush ==
    ASSUME NEW fr \in Seq(Tree), NEW run \in Seq(Function), Len(fr) = Len(run), NEW tree \in Tree, NEW f \in Function
    PROVE  Shown(Append(fr, tree), Append(run, f)) = Append(Shown(fr, run), Seen(f, tree))
<1> DEFINE g == Append(fr, tree)
           r == Append(run, f)
           n == Len(fr)
           c == Seen(f, tree)
           h == Append(Shown(fr, run), c)
<1>1. n \in Nat BY LenProperties
<1>2. g \in Seq(Tree) /\ Len(g) = n + 1 /\ g[n + 1] = tree /\ \A i \in 1 .. n : g[i] = fr[i] BY AppendProperties
<1>3. r \in Seq(Function) /\ Len(r) = n + 1 /\ r[n + 1] = f /\ \A i \in 1 .. n : r[i] = run[i] BY AppendProperties
<1>4. c \in CallRecord BY SeenIs
<1>5. Shown(fr, run) \in Seq(CallRecord) /\ Len(Shown(fr, run)) = n /\ \A i \in 1 .. n : Shown(fr, run)[i] = Seen(run[i], fr[i])
  BY ShownIs
<1> HIDE DEF c, n
<1>6. h \in Seq(CallRecord) /\ Len(h) = n + 1 /\ h[n + 1] = c /\ \A i \in 1 .. n : h[i] = Shown(fr, run)[i]
  BY <1>4, <1>5, AppendProperties
<1> HIDE DEF g, r, h
<1>7. Shown(g, r) \in Seq(CallRecord) /\ Len(Shown(g, r)) = n + 1 /\ \A i \in 1 .. n + 1 : Shown(g, r)[i] = Seen(r[i], g[i])
  BY <1>2, <1>3, ShownIs
<1>8. ASSUME NEW i \in 1 .. n + 1 PROVE Shown(g, r)[i] = h[i]
  <2>1. CASE i = n + 1 BY <1>1, <1>2, <1>3, <1>6, <1>7, <2>1 DEF c
  <2>2. CASE i # n + 1
    <3>1. i \in 1 .. n BY <1>1, <2>2
    <3> QED BY <1>2, <1>3, <1>5, <1>6, <1>7, <3>1
  <2> QED BY <2>1, <2>2
<1>9. Shown(g, r) = h BY <1>6, <1>7, <1>8, SameSeq
<1> QED BY <1>9 DEF g, h, c, r

LEMMA ShownPop ==
    ASSUME NEW fr \in Seq(Tree), NEW run \in Seq(Function), Len(fr) = Len(run), fr # << >>
    PROVE  Shown(Front(fr), Front(run)) = Front(Shown(fr, run))
<1>1. Len(fr) \in Nat \ {0} /\ run # << >>
  <2>1. Len(fr) \in Nat \ {0} BY PopPush
  <2> QED BY <2>1
<1> DEFINE g == Front(fr)
           r == Front(run)
<1>2. g \in Seq(Tree) /\ Last(fr) \in Tree /\ Len(g) = Len(fr) - 1 /\ fr = Append(g, Last(fr)) BY PopPush
<1>3. r \in Seq(Function) /\ Last(run) \in Function /\ Len(r) = Len(run) - 1 /\ run = Append(r, Last(run)) BY <1>1, PopPush
<1> HIDE DEF g, r
<1>4. Shown(Append(g, Last(fr)), Append(r, Last(run))) = Append(Shown(g, r), Seen(Last(run), Last(fr)))
  <2> DEFINE t == Last(fr)
             f == Last(run)
  <2>1. Len(g) = Len(r) /\ g \in Seq(Tree) /\ r \in Seq(Function) /\ t \in Tree /\ f \in Function BY <1>2, <1>3
  <2> HIDE DEF t, f
  <2>2. Shown(Append(g, t), Append(r, f)) = Append(Shown(g, r), Seen(f, t)) BY <2>1, ShownPush
  <2> QED BY <2>2 DEF t, f
<1>5. Shown(g, r) \in Seq(CallRecord) /\ Seen(Last(run), Last(fr)) \in CallRecord BY <1>2, <1>3, ShownIs, SeenIs
<1>6. Front(Append(Shown(g, r), Seen(Last(run), Last(fr)))) = Shown(g, r) BY <1>5, PushPop
<1> QED BY <1>2, <1>3, <1>4, <1>6 DEF g, r

LEMMA ActiveShown == ActiveCalls = Shown(frames, running)
BY DEF ActiveCalls, Shown, Visible, Seen

(* What a call shows of a frame that was given a node.                      *)
LEMMA SeenPut ==
    ASSUME NEW f \in Function, NEW tree \in Tree, NEW x \in Name, NEW v \in Held, NEW scope \in Scope
    PROVE  LET m == IF x \in DOMAIN tree THEN Meaning(tree, x) ELSE scope
               old == Seen(f, tree)
           IN  Seen(f, Put(tree, x, v, scope)) =
                   [fn |-> f, means |-> [old.means EXCEPT ![x] = m],
                    locals |-> [old.locals EXCEPT ![x] = IF m = "local" THEN v ELSE NoValue]]
<1> DEFINE m == IF x \in DOMAIN tree THEN Meaning(tree, x) ELSE scope
           p == Put(tree, x, v, scope)
           old == Seen(f, tree)
           new == Seen(f, p)
           means == [old.means EXCEPT ![x] = m]
           locals == [old.locals EXCEPT ![x] = IF m = "local" THEN v ELSE NoValue]
<1>1. p \in Tree BY PutIs
<1>2. \A y \in Name : /\ Find(p, y) = (IF y = x THEN v ELSE Find(tree, y))
                      /\ Meaning(p, y) = (IF y = x THEN m ELSE Meaning(tree, y))
  <2>1. ASSUME NEW y \in Name
        PROVE  /\ Find(p, y) = (IF y = x THEN v ELSE Find(tree, y))
               /\ Meaning(p, y) = (IF y = x THEN m ELSE Meaning(tree, y))
    BY FindPut
  <2> QED BY <2>1
<1> HIDE DEF m, p
<1>3. /\ old \in CallRecord
      /\ \A y \in Name : /\ old.means[y] = Meaning(tree, y)
                         /\ old.locals[y] = (IF Meaning(tree, y) = "local" THEN Find(tree, y) ELSE NoValue)
  BY SeenIs
<1>4. /\ new \in CallRecord /\ new.fn = f
      /\ \A y \in Name : /\ new.means[y] = Meaning(p, y)
                         /\ new.locals[y] = (IF Meaning(p, y) = "local" THEN Find(p, y) ELSE NoValue)
  BY <1>1, SeenIs
<1> HIDE DEF old, new
<1>5. /\ old.means \in [Name -> Scope] /\ old.locals \in [Name -> Held]
      /\ new.means \in [Name -> Scope] /\ new.locals \in [Name -> Held]
      /\ new = [fn |-> new.fn, means |-> new.means, locals |-> new.locals]
  BY <1>3, <1>4 DEF CallRecord
<1>6. new.means = means
  <2>1. \A y \in Name : new.means[y] = (IF y = x THEN m ELSE old.means[y]) BY <1>2, <1>3, <1>4
  <2>2. new.means = [y \in Name |-> new.means[y]] BY <1>5
  <2>3. means = [y \in Name |-> IF y = x THEN m ELSE old.means[y]] BY <1>5
  <2> HIDE DEF means
  <2> QED BY <2>1, <2>2, <2>3
<1>7. new.locals = locals
  <2>1. \A y \in Name : new.locals[y] = (IF y = x THEN (IF m = "local" THEN v ELSE NoValue) ELSE old.locals[y])
    BY <1>2, <1>3, <1>4
  <2>2. new.locals = [y \in Name |-> new.locals[y]] BY <1>5
  <2>3. locals = [y \in Name |-> IF y = x THEN (IF m = "local" THEN v ELSE NoValue) ELSE old.locals[y]] BY <1>5
  <2> HIDE DEF locals
  <2> QED BY <2>1, <2>2, <2>3
<1>8. new = [fn |-> f, means |-> means, locals |-> locals]
  <2> HIDE DEF means, locals
  <2> QED BY <1>4, <1>5, <1>6, <1>7
<1> QED BY <1>8 DEF new, old, p, m

(* A local name is assigned; a name is given a meaning; what it means stays. *)
LEMMA SeenLocal ==
    ASSUME NEW f \in Function, NEW tree \in Tree, NEW x \in Name, NEW v \in Held, NEW scope \in Scope,
           Meaning(tree, x) = "local", x \in DOMAIN tree \/ scope = "local"
    PROVE  Seen(f, Put(tree, x, v, scope)) = [Seen(f, tree) EXCEPT !.locals[x] = v]
<1> DEFINE old == Seen(f, tree)
<1>1. Seen(f, Put(tree, x, v, scope)) = [fn |-> f, means |-> [old.means EXCEPT ![x] = "local"], locals |-> [old.locals EXCEPT ![x] = v]]
  BY SeenPut
<1>2. old \in CallRecord /\ old.fn = f /\ old.means[x] = "local" BY SeenIs
<1> HIDE DEF old
<1>3. old.means \in [Name -> Scope] /\ old = [fn |-> old.fn, means |-> old.means, locals |-> old.locals] BY <1>2 DEF CallRecord
<1>4. [old.means EXCEPT ![x] = "local"] = old.means BY <1>2, <1>3
<1>5. [old EXCEPT !.locals[x] = v] = [fn |-> old.fn, means |-> old.means, locals |-> [old.locals EXCEPT ![x] = v]] BY <1>3
<1> QED BY <1>1, <1>2, <1>4, <1>5 DEF old

LEMMA SeenMeans ==
    ASSUME NEW f \in Function, NEW tree \in Tree, NEW x \in Name, NEW v \in Held, NEW scope \in {"global", "static"},
           x \notin DOMAIN tree
    PROVE  Seen(f, Put(tree, x, v, scope)) = [Seen(f, tree) EXCEPT !.means[x] = scope]
<1> DEFINE old == Seen(f, tree)
<1>1. Seen(f, Put(tree, x, v, scope)) = [fn |-> f, means |-> [old.means EXCEPT ![x] = scope], locals |-> [old.locals EXCEPT ![x] = NoValue]]
  <2>1. scope \in Scope /\ scope # "local" BY DEF Scope
  <2> QED BY <2>1, SeenPut
<1>2. old \in CallRecord /\ old.fn = f /\ old.locals[x] = NoValue
  <2>1. Find(tree, x) = NoValue /\ Meaning(tree, x) = "local" BY FindIs
  <2> QED BY <2>1, SeenIs
<1> HIDE DEF old
<1>3. old.locals \in [Name -> Held] /\ old = [fn |-> old.fn, means |-> old.means, locals |-> old.locals] BY <1>2 DEF CallRecord
<1>4. [old.locals EXCEPT ![x] = NoValue] = old.locals BY <1>2, <1>3
<1>5. [old EXCEPT !.means[x] = scope] = [fn |-> old.fn, means |-> [old.means EXCEPT ![x] = scope], locals |-> old.locals] BY <1>3
<1> QED BY <1>1, <1>2, <1>4, <1>5 DEF old

LEMMA SeenSame ==
    ASSUME NEW f \in Function, NEW tree \in Tree, NEW x \in Name, NEW v \in Held, NEW scope \in Scope,
           x \in DOMAIN tree, Meaning(tree, x) # "local"
    PROVE  Seen(f, Put(tree, x, v, scope)) = Seen(f, tree)
<1> DEFINE old == Seen(f, tree)
           m == Meaning(tree, x)
<1>1. Seen(f, Put(tree, x, v, scope)) = [fn |-> f, means |-> [old.means EXCEPT ![x] = m], locals |-> [old.locals EXCEPT ![x] = NoValue]]
  BY SeenPut
<1>2. old \in CallRecord /\ old.fn = f /\ old.means[x] = m /\ old.locals[x] = NoValue BY SeenIs
<1> HIDE DEF old, m
<1>3. /\ old.means \in [Name -> Scope] /\ old.locals \in [Name -> Held]
      /\ old = [fn |-> old.fn, means |-> old.means, locals |-> old.locals]
  BY <1>2 DEF CallRecord
<1>4. [old.means EXCEPT ![x] = m] = old.means /\ [old.locals EXCEPT ![x] = NoValue] = old.locals BY <1>2, <1>3
<1> QED BY <1>1, <1>2, <1>3, <1>4 DEF old

(* The page's variables, those kept, the calls: each written where it says. *)
LEMMA MainShows ==
    ASSUME TypeOK, NEW x \in Name, NEW v \in Held, OnMain(x, v)
    PROVE  PageVars' = [PageVars EXCEPT ![x] = v] /\ ActiveCalls' = ActiveCalls /\ KeptVars' = KeptVars
<1>1. var_main' = Put(var_main, x, v, "local") /\ UNCHANGED <<frames, running, static>> BY DEF OnMain, Same
<1>2. var_main \in Tree /\ "local" \in Scope BY DEF TypeOK, Scope
<1>3. \A y \in Name : Find(var_main', y) = (IF y = x THEN v ELSE Find(var_main, y)) BY <1>1, <1>2, FindPut
<1>4. PageVars' = [y \in Name |-> Find(var_main', y)] BY DEF PageVars
<1>5. PageVars' = [y \in Name |-> IF y = x THEN v ELSE Find(var_main, y)] BY <1>3, <1>4
<1>6. PageVars' = [PageVars EXCEPT ![x] = v] BY <1>5 DEF PageVars
<1> QED BY <1>1, <1>6, ActiveShown DEF ActiveCalls, Visible, KeptVars

LEMMA StaticShows ==
    ASSUME TypeOK, InCall, NEW x \in Name, NEW v \in Held, SetStatic(x, v)
    PROVE  KeptVars' = [KeptVars EXCEPT ![cur_func][x] = v]
<1> DEFINE c == cur_func
<1>1. static \in [Function -> Tree] /\ c \in Function /\ static[c] \in Tree /\ "local" \in Scope
  BY InCallTypes DEF TypeOK, Scope
<1>2. static' = [static EXCEPT ![c] = Put(static[c], x, v, "local")] BY DEF SetStatic
<1> HIDE DEF c
<1>3. \A f \in Function : static'[f] = (IF f = c THEN Put(static[c], x, v, "local") ELSE static[f]) BY <1>1, <1>2
<1>4. \A y \in Name : Find(Put(static[c], x, v, "local"), y) = (IF y = x THEN v ELSE Find(static[c], y)) BY <1>1, FindPut
<1>5. KeptVars' = [f \in Function |-> [y \in Name |-> Find(static'[f], y)]] BY DEF KeptVars
<1>6. \A f \in Function : [y \in Name |-> Find(static'[f], y)] =
          (IF f = c THEN [[y \in Name |-> Find(static[f], y)] EXCEPT ![x] = v] ELSE [y \in Name |-> Find(static[f], y)])
  <2> SUFFICES ASSUME NEW f \in Function
               PROVE [y \in Name |-> Find(static'[f], y)] =
                     (IF f = c THEN [[y \in Name |-> Find(static[f], y)] EXCEPT ![x] = v] ELSE [y \in Name |-> Find(static[f], y)])
    OBVIOUS
  <2>1. CASE f = c
    <3>1. \A y \in Name : Find(static'[f], y) = (IF y = x THEN v ELSE Find(static[f], y)) BY <1>3, <1>4, <2>1
    <3>2. [y \in Name |-> Find(static'[f], y)] = [y \in Name |-> IF y = x THEN v ELSE Find(static[f], y)] BY <3>1
    <3> QED BY <2>1, <3>2
  <2>2. CASE f # c
    <3>1. static'[f] = static[f] BY <1>3, <2>2
    <3> QED BY <2>2, <3>1
  <2> QED BY <2>1, <2>2
<1>7. KeptVars' = [f \in Function |-> IF f = c THEN [[y \in Name |-> Find(static[f], y)] EXCEPT ![x] = v]
                                      ELSE [y \in Name |-> Find(static[f], y)]]
  BY <1>5, <1>6
<1>8. KeptVars' = [KeptVars EXCEPT ![c] = [KeptVars[c] EXCEPT ![x] = v]] BY <1>1, <1>7 DEF KeptVars
<1> QED BY <1>8 DEF c

LEMMA FrameShows ==
    ASSUME TypeOK, InCall, NEW tree \in Tree, SetFrame(tree), running' = running
    PROVE  ActiveCalls' = Append(Front(ActiveCalls), Seen(cur_func, tree))
<1>1. frames \in Seq(Tree) /\ running \in Seq(Function) /\ Len(running) = Len(frames) /\ frames # << >> BY InCallTypes
<1>2. Shown(Append(Front(frames), tree), running) = Append(Front(Shown(frames, running)), Seen(Last(running), tree))
  BY <1>1, ShownRelast
<1>3. frames' = Append(Front(frames), tree) BY DEF SetFrame
<1>4. ActiveCalls' = Shown(frames', running') BY ActiveShown DEF ActiveCalls, Shown, Visible, Seen
<1> QED BY <1>2, <1>3, <1>4, ActiveShown DEF cur_func

-----------------------------------------------------------------------------
(* The language's actions, in terms of what the trees show.                 *)
LEMMA SpokenHere ==
    ASSUME TypeOK
    PROVE  /\ Language!Inside <=> InCall
           /\ InCall => /\ Language!This = Seen(cur_func, Frame) /\ Seen(cur_func, Frame) \in CallRecord
                        /\ Language!This = Last(ActiveCalls) /\ Language!This.fn = cur_func /\ cur_func \in Function
                        /\ \A x \in Name : Language!This.means[x] = Meaning(Frame, x)
<1>1. (ActiveCalls # << >> <=> InCall) /\ (InCall => Last(ActiveCalls) = Seen(cur_func, Frame)) BY ActiveIs
<1>2. InCall => cur_func \in Function /\ Frame \in Tree BY InCallTypes
<1>3. InCall => /\ Seen(cur_func, Frame) \in CallRecord /\ Seen(cur_func, Frame).fn = cur_func
                /\ \A x \in Name : Seen(cur_func, Frame).means[x] = Meaning(Frame, x)
  BY <1>2, SeenIs
<1> QED BY <1>1, <1>2, <1>3, LanguageIs

LEMMA SpokenAssign ==
    ASSUME NEW x, NEW v
    PROVE  Language!Assign(x, v) <=>
               \/ /\ ~Language!Inside \/ Language!This.means[x] = "global"
                  /\ PageVars' = [PageVars EXCEPT ![x] = v]
                  /\ ActiveCalls' = ActiveCalls /\ KeptVars' = KeptVars
               \/ /\ Language!Inside /\ Language!This.means[x] = "static"
                  /\ KeptVars' = [KeptVars EXCEPT ![Language!This.fn][x] = v]
                  /\ PageVars' = PageVars /\ ActiveCalls' = ActiveCalls
               \/ /\ Language!Inside /\ Language!This.means[x] = "local"
                  /\ ActiveCalls' = Append(Front(ActiveCalls), [Language!This EXCEPT !.locals[x] = v])
                  /\ PageVars' = PageVars /\ KeptVars' = KeptVars
<1>1. Language!Front(ActiveCalls) = Front(ActiveCalls) BY LanguageIs
<1> QED BY <1>1 DEF Language!Assign, PageVars, ActiveCalls, KeptVars

(* The values of v' where v is a variable's history are not needed: each    *)
(* of the cases of Writes is one of the language's.                         *)
LEMMA WritesAssigns ==
    ASSUME ScopeInv, NEW x \in Name, NEW v \in Held, Writes(x, v, "local") PROVE Language!Assign(x, v)
<1>1. TypeOK /\ "local" \in Scope BY DEF ScopeInv, Scope
<1>2. /\ Language!Inside <=> InCall
      /\ InCall => /\ Language!This = Seen(cur_func, Frame) /\ Language!This.fn = cur_func /\ cur_func \in Function
                   /\ Language!This.means[x] = Meaning(Frame, x)
  BY <1>1, SpokenHere
<1>3. CASE (~InCall \/ Meaning(Frame, x) = "global") /\ OnMain(x, v)
  <2>1. PageVars' = [PageVars EXCEPT ![x] = v] /\ ActiveCalls' = ActiveCalls /\ KeptVars' = KeptVars
    BY <1>1, <1>3, MainShows
  <2>2. ~Language!Inside \/ Language!This.means[x] = "global" BY <1>2, <1>3
  <2> QED BY <2>1, <2>2, SpokenAssign
<1>4. CASE InCall /\ Meaning(Frame, x) = "static" /\ OnStatic(x, v)
  <2>1. KeptVars' = [KeptVars EXCEPT ![cur_func][x] = v] BY <1>1, <1>4, StaticShows DEF OnStatic
  <2>2. PageVars' = PageVars /\ ActiveCalls' = ActiveCalls BY <1>4 DEF OnStatic, Same, PageVars, ActiveCalls, Visible
  <2>3. Language!Inside /\ Language!This.means[x] = "static" /\ Language!This.fn = cur_func BY <1>2, <1>4
  <2> QED BY <2>1, <2>2, <2>3, SpokenAssign
<1>5. CASE InCall /\ Meaning(Frame, x) = "local" /\ OnFrame(x, v, "local")
  <2>1. Frame \in Tree BY <1>1, <1>5, InCallTypes
  <2>2. Put(Frame, x, v, "local") \in Tree BY <1>1, <2>1, PutIs
  <2>3. ActiveCalls' = Append(Front(ActiveCalls), Seen(cur_func, Put(Frame, x, v, "local")))
    BY <1>1, <1>5, <2>2, FrameShows DEF OnFrame, Same
  <2>4. Seen(cur_func, Put(Frame, x, v, "local")) = [Seen(cur_func, Frame) EXCEPT !.locals[x] = v]
    BY <1>1, <1>2, <1>5, <2>1, SeenLocal
  <2>5. PageVars' = PageVars /\ KeptVars' = KeptVars BY <1>5 DEF OnFrame, PageVars, KeptVars
  <2>6. Language!Inside /\ Language!This.means[x] = "local" /\ Language!This = Seen(cur_func, Frame) BY <1>2, <1>5
  <2>7. ActiveCalls' = Append(Front(ActiveCalls), [Language!This EXCEPT !.locals[x] = v]) BY <2>3, <2>4, <2>6
  <2> QED BY <2>5, <2>6, <2>7, SpokenAssign
<1>6. InCall /\ x \notin DOMAIN Frame => Meaning(Frame, x) = "local" BY DEF Meaning
<1> QED BY <1>3, <1>4, <1>5, <1>6 DEF Writes

(* A node that stays a placeholder shows as before.                         *)
LEMMA SameShows ==
    ASSUME TypeOK, InCall, NEW x \in Name, NEW v \in Held, NEW scope \in Scope, x \in DOMAIN Frame,
           Meaning(Frame, x) # "local", OnFrame(x, v, scope)
    PROVE  PageVars' = PageVars /\ ActiveCalls' = ActiveCalls /\ KeptVars' = KeptVars
<1>1. Frame \in Tree /\ cur_func \in Function BY InCallTypes
<1>2. Put(Frame, x, v, scope) \in Tree BY <1>1, PutIs
<1>3. ActiveCalls' = Append(Front(ActiveCalls), Seen(cur_func, Put(Frame, x, v, scope)))
  BY <1>2, FrameShows DEF OnFrame, Same
<1>4. Seen(cur_func, Put(Frame, x, v, scope)) = Seen(cur_func, Frame) BY <1>1, SeenSame
<1>5. ActiveCalls \in Seq(CallRecord) /\ ActiveCalls # << >> /\ Last(ActiveCalls) = Seen(cur_func, Frame) BY ActiveIs
<1>6. ActiveCalls = Append(Front(ActiveCalls), Last(ActiveCalls))
  <2> DEFINE a == ActiveCalls
  <2>1. a \in Seq(CallRecord) /\ a # << >> BY <1>5
  <2> HIDE DEF a
  <2>2. a = Append(Front(a), Last(a)) BY <2>1, PopPush
  <2> QED BY <2>2 DEF a
<1>7. PageVars' = PageVars /\ KeptVars' = KeptVars BY DEF OnFrame, PageVars, KeptVars
<1> QED BY <1>3, <1>4, <1>5, <1>6, <1>7

LEMMA SpokenStatic ==
    ASSUME NEW x, NEW v
    PROVE  Language!DeclareStatic(x, v) <=>
               \/ /\ Language!Inside /\ Language!This.means[x] = "local" /\ Language!Denotes(x) = NoValue
                  /\ ActiveCalls' = Append(Front(ActiveCalls), [Language!This EXCEPT !.means[x] = "static"])
                  /\ KeptVars' = IF KeptVars[Language!This.fn][x] = NoValue
                                 THEN [KeptVars EXCEPT ![Language!This.fn][x] = v] ELSE KeptVars
                  /\ PageVars' = PageVars
               \/ /\ Language!Inside /\ Language!This.means[x] = "static"
                  /\ PageVars' = PageVars /\ ActiveCalls' = ActiveCalls /\ KeptVars' = KeptVars
               \/ /\ ~Language!Inside \/ Language!This.means[x] = "global"
                     \/ (Language!This.means[x] = "local" /\ Language!Denotes(x) # NoValue)
                  /\ Language!Assign(x, v)
<1>1. Language!Front(ActiveCalls) = Front(ActiveCalls) BY LanguageIs
<1> QED BY <1>1 DEF Language!DeclareStatic, Language!Mean, Language!langVars, PageVars, ActiveCalls, KeptVars

LEMMA SpokenGlobal ==
    ASSUME NEW x
    PROVE  Language!DeclareGlobal(x) <=>
               /\ Language!Inside
               /\ IF Language!Denotes(x) = NoValue /\ Language!This.means[x] = "local"
                  THEN ActiveCalls' = Append(Front(ActiveCalls), [Language!This EXCEPT !.means[x] = "global"])
                  ELSE ActiveCalls' = ActiveCalls
               /\ PageVars' = PageVars /\ KeptVars' = KeptVars
<1>1. Language!Front(ActiveCalls) = Front(ActiveCalls) BY LanguageIs
<1> QED BY <1>1 DEF Language!DeclareGlobal, Language!Mean, PageVars, ActiveCalls, KeptVars

(* A node that is not deleted.                                              *)
LEMMA NotDeleted ==
    ASSUME ScopeInv, InCall, NEW x \in Name, ~DeletedHere(x), x \in DOMAIN Frame
    PROVE  /\ Find(Frame, x) # NoValue
           /\ Meaning(Frame, x) = "static" => Find(static[cur_func], x) # NoValue
<1>1. Frame \in Tree BY InvIs
<1>2. Frame[x].val = Find(Frame, x) /\ Frame[x].scope = Meaning(Frame, x) BY <1>1, FindIs
<1> QED BY <1>2 DEF DeletedHere

(* A frame without a node for x is given a placeholder.                     *)
LEMMA MeansShows ==
    ASSUME TypeOK, InCall, NEW x \in Name, NEW v \in Held, NEW scope \in {"global", "static"}, x \notin DOMAIN Frame,
           SetFrame(Put(Frame, x, v, scope)), running' = running
    PROVE  /\ Language!Inside /\ Language!This.means[x] = "local" /\ Language!Denotes(x) = NoValue
           /\ Language!This.fn = cur_func /\ KeptVars[cur_func][x] = Find(static[cur_func], x)
           /\ ActiveCalls' = Append(Front(ActiveCalls), [Language!This EXCEPT !.means[x] = scope])
<1>1. Frame \in Tree /\ cur_func \in Function /\ scope \in Scope BY InCallTypes DEF Scope
<1>2. Put(Frame, x, v, scope) \in Tree BY <1>1, PutIs
<1>3. ActiveCalls' = Append(Front(ActiveCalls), Seen(cur_func, Put(Frame, x, v, scope))) BY <1>2, FrameShows
<1>4. Seen(cur_func, Put(Frame, x, v, scope)) = [Seen(cur_func, Frame) EXCEPT !.means[x] = scope] BY <1>1, SeenMeans
<1>5. Meaning(Frame, x) = "local" /\ Find(Frame, x) = NoValue BY <1>1, FindIs
<1>6. Language!Inside /\ Language!This = Seen(cur_func, Frame) /\ Language!This.fn = cur_func /\ Language!This.means[x] = "local"
  BY <1>5, SpokenHere
<1>7. Language!Denotes(x) = NoValue BY <1>5, DenotesIs
<1>8. KeptVars[cur_func][x] = Find(static[cur_func], x) BY <1>1 DEF KeptVars
<1> QED BY <1>3, <1>4, <1>6, <1>7, <1>8

LEMMA StaticStep ==
    ASSUME Careful, ScopeInv, NEW x \in Name, NEW v \in Value, DeclareStatic(x, v) PROVE Language!DeclareStatic(x, v)
<1>1. TypeOK /\ Writes(x, v, "static") /\ ~DeletedHere(x) /\ v \in Held /\ "static" \in Scope
  BY StaticWrites DEF ScopeInv, DeclareStatic, Held, Scope
<1>2. /\ Language!Inside <=> InCall
      /\ InCall => /\ Language!This = Seen(cur_func, Frame) /\ Language!This.fn = cur_func /\ cur_func \in Function
                   /\ Language!This.means[x] = Meaning(Frame, x)
  BY <1>1, SpokenHere
<1>3. CASE (~InCall \/ Meaning(Frame, x) = "global") /\ OnMain(x, v)
  <2>1. PageVars' = [PageVars EXCEPT ![x] = v] /\ ActiveCalls' = ActiveCalls /\ KeptVars' = KeptVars
    BY <1>1, <1>3, MainShows
  <2>2. ~Language!Inside \/ Language!This.means[x] = "global" BY <1>2, <1>3
  <2>3. Language!Assign(x, v) BY <2>1, <2>2, SpokenAssign
  <2> QED BY <2>2, <2>3, SpokenStatic
<1>4. CASE InCall /\ x \in DOMAIN Frame /\ Meaning(Frame, x) = "static" /\ OnFrame(x, v, "static")
  <2>1. PageVars' = PageVars /\ ActiveCalls' = ActiveCalls /\ KeptVars' = KeptVars BY <1>1, <1>4, SameShows
  <2> QED BY <1>2, <1>4, <2>1, SpokenStatic
<1>5. CASE InCall /\ x \in DOMAIN Frame /\ Meaning(Frame, x) = "local" /\ OnFrame(x, v, "static")
  <2>1. Find(Frame, x) # NoValue BY <1>1, <1>5, NotDeleted
  <2>2. Language!Denotes(x) # NoValue BY <1>1, <1>5, <2>1, DenotesIs
  <2>3. Put(Frame, x, v, "static") = Put(Frame, x, v, "local") BY <1>5, PutKnown
  <2>4. Writes(x, v, "local") BY <1>5, <2>3 DEF Writes, OnFrame
  <2>5. Language!Assign(x, v) BY <1>1, <2>4, WritesAssigns
  <2> QED BY <1>2, <1>5, <2>2, <2>5, SpokenStatic
<1>6. CASE InCall /\ x \notin DOMAIN Frame
  <2>1. IF Find(static[cur_func], x) = NoValue THEN OnBoth(x, v) ELSE OnFrame(x, v, "static")
    <3>1. Meaning(Frame, x) = "local" BY <1>6 DEF Meaning
    <3> QED BY <1>1, <1>6, <3>1 DEF Writes
  <2>2. SetFrame(Put(Frame, x, v, "static")) /\ running' = running /\ var_main' = var_main
    BY <2>1 DEF OnBoth, OnFrame, Same
  <2>3. /\ Language!Inside /\ Language!This.means[x] = "local" /\ Language!Denotes(x) = NoValue
        /\ Language!This.fn = cur_func /\ KeptVars[cur_func][x] = Find(static[cur_func], x)
        /\ ActiveCalls' = Append(Front(ActiveCalls), [Language!This EXCEPT !.means[x] = "static"])
    BY <1>1, <1>6, <2>2, MeansShows
  <2>4. PageVars' = PageVars BY <2>2 DEF PageVars
  <2>5. KeptVars' = IF KeptVars[Language!This.fn][x] = NoValue
                    THEN [KeptVars EXCEPT ![Language!This.fn][x] = v] ELSE KeptVars
    <3>1. CASE Find(static[cur_func], x) = NoValue
      <4>1. KeptVars' = [KeptVars EXCEPT ![cur_func][x] = v] BY <1>1, <1>6, <2>1, <3>1, StaticShows DEF OnBoth
      <4> QED BY <2>3, <3>1, <4>1
    <3>2. CASE Find(static[cur_func], x) # NoValue
      <4>1. KeptVars' = KeptVars BY <2>1, <3>2 DEF OnFrame, KeptVars
      <4> QED BY <2>3, <3>2, <4>1
    <3> QED BY <3>1, <3>2
  <2> QED BY <2>3, <2>4, <2>5, SpokenStatic
<1> QED BY <1>1, <1>3, <1>4, <1>5, <1>6 DEF Writes

LEMMA GlobalStep ==
    ASSUME ScopesAssumption, Careful, ScopeInv, NEW x \in Name, DeclareGlobal(x) PROVE Language!DeclareGlobal(x)
<1>1. TypeOK /\ Zero \in Held /\ "global" \in Scope BY DEF ScopeInv, ScopesAssumption, Held, Scope
<1>2. /\ InCall /\ ~DeletedHere(x)
      /\ IF GetVar(x) = NoValue THEN Writes(x, Zero, "global")
         ELSE UNCHANGED <<var_main, frames, on_main, running, static, overrun>>
  BY GlobalWrites
<1>3. Language!Inside /\ Language!This.means[x] = Meaning(Frame, x) BY <1>1, <1>2, SpokenHere
<1>4. GetVar(x) = Language!Denotes(x) BY ReadsRight
<1>5. CASE GetVar(x) # NoValue
  <2>1. PageVars' = PageVars /\ ActiveCalls' = ActiveCalls /\ KeptVars' = KeptVars
    BY <1>2, <1>5 DEF PageVars, ActiveCalls, KeptVars, Visible
  <2> QED BY <1>3, <1>4, <1>5, <2>1, SpokenGlobal
<1>6. CASE GetVar(x) = NoValue /\ x \in DOMAIN Frame
  <2>1. /\ Find(Frame, x) # NoValue
        /\ Meaning(Frame, x) = "static" => Find(static[cur_func], x) # NoValue
    BY <1>2, <1>6, NotDeleted
  <2>2. Frame \in Tree BY <1>2, InvIs
  <2>3. Meaning(Frame, x) \in Scope BY <2>2, FindIs
  <2>4. Meaning(Frame, x) = "global" BY <1>2, <1>6, <2>1, <2>3, GetVarIs DEF Scope
  <2>5. OnFrame(x, Zero, "global") BY <1>2, <1>6, <2>4 DEF Writes
  <2>6. PageVars' = PageVars /\ ActiveCalls' = ActiveCalls /\ KeptVars' = KeptVars BY <1>1, <1>2, <1>6, <2>4, <2>5, SameShows
  <2> QED BY <1>3, <2>4, <2>6, SpokenGlobal
<1>7. CASE GetVar(x) = NoValue /\ x \notin DOMAIN Frame
  <2>1. Meaning(Frame, x) = "local" BY <1>7 DEF Meaning
  <2>2. OnFrame(x, Zero, "global") BY <1>2, <1>7, <2>1 DEF Writes
  <2>3. ActiveCalls' = Append(Front(ActiveCalls), [Language!This EXCEPT !.means[x] = "global"])
    BY <1>1, <1>2, <1>7, <2>2, MeansShows DEF OnFrame, Same
  <2>4. PageVars' = PageVars /\ KeptVars' = KeptVars BY <2>2 DEF OnFrame, PageVars, KeptVars
  <2> QED BY <1>3, <1>4, <1>7, <2>1, <2>3, <2>4, SpokenGlobal
<1> QED BY <1>5, <1>6, <1>7

LEMMA UnsetStep ==
    ASSUME ScopeInv, NEW x \in Name, UnSet(x) PROVE Language!Unset(x)
<1>1. GetVar(x) # NoValue /\ NoValue \in Held BY DEF UnSet, Held
<1>2. Language!Denotes(x) # NoValue BY <1>1, ReadsRight
<1>3. Writes(x, NoValue, "local") BY UnSetUnsets DEF Unsets, Writes
<1>4. Language!Assign(x, NoValue) BY <1>1, <1>3, WritesAssigns
<1> QED BY <1>2, <1>4 DEF Language!Unset

LEMMA CallStep ==
    ASSUME ScopesAssumption, TypeOK, NEW f \in Function, NEW args \in [Params[f] -> Value], RunFunc(f, args)
    PROVE  Language!Call(f, args)
<1> DEFINE t == [x \in Params[f] |-> [scope |-> "local", val |-> args[x]]]
           c == [fn |-> f, means |-> [x \in Name |-> "local"],
                 locals |-> [x \in Name |-> IF x \in Params[f] THEN args[x] ELSE NoValue]]
<1>1. t \in Tree BY CallIs
<1>2. Seen(f, t) = c
  <2>1. \A x \in Name : /\ Meaning(t, x) = "local"
                        /\ Find(t, x) = (IF x \in Params[f] THEN args[x] ELSE NoValue)
    BY DEF Meaning, Find
  <2> HIDE DEF t
  <2> QED BY <2>1 DEF Seen
<1>3. frames' = Append(frames, t) /\ running' = Append(running, f) /\ UNCHANGED <<var_main, static>>
      /\ Len(frames) < program.calls
  BY DEF RunFunc
<1> HIDE DEF t, c
<1>4. frames \in Seq(Tree) /\ running \in Seq(Function) /\ Len(frames) = Len(running) /\ Len(frames) \in Nat BY DEF TypeOK
<1>5. Shown(frames', running') = Append(Shown(frames, running), c) BY <1>1, <1>2, <1>3, <1>4, ShownPush
<1>6. ActiveCalls' = Append(ActiveCalls, c)
  <2>1. ActiveCalls' = Shown(frames', running') BY DEF ActiveCalls, Shown, Visible, Seen
  <2> QED BY <1>5, <2>1, ActiveShown
<1>7. PageVars' = PageVars /\ KeptVars' = KeptVars BY <1>3 DEF PageVars, KeptVars
<1>8. Len(ActiveCalls) < MaxCalls
  <2>1. Len(ActiveCalls) = Len(frames) BY ActiveIs
  <2>2. program.calls \in 0 .. MaxCalls /\ MaxCalls \in Nat BY ProgramIs DEF ScopesAssumption
  <2> QED BY <1>3, <1>4, <2>1, <2>2
<1> QED BY <1>6, <1>7, <1>8 DEF Language!Call, PageVars, ActiveCalls, KeptVars, c

LEMMA ReturnStep ==
    ASSUME TypeOK, PopStackFrame PROVE Language!Return
<1>1. InCall /\ frames' = Front(frames) /\ running' = Front(running) BY ReturnIs
<1>2. UNCHANGED <<var_main, static>> BY DEF PopStackFrame
<1>3. frames \in Seq(Tree) /\ running \in Seq(Function) /\ Len(frames) = Len(running) /\ frames # << >> BY <1>1, InCallTypes
<1>4. Shown(frames', running') = Front(Shown(frames, running)) BY <1>1, <1>3, ShownPop
<1>5. ActiveCalls' = Front(ActiveCalls)
  <2>1. ActiveCalls' = Shown(frames', running') BY DEF ActiveCalls, Shown, Visible, Seen
  <2> QED BY <1>4, <2>1, ActiveShown
<1>6. PageVars' = PageVars /\ KeptVars' = KeptVars BY <1>2 DEF PageVars, KeptVars
<1>7. Language!Front(ActiveCalls) = Front(ActiveCalls) /\ Language!Inside BY <1>1, SpokenHere, LanguageIs
<1> QED BY <1>5, <1>6, <1>7 DEF Language!Return, PageVars, ActiveCalls, KeptVars

-----------------------------------------------------------------------------
(* The steps of KeepsLanguage.                                             *)
Spoken ==
    LET of == said'.of
    IN  \/ said'.does = "assign" /\ Language!Assign(of[1], of[2])
        \/ said'.does = "static" /\ Language!DeclareStatic(of[1], of[2])
        \/ said'.does = "global" /\ Language!DeclareGlobal(of[1])
        \/ said'.does = "unset"  /\ Language!Unset(of[1])
        \/ said'.does = "call"   /\ Language!Call(of[1], of[2])
        \/ said'.does = "return" /\ Language!Return

LEMMA SpokenStep == ASSUME ScopesAssumption, Careful, ScopeInv, Next PROVE Spoken
<1>1. /\ program.names \subseteq Name /\ program.functions \subseteq Function /\ program.values \subseteq Value
      /\ Value \subseteq Held
  BY ProgramIs DEF ScopeInv
<1>2. ASSUME NEW x \in program.names, NEW v \in program.values, Assign(x, v), Says("assign", <<x, v>>) PROVE Spoken
  <2>1. said'.does = "assign" /\ said'.of[1] = x /\ said'.of[2] = v BY <1>2 DEF Says
  <2>2. Writes(x, v, "local") BY <1>1, <1>2, AssignWrites
  <2>3. Language!Assign(x, v) BY <1>1, <2>2, WritesAssigns
  <2> QED BY <2>1, <2>3 DEF Spoken
<1>3. ASSUME NEW x \in program.names, NEW v \in program.values, DeclareStatic(x, v), Says("static", <<x, v>>) PROVE Spoken
  <2>1. said'.does = "static" /\ said'.of[1] = x /\ said'.of[2] = v BY <1>3 DEF Says
  <2>2. Language!DeclareStatic(x, v) BY <1>1, <1>3, StaticStep
  <2> QED BY <2>1, <2>2 DEF Spoken
<1>4. ASSUME NEW x \in program.names, DeclareGlobal(x), Says("global", <<x>>) PROVE Spoken
  <2>1. said'.does = "global" /\ said'.of[1] = x BY <1>4 DEF Says
  <2>2. Language!DeclareGlobal(x) BY <1>1, <1>4, GlobalStep
  <2> QED BY <2>1, <2>2 DEF Spoken
<1>5. ASSUME NEW x \in program.names, UnSet(x), Says("unset", <<x>>) PROVE Spoken
  <2>1. said'.does = "unset" /\ said'.of[1] = x BY <1>5 DEF Says
  <2>2. Language!Unset(x) BY <1>1, <1>5, UnsetStep
  <2> QED BY <2>1, <2>2 DEF Spoken
<1>6. ASSUME NEW f \in program.functions, NEW args \in [Params[f] -> program.values], RunFunc(f, args), Says("call", <<f, args>>)
      PROVE Spoken
  <2>1. said'.does = "call" /\ said'.of[1] = f /\ said'.of[2] = args BY <1>6 DEF Says
  <2>2. f \in Function /\ args \in [Params[f] -> Value] BY <1>1
  <2>3. Language!Call(f, args) BY <1>6, <2>2, CallStep DEF ScopeInv
  <2> QED BY <2>1, <2>3 DEF Spoken
<1>7. ASSUME PopStackFrame, Says("return", << >>) PROVE Spoken
  <2>1. said'.does = "return" BY <1>7 DEF Says
  <2>2. Language!Return BY <1>7, ReturnStep DEF ScopeInv
  <2> QED BY <2>1, <2>2 DEF Spoken
<1> QED BY <1>2, <1>3, <1>4, <1>5, <1>6, <1>7 DEF Next

LEMMA SpokenInit == ASSUME Init PROVE Language!LangInit
<1>1. var_main = Empty /\ frames = << >> /\ static = [f \in Function |-> Empty] BY DEF Init
<1>2. ASSUME NEW x \in Name PROVE Find(Empty, x) = NoValue BY DEF Find, Empty
<1>3. PageVars = [x \in Name |-> NoValue] BY <1>1, <1>2 DEF PageVars
<1>4. KeptVars = [f \in Function |-> [x \in Name |-> NoValue]]
  <2>1. KeptVars = [f \in Function |-> [x \in Name |-> Find(Empty, x)]] BY <1>1 DEF KeptVars
  <2>2. [x \in Name |-> Find(Empty, x)] = [x \in Name |-> NoValue] BY <1>2
  <2> QED BY <2>1, <2>2
<1>5. ActiveCalls = << >>
  <2>1. TypeOK /\ ~InCall BY <1>1, TypeInit DEF InCall
  <2> QED BY <2>1, ActiveIs
<1> QED BY <1>3, <1>4, <1>5 DEF Language!LangInit, Language!Nothing, PageVars, KeptVars, ActiveCalls

(* Every statement, call and return of a careful program does to the        *)
(* variables what the language says of it: the trees implement it whatever  *)
(* the number of names, functions and active calls.                        *)
THEOREM ScopesKeepsLanguage == ASSUME Careful PROVE Spec => KeepsLanguage
<1>1. Init => Language!LangInit BY SpokenInit
<1>2. ScopeInv /\ [Next]_vars => [Spoken]_vars BY ScopesAssumption, SpokenStep
<1>3. Spec => [][Spoken]_vars BY <1>2, ScopeAlways, PTL DEF Spec
<1>4. Spec => Language!LangInit BY <1>1, PTL DEF Spec
<1> QED BY <1>3, <1>4, PTL DEF KeepsLanguage, Spoken
=============================================================================
