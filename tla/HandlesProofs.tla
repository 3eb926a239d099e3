---------------------------- MODULE HandlesProofs ----------------------------
(***************************************************************************)
(* What a page holds, for any databases, ports and number of calls.  The    *)
(* inductive invariant has a part for each list: the part of mSQL, that of  *)
(* Postgres95 and that of the files say of what they name that it is open   *)
(* and that no other list names it (Kept), and that the numbers they were   *)
(* given stay behind the counter (Counted).  The calls work on records step *)
(* by step; each step has a lemma that carries the part through.            *)
(***************************************************************************)
EXTENDS Handles, FiniteSetTheorems, WellFoundedInduction, SequenceTheorems, TLAPS

MsqlState == [sock : {none} \cup Object, db : Database \cup {"none"}, selected : Database \cup {"none"},
              port : Port \cup {"none"}, results : SUBSET Node, ind : Nat]
PgState   == [conns : SUBSET Node, results : SUBSET Node, cind : Nat, ind : Nat, types : Nat]
Given     == {"msql", "pg", "pgconn"} \X Nat \X Object
FpObjects == {fp[i].obj : i \in DOMAIN fp}
MsqlObjects(m) == Objects(m.results) \cup ({m.sock} \ {none})
PgObjects(p)   == Objects(p.conns) \cup Objects(p.results)

(* A page that never fails to connect and always is told the types.         *)
NothingLost == {"failed connection", "no type list"} \subseteq Avoided

-----------------------------------------------------------------------------
(* One list: its nodes are open, their objects have been opened and are its *)
(* own.  others are the objects named elsewhere.                            *)
KeptList(list, others, nx, fr) ==
    /\ \A e \in list : e.obj < nx /\ fr[e.obj] = 0 /\ e.obj \notin others
    /\ \A e, g \in list : e.obj = g.obj => e = g

(* What the history says of objects, opened and not, given back once.       *)
Once(nx, fr) ==
    /\ \A o \in Object : fr[o] <= 1
    /\ \A o \in Object : o >= nx => fr[o] = 0

(* Every object that was opened is given back or named somewhere.           *)
Covered(named, nx, fr) == NothingLost => \A o \in 1 .. nx - 1 : fr[o] = 0 => o \in named

KeptOthers(others, nx, fr) == \A o \in others : o \in Object /\ o < nx /\ fr[o] = 0

KeptMsql(m, others, nx, fr) ==
    /\ KeptList(m.results, others \cup {m.sock}, nx, fr)
    /\ m.sock # none => m.sock < nx /\ fr[m.sock] = 0 /\ m.sock \notin others

(* The numbers of one kind: below the counter, each given for one object,   *)
(* and what the list holds was given.                                       *)
Counted(kind, list, ind, gv) ==
    /\ \A g \in gv : g[1] = kind => g[2] < ind
    /\ \A e \in list : <<kind, e.ind, e.obj>> \in gv

OneMeaning(gv) == \A g, h \in gv : g[1] = h[1] /\ g[2] = h[2] => g[3] = h[3]

-----------------------------------------------------------------------------
(* The least of some numbers.                                              *)
LEMMA NatMin == ASSUME NEW S, S \subseteq Nat, S # {} PROVE Min(S) \in S /\ \A y \in S : Min(S) <= y
<1>1. IsWellFoundedOn(OpToRel(<, Nat), Nat) BY NatLessThanWellFounded
<1>2. \E x \in S : \A y \in S : ~(<<y, x>> \in OpToRel(<, Nat)) BY <1>1, WFMin
<1>3. PICK x \in S : \A y \in S : ~(<<y, x>> \in OpToRel(<, Nat)) BY <1>2
<1>4. ASSUME NEW y \in S PROVE x <= y
  <2>1. ~(<<y, x>> \in OpToRel(<, Nat)) BY <1>3
  <2>2. ~(y < x) BY <2>1 DEF OpToRel
  <2> QED BY <2>2
<1> QED BY <1>4 DEF Min

LEMMA ObjectsAdd == ASSUME NEW list, NEW e PROVE Objects(list \cup {e}) = Objects(list) \cup {e.obj}
BY DEF Objects

(* Giving back some objects changes nothing of the others.                  *)
LEMMA FreesType ==
    ASSUME NEW f \in [Object -> Nat], NEW objs
    PROVE  /\ Frees(f, objs) \in [Object -> Nat]
           /\ \A o \in Object : Frees(f, objs)[o] = IF o \in objs THEN f[o] + 1 ELSE f[o]
BY DEF Frees

-----------------------------------------------------------------------------
(* The steps of an mSQL call.  others are the objects of the other lists.   *)
MsqlWork == [m : MsqlState, next : 1 .. 2 * MaxCalls + 1, freed : [Object -> Nat], given : SUBSET Given, ok : BOOLEAN]

Thought(m) == m.db # "none" => m.selected = m.db

MsqlPart(w, others) ==
    /\ w \in MsqlWork
    /\ Once(w.next, w.freed) /\ KeptOthers(others, w.next, w.freed)
    /\ KeptMsql(w.m, others, w.next, w.freed)
    /\ Covered(MsqlObjects(w.m) \cup others, w.next, w.freed)
    /\ Counted("msql", w.m.results, w.m.ind, w.given) /\ OneMeaning(w.given)
    /\ w.m.db # "none" => w.m.sock # none

(* What a call has done so far to what it found: objects were opened, and   *)
(* its numbers given; the connection was open or is new.                    *)
MsqlSince(w) ==
    /\ next \in Nat /\ next <= w.next /\ given \subseteq w.given
    /\ \A g \in w.given : g \in given \/ g[1] = "msql"
    /\ w.m.sock # none => freed[w.m.sock] = 0

LEMMA AddResultKeeps ==
    ASSUME HandlesAssumption, NEW w, NEW others, MsqlPart(w, others), w.next \in Object
    PROVE  /\ MsqlPart(add_result(w), others)
           /\ add_result(w).next = w.next + 1 /\ add_result(w).ok = w.ok
           /\ add_result(w).m.sock = w.m.sock /\ add_result(w).m.db = w.m.db
           /\ add_result(w).m.selected = w.m.selected
           /\ add_result(w).given = w.given \cup {<<"msql", w.m.ind, w.next>>}
<1> DEFINE v == add_result(w)
           e == [ind |-> w.m.ind, obj |-> w.next]
<1>1. /\ w.m \in MsqlState /\ w.next \in 1 .. 2 * MaxCalls + 1 /\ w.freed \in [Object -> Nat] /\ w.given \subseteq Given
      /\ w.m.ind \in Nat /\ w.m.results \subseteq Node /\ e \in Node /\ w.m.sock \in {none} \cup Object
  BY DEF MsqlPart, MsqlWork, MsqlState, Node
<1>2. /\ v.m.results = w.m.results \cup {e} /\ v.m.ind = w.m.ind + 1 /\ v.m.sock = w.m.sock /\ v.m.db = w.m.db
      /\ v.m.selected = w.m.selected /\ v.m.port = w.m.port
      /\ v.next = w.next + 1 /\ v.freed = w.freed /\ v.ok = w.ok
      /\ v.given = w.given \cup {<<"msql", w.m.ind, w.next>>}
  BY DEF MsqlPart, MsqlWork, MsqlState, add_result
<1>3. v \in MsqlWork
  <2>0. v.m = [w.m EXCEPT !.results = @ \cup {e}, !.ind = @ + 1]
    BY DEF MsqlPart, MsqlWork, MsqlState, add_result
  <2>1. v.m \in MsqlState
    <3>1. w.m.results \cup {e} \in SUBSET Node /\ w.m.ind + 1 \in Nat BY <1>1
    <3> QED BY <1>1, <2>0, <3>1 DEF MsqlState
  <2>2. v.next \in 1 .. 2 * MaxCalls + 1 BY <1>2 DEF Object, HandlesAssumption
  <2>3. v.given \subseteq Given BY <1>1, <1>2 DEF Given
  <2> QED BY <1>1, <1>2, <2>1, <2>2, <2>3 DEF MsqlPart, MsqlWork, add_result
<1>4. Once(v.next, v.freed) /\ KeptOthers(others, v.next, v.freed)
  BY <1>1, <1>2 DEF MsqlPart, Once, KeptOthers, Object
<1>5. KeptMsql(v.m, others, v.next, v.freed)
  <2>1. w.freed[w.next] = 0 /\ w.next \notin others /\ w.next # w.m.sock
    BY <1>1 DEF MsqlPart, Once, KeptOthers, KeptMsql, Object, none
  <2>2. \A g \in w.m.results : g.obj < w.next /\ w.freed[g.obj] = 0 /\ g.obj \notin others \cup {w.m.sock}
    BY DEF MsqlPart, KeptMsql, KeptList
  <2>3. \A g, h \in v.m.results : g.obj = h.obj => g = h
    BY <1>1, <1>2, <2>2 DEF MsqlPart, KeptMsql, KeptList, Object, Node
  <2>4. \A g \in v.m.results : g.obj < v.next /\ v.freed[g.obj] = 0 /\ g.obj \notin others \cup {v.m.sock}
    BY <1>1, <1>2, <2>1, <2>2 DEF Object, Node
  <2> QED BY <1>1, <1>2, <2>3, <2>4 DEF MsqlPart, KeptMsql, KeptList, Object, none
<1>6. Covered(MsqlObjects(v.m) \cup others, v.next, v.freed)
  <2>1. Objects(v.m.results) = Objects(w.m.results) \cup {w.next}
    <3>1. Objects(w.m.results \cup {e}) = Objects(w.m.results) \cup {e.obj} BY ObjectsAdd
    <3>2. e.obj = w.next OBVIOUS
    <3> QED BY <1>2, <3>1, <3>2
  <2>2. \A o \in 1 .. v.next - 1 : o = w.next \/ o \in 1 .. w.next - 1 BY <1>1, <1>2
  <2> QED BY <1>2, <2>1, <2>2 DEF MsqlPart, Covered, MsqlObjects
<1>7. Counted("msql", v.m.results, v.m.ind, v.given)
  <2>1. \A g \in w.given : g[1] = "msql" => g[2] < w.m.ind + 1
    <3>1. \A g \in w.given : g[2] \in Nat BY <1>1 DEF Given
    <3> QED BY <1>1, <3>1 DEF MsqlPart, Counted
  <2> QED BY <1>1, <1>2, <2>1 DEF MsqlPart, Counted
<1>8. OneMeaning(v.given)
  <2>1. \A g \in w.given : ~(g[1] = "msql" /\ g[2] = w.m.ind) BY <1>1 DEF MsqlPart, Counted
  <2> QED BY <1>2, <2>1 DEF MsqlPart, OneMeaning
<1> QED BY <1>2, <1>3, <1>4, <1>5, <1>6, <1>7, <1>8 DEF MsqlPart

LEMMA MsqlCloseKeeps ==
    ASSUME HandlesAssumption, NEW w, NEW others, MsqlPart(w, others)
    PROVE  /\ MsqlPart(MsqlClose(w), others) /\ Thought(MsqlClose(w).m)
           /\ MsqlClose(w).m.results = {} /\ MsqlClose(w).m.sock = none
           /\ MsqlClose(w).next = w.next /\ MsqlClose(w).ok = w.ok /\ MsqlClose(w).given = w.given
           /\ \A o \in others : MsqlClose(w).freed[o] = w.freed[o]
<1> DEFINE v == MsqlClose(w)
           objs == Objects(w.m.results) \cup ({w.m.sock} \ {none})
<1>1. /\ w.m \in MsqlState /\ w.next \in 1 .. 2 * MaxCalls + 1 /\ w.freed \in [Object -> Nat]
      /\ w.m.results \subseteq Node /\ w.m.sock \in {none} \cup Object
  BY DEF MsqlPart, MsqlWork, MsqlState
<1>2. /\ v.m.results = {} /\ v.m.ind = w.m.ind /\ v.m.sock = none /\ v.m.db = "none"
      /\ v.next = w.next /\ v.freed = Frees(w.freed, objs) /\ v.ok = w.ok /\ v.given = w.given
  BY DEF MsqlPart, MsqlWork, MsqlState, MsqlClose
<1>3. /\ v.freed \in [Object -> Nat]
      /\ \A o \in Object : v.freed[o] = IF o \in objs THEN w.freed[o] + 1 ELSE w.freed[o]
  BY <1>1, <1>2, FreesType
<1>4. \A o \in objs : o \in Object /\ w.freed[o] = 0 /\ o < w.next /\ o \notin others
  BY <1>1 DEF MsqlPart, KeptMsql, KeptList, Objects, Node
<1>5. v \in MsqlWork
  BY <1>1, <1>2, <1>3 DEF MsqlPart, MsqlWork, MsqlState, MsqlClose
<1>6. Once(v.next, v.freed) /\ KeptOthers(others, v.next, v.freed)
  <2>1. Once(v.next, v.freed)
    <3>1. \A o \in Object : v.freed[o] <= 1 BY <1>1, <1>3, <1>4 DEF MsqlPart, Once
    <3>2. \A o \in Object : o >= v.next => o \notin objs BY <1>1, <1>2, <1>4 DEF Object
    <3> QED BY <1>2, <1>3, <3>1, <3>2 DEF MsqlPart, Once
  <2> QED BY <1>2, <1>3, <1>4, <2>1 DEF MsqlPart, KeptOthers
<1>7. KeptMsql(v.m, others, v.next, v.freed) /\ Thought(v.m)
  BY <1>2 DEF KeptMsql, KeptList, Thought
<1>8. Covered(MsqlObjects(v.m) \cup others, v.next, v.freed)
  <2>1. ASSUME NothingLost, NEW o \in 1 .. v.next - 1, v.freed[o] = 0 PROVE o \in others
    <3>1. o \in Object /\ o \in 1 .. w.next - 1 BY <1>1, <1>2 DEF Object, HandlesAssumption
    <3>2. o \notin objs /\ w.freed[o] = 0 BY <1>1, <1>3, <2>1, <3>1
    <3> QED BY <2>1, <3>1, <3>2 DEF MsqlPart, Covered, MsqlObjects
  <2> QED BY <2>1 DEF Covered
<1>9. Counted("msql", v.m.results, v.m.ind, v.given) /\ OneMeaning(v.given)
  BY <1>2 DEF MsqlPart, Counted
<1>10. \A o \in others : v.freed[o] = w.freed[o]
  BY <1>3, <1>4 DEF MsqlPart, KeptOthers
<1> QED BY <1>2, <1>5, <1>6, <1>7, <1>8, <1>9, <1>10 DEF MsqlPart

LEMMA FailsKeeps ==
    ASSUME NEW w, NEW others, MsqlPart(w, others), NEW v \in Fails(w)
    PROVE  /\ MsqlPart(v, others) /\ v.m = w.m /\ v.next = w.next /\ v.given = w.given /\ v.freed = w.freed
           /\ v.ok = FALSE
<1>1. /\ v.m = w.m /\ v.next = w.next /\ v.given = w.given /\ v.freed = w.freed
      /\ v.ok = FALSE /\ v \in MsqlWork
  BY DEF MsqlPart, MsqlWork, Fails
<1> QED BY <1>1 DEF MsqlPart

(* A connection is made where there is none.                               *)
LEMMA ConnectKeeps ==
    ASSUME HandlesAssumption, TypeOK, Once(next, freed), NEW w, NEW others, MsqlPart(w, others), MsqlSince(w),
           w.m.sock = none, w.next \in Object, NEW v \in msqlConnect(w)
    PROVE  /\ MsqlPart(v, others) /\ MsqlSince(v) /\ Thought(v.m)
           /\ v.next <= w.next + 1 /\ (v.ok => v.m.sock # none) /\ v.m.db = w.m.db
<1>1. CASE v \in Fails(w)
  <2>1. /\ MsqlPart(v, others) /\ v.m = w.m /\ v.next = w.next /\ v.given = w.given /\ v.ok = FALSE
    BY <1>1, FailsKeeps
  <2>2. w.next \in Nat BY DEF Object
  <2> QED BY <2>1, <2>2 DEF MsqlSince, Thought, MsqlPart
<1>2. CASE v = [w EXCEPT !.m.sock = w.next, !.m.selected = "none", !.m.port = env, !.next = @ + 1]
  <2>1. /\ w.m \in MsqlState /\ w.next \in 1 .. 2 * MaxCalls + 1 /\ w.freed \in [Object -> Nat]
        /\ w.m.results \subseteq Node /\ env \in Port \cup {"none"}
    BY DEF MsqlPart, MsqlWork, MsqlState, TypeOK
  <2>2. /\ v.m = [w.m EXCEPT !.sock = w.next, !.selected = "none", !.port = env]
        /\ v.next = w.next + 1 /\ v.freed = w.freed /\ v.given = w.given /\ v.ok = w.ok
    BY <1>2 DEF MsqlPart, MsqlWork, MsqlState
  <2>3. /\ v.m \in MsqlState /\ v.m.sock = w.next /\ v.m.results = w.m.results /\ v.m.ind = w.m.ind
        /\ v.m.db = "none" /\ w.m.db = "none"
    BY <2>1, <2>2 DEF MsqlState, MsqlPart
  <2>4. v \in MsqlWork
    <3>1. v.next \in 1 .. 2 * MaxCalls + 1 BY <2>2 DEF Object, HandlesAssumption
    <3> QED BY <1>2, <2>2, <2>3, <3>1 DEF MsqlPart, MsqlWork
  <2>5. w.next # none /\ freed[w.next] = 0 /\ w.freed[w.next] = 0 /\ w.next \notin others
    BY <2>1 DEF MsqlPart, MsqlSince, Once, KeptOthers, Object, none, TypeOK
  <2>6. Once(v.next, v.freed) /\ KeptOthers(others, v.next, v.freed)
    BY <2>1, <2>2 DEF MsqlPart, Once, KeptOthers, Object
  <2>7. KeptMsql(v.m, others, v.next, v.freed)
    BY <2>1, <2>2, <2>3, <2>5 DEF MsqlPart, KeptMsql, KeptList, Object, Node
  <2>8. Covered(MsqlObjects(v.m) \cup others, v.next, v.freed)
    BY <2>1, <2>2, <2>3, <2>5 DEF MsqlPart, Covered, MsqlObjects
  <2>9. MsqlSince(v) /\ Thought(v.m) /\ v.next <= w.next + 1 /\ (v.ok => v.m.sock # none)
    BY <2>1, <2>2, <2>3, <2>5 DEF MsqlSince, Thought
  <2> QED BY <2>2, <2>3, <2>4, <2>6, <2>7, <2>8, <2>9 DEF MsqlPart
<1> QED BY <1>1, <1>2 DEF msqlConnect

LEMMA ConnectedKeeps ==
    ASSUME HandlesAssumption, TypeOK, Once(next, freed), next \in Object, NEW others,
           MsqlPart(Working, others), MsqlSince(Working), NEW v \in Connected(Working)
    PROVE  /\ MsqlPart(v, others) /\ MsqlSince(v) /\ (Thought(msql) => Thought(v.m))
           /\ v.next <= next + 1 /\ (v.ok => v.m.sock # none)
           /\ v.m.db = "none" \/ v.m.db = msql.db
<1>1. Working.m = msql /\ Working.next = next /\ Working.given = given /\ Working.ok = TRUE BY DEF Working
<1>2. CASE Working.m.sock = none /\ v \in msqlConnect(Working)
  <2>1. Working.next \in Object BY <1>1
  <2> QED BY <1>1, <1>2, <2>1, ConnectKeeps
<1>3. CASE Working.m.sock # none /\ v = Working
  BY <1>1, <1>3 DEF Object
<1>4. CASE v \in msqlConnect(MsqlClose(Working))
  <2> DEFINE w == MsqlClose(Working)
  <2>1. /\ MsqlPart(w, others) /\ w.m.sock = none /\ w.next = next /\ w.given = given
    BY <1>1, MsqlCloseKeeps
  <2>2. MsqlSince(w)
    <3>1. next <= next BY DEF Object
    <3> HIDE DEF w
    <3> QED BY <2>1, <3>1 DEF MsqlSince
  <2>3. w.m.db = "none" BY <2>1 DEF MsqlPart
  <2>4. w.next \in Object BY <2>1
  <2> QED BY <1>1, <1>4, <2>1, <2>2, <2>3, <2>4, ConnectKeeps
<1> QED BY <1>2, <1>3, <1>4 DEF Connected

(* A database is selected, for good (d = db) or for this call.              *)
Selected(w, d, db) == Fails(w) \cup {[w EXCEPT !.m.db = d, !.m.selected = db]}

LEMMA SelectsKeeps ==
    ASSUME HandlesAssumption, NEW db \in Database, NEW w, NEW d \in {db, w.m.db}, NEW others, MsqlPart(w, others),
           MsqlSince(w), w.m.sock # none,
           NEW v \in Selected(w, d, db)
    PROVE  /\ MsqlPart(v, others) /\ MsqlSince(v) /\ v.next = w.next /\ v.m.sock = w.m.sock
           /\ (Thought(w.m) /\ d \in {"none", db}) => Thought(v.m)
<1>1. CASE v \in Fails(w)
  <2>1. MsqlPart(v, others) /\ v.m = w.m /\ v.next = w.next /\ v.given = w.given BY <1>1, FailsKeeps
  <2> QED BY <2>1 DEF MsqlSince, Thought
<1>2. CASE v = [w EXCEPT !.m.db = d, !.m.selected = db]
  <2>1. v.m = [w.m EXCEPT !.db = d, !.selected = db] /\ w.m \in MsqlState
    BY <1>2 DEF MsqlPart, MsqlWork, MsqlState
  <2>2. /\ v.m \in MsqlState /\ v.m.results = w.m.results /\ v.m.ind = w.m.ind /\ v.m.sock = w.m.sock
        /\ v.m.selected = db /\ v.m.db = d
    <3>1. d \in Database \cup {"none"} BY <2>1 DEF MsqlState
    <3> QED BY <2>1, <3>1 DEF MsqlState
  <2>3. v.next = w.next /\ v.freed = w.freed /\ v.given = w.given /\ v \in MsqlWork
    BY <1>2, <2>2 DEF MsqlPart, MsqlWork
  <2>4. KeptMsql(v.m, others, v.next, v.freed) BY <2>2, <2>3 DEF MsqlPart, KeptMsql
  <2>5. Covered(MsqlObjects(v.m) \cup others, v.next, v.freed) BY <2>2, <2>3 DEF MsqlPart, MsqlObjects
  <2>6. Once(v.next, v.freed) /\ KeptOthers(others, v.next, v.freed) BY <2>3 DEF MsqlPart
  <2>7. Counted("msql", v.m.results, v.m.ind, v.given) /\ OneMeaning(v.given) BY <2>2, <2>3 DEF MsqlPart
  <2>8. MsqlSince(v) BY <2>2, <2>3 DEF MsqlSince
  <2> QED BY <2>2, <2>3, <2>4, <2>5, <2>6, <2>7, <2>8 DEF MsqlPart, Thought
<1> QED BY <1>1, <1>2 DEF Selected

(* The query of a connection that is open.                                 *)
LEMMA QueriesKeeps ==
    ASSUME HandlesAssumption, NEW w, NEW others, MsqlPart(w, others), MsqlSince(w), w.next \in Object,
           NEW v \in Queries(w)
    PROVE  /\ MsqlPart(v, others) /\ MsqlSince(v) /\ (Thought(w.m) => Thought(v.m))
           /\ v.next <= w.next + 1 /\ v.m.sock = w.m.sock
<1>0. w.next \in Nat BY DEF Object
<1>1. CASE v \in Fails(w)
  <2>1. MsqlPart(v, others) /\ v.m = w.m /\ v.next = w.next /\ v.given = w.given BY <1>1, FailsKeeps
  <2> QED BY <1>0, <2>1 DEF MsqlSince, Thought
<1>2. CASE v = w BY <1>0, <1>2
<1>3. CASE v = add_result(w)
  <2>1. /\ MsqlPart(v, others) /\ v.next = w.next + 1 /\ v.m.sock = w.m.sock /\ v.m.db = w.m.db
        /\ v.m.selected = w.m.selected /\ v.given = w.given \cup {<<"msql", w.m.ind, w.next>>}
    BY <1>3, AddResultKeeps
  <2>2. MsqlSince(v)
    <3>1. next \in Nat \/ next \notin Nat OBVIOUS
    <3>2. next <= w.next + 1 BY <1>0 DEF MsqlSince
    <3> QED BY <2>1, <3>2 DEF MsqlSince
  <2> QED BY <1>0, <2>1, <2>2 DEF Thought
<1> QED BY <1>1, <1>2, <1>3 DEF Queries

-----------------------------------------------------------------------------
(* What adding a node to a list and taking nodes away do to the parts.      *)
LEMMA KeptAdds ==
    ASSUME NEW list \in SUBSET Node, NEW others, NEW nx \in Object, NEW fr, KeptList(list, others, nx, fr),
           nx \notin others, fr[nx] = 0, NEW e \in Node, e.obj = nx
    PROVE  KeptList(list \cup {e}, others, nx + 1, fr)
BY DEF KeptList, Node, Object

LEMMA KeptBeside ==
    ASSUME NEW list \in SUBSET Node, NEW others, NEW nx \in Object, NEW fr, KeptList(list, others, nx, fr)
    PROVE  KeptList(list, others \cup {nx}, nx + 1, fr)
BY DEF KeptList, Node, Object

LEMMA KeptGives ==
    ASSUME NEW list \in SUBSET Node, NEW others, NEW nx, NEW fr \in [Object -> Nat], KeptList(list, others, nx, fr),
           NEW gone, NEW some, some \subseteq list, \A e \in some : e.obj \notin gone
    PROVE  KeptList(some, others, nx, Frees(fr, gone))
BY FreesType DEF KeptList, Node

LEMMA CountedAdds ==
    ASSUME NEW kind, NEW list, NEW ind \in Nat, NEW gv \in SUBSET Given, Counted(kind, list, ind, gv),
           NEW e, e.ind = ind
    PROVE  Counted(kind, list \cup {e}, ind + 1, gv \cup {<<kind, ind, e.obj>>})
<1>1. \A g \in gv : g[2] \in Nat BY DEF Given
<1>2. \A g \in gv : g[1] = kind => g[2] < ind + 1 BY <1>1 DEF Counted
<1> QED BY <1>2 DEF Counted

LEMMA CountedBeside ==
    ASSUME NEW kind, NEW other, other # kind, NEW list, NEW ind, NEW gv, Counted(kind, list, ind, gv), NEW n, NEW o
    PROVE  Counted(kind, list, ind, gv \cup {<<other, n, o>>})
BY DEF Counted

LEMMA MeaningAdds ==
    ASSUME NEW kind, NEW list, NEW ind \in Nat, NEW gv \in SUBSET Given, Counted(kind, list, ind, gv), OneMeaning(gv),
           NEW o
    PROVE  OneMeaning(gv \cup {<<kind, ind, o>>})
<1>1. \A g \in gv : g[2] \in Nat BY DEF Given
<1>2. \A g \in gv : ~(g[1] = kind /\ g[2] = ind) BY <1>1 DEF Counted
<1> QED BY <1>2 DEF OneMeaning

-----------------------------------------------------------------------------
(* The steps of a Postgres95 call.                                         *)
PgWork == [p : PgState, next : 1 .. 2 * MaxCalls + 1, freed : [Object -> Nat], given : SUBSET Given,
           broken : SUBSET Object, conn : [Object -> {none} \cup Object], used : SUBSET Object, ok : BOOLEAN]

KeptPg(p, others, nx, fr) ==
    /\ KeptList(p.conns, others \cup Objects(p.results), nx, fr)
    /\ KeptList(p.results, others \cup Objects(p.conns), nx, fr)

PgPart(w, others) ==
    /\ w \in PgWork
    /\ Once(w.next, w.freed) /\ KeptOthers(others, w.next, w.freed)
    /\ KeptPg(w.p, others, w.next, w.freed)
    /\ Covered(PgObjects(w.p) \cup others, w.next, w.freed)
    /\ Counted("pg", w.p.results, w.p.ind, w.given) /\ Counted("pgconn", w.p.conns, w.p.cind, w.given)
    /\ OneMeaning(w.given)
    /\ \A e \in w.p.results : w.conn[e.obj] \in Object

PgSince(w) ==
    /\ next \in Nat /\ next <= w.next /\ given \subseteq w.given
    /\ \A g \in w.given : g \in given \/ g[1] # "msql"

LEMMA PgAddResultKeeps ==
    ASSUME HandlesAssumption, NEW w, NEW others, PgPart(w, others), PgSince(w), w.next \in Object, NEW c \in Object
    PROVE  LET v == pg_add_result(w, c)
           IN  /\ PgPart(v, others) /\ PgSince(v)
               /\ v.next = w.next + 1 /\ v.ok = w.ok /\ v.used = w.used
<1> DEFINE v == pg_add_result(w, c)
           e == [ind |-> w.p.ind, obj |-> w.next]
<1>1. /\ w.p \in PgState /\ w.freed \in [Object -> Nat] /\ w.given \in SUBSET Given /\ w.next \in Nat
      /\ w.p.ind \in Nat /\ w.p.results \in SUBSET Node /\ w.p.conns \in SUBSET Node
      /\ e \in Node /\ e.ind = w.p.ind /\ e.obj = w.next /\ w.conn \in [Object -> {none} \cup Object]
  BY DEF PgPart, PgWork, PgState, Node
<1>2. /\ v.p = [w.p EXCEPT !.results = @ \cup {e}, !.ind = @ + 1]
      /\ v.next = w.next + 1 /\ v.freed = w.freed /\ v.ok = w.ok /\ v.used = w.used /\ v.broken = w.broken
      /\ v.given = w.given \cup {<<"pg", w.p.ind, w.next>>} /\ v.conn = [w.conn EXCEPT ![w.next] = c]
  BY DEF PgPart, PgWork, PgState, pg_add_result
<1>3. /\ v.p \in PgState /\ v.p.results = w.p.results \cup {e} /\ v.p.ind = w.p.ind + 1
      /\ v.p.conns = w.p.conns /\ v.p.cind = w.p.cind
  <2>1. w.p.results \cup {e} \in SUBSET Node /\ w.p.ind + 1 \in Nat BY <1>1
  <2> QED BY <1>1, <1>2, <2>1 DEF PgState
<1>4. v \in PgWork
  <2>1. v.next \in 1 .. 2 * MaxCalls + 1 BY <1>2 DEF Object, HandlesAssumption
  <2>2. v.given \subseteq Given BY <1>1, <1>2 DEF Given
  <2>3. v.conn \in [Object -> {none} \cup Object] BY <1>1, <1>2
  <2> QED BY <1>2, <1>3, <2>1, <2>2, <2>3 DEF PgPart, PgWork, pg_add_result
<1>5. w.freed[w.next] = 0 /\ w.next \notin others /\ w.next \notin Objects(w.p.conns) \cup Objects(w.p.results)
  BY <1>1 DEF PgPart, Once, KeptOthers, KeptPg, KeptList, Objects, Object
<1>6. Once(v.next, v.freed) /\ KeptOthers(others, v.next, v.freed)
  BY <1>1, <1>2 DEF PgPart, Once, KeptOthers, Object
<1>7. Objects(v.p.results) = Objects(w.p.results) \cup {w.next} BY <1>1, <1>3, ObjectsAdd
<1>8. KeptPg(v.p, others, v.next, v.freed)
  <2>1. KeptList(v.p.results, others \cup Objects(v.p.conns), v.next, v.freed)
    BY <1>1, <1>2, <1>3, <1>5, KeptAdds DEF PgPart, KeptPg
  <2>2. KeptList(w.p.conns, (others \cup Objects(w.p.results)) \cup {w.next}, w.next + 1, w.freed)
    BY <1>1, KeptBeside DEF PgPart, KeptPg
  <2>3. (others \cup Objects(w.p.results)) \cup {w.next} = others \cup Objects(v.p.results) BY <1>7
  <2> QED BY <1>2, <1>3, <2>1, <2>2, <2>3 DEF KeptPg
<1>9. Covered(PgObjects(v.p) \cup others, v.next, v.freed)
  <2>1. \A o \in 1 .. v.next - 1 : o = w.next \/ o \in 1 .. w.next - 1 BY <1>1, <1>2
  <2> QED BY <1>2, <1>3, <1>7, <2>1 DEF PgPart, Covered, PgObjects
<1>10. Counted("pg", v.p.results, v.p.ind, v.given) /\ Counted("pgconn", v.p.conns, v.p.cind, v.given)
  <2>1. Counted("pg", w.p.results, w.p.ind, w.given) /\ Counted("pgconn", w.p.conns, w.p.cind, w.given) BY DEF PgPart
  <2>2. Counted("pg", w.p.results \cup {e}, w.p.ind + 1, w.given \cup {<<"pg", w.p.ind, e.obj>>})
    BY <1>1, <2>1, CountedAdds
  <2>3. Counted("pgconn", w.p.conns, w.p.cind, w.given \cup {<<"pg", w.p.ind, w.next>>})
    BY <2>1, CountedBeside
  <2> QED BY <1>1, <1>2, <1>3, <2>2, <2>3
<1>11. OneMeaning(v.given)
  <2>1. Counted("pg", w.p.results, w.p.ind, w.given) /\ OneMeaning(w.given) BY DEF PgPart
  <2>2. OneMeaning(w.given \cup {<<"pg", w.p.ind, w.next>>}) BY <1>1, <2>1, MeaningAdds
  <2> QED BY <1>2, <2>2
<1>12. \A g \in v.p.results : v.conn[g.obj] \in Object BY <1>1, <1>2, <1>3 DEF PgPart, Node
<1>13. PgSince(v)
  <2>1. next <= w.next + 1 BY <1>1 DEF PgSince
  <2> QED BY <1>2, <2>1 DEF PgSince
<1> QED BY <1>2, <1>4, <1>6, <1>8, <1>9, <1>10, <1>11, <1>12, <1>13 DEF PgPart

LEMMA PgAddConnKeeps ==
    ASSUME HandlesAssumption, NEW w, NEW others, PgPart(w, others), PgSince(w), w.next \in Object
    PROVE  LET v == pg_add_conn(w)
           IN  /\ PgPart(v, others) /\ PgSince(v)
               /\ v.next = w.next + 1 /\ v.ok = w.ok /\ v.used = w.used /\ v.p.types = w.p.types
<1> DEFINE v == pg_add_conn(w)
           e == [ind |-> w.p.cind, obj |-> w.next]
<1>1. /\ w.p \in PgState /\ w.freed \in [Object -> Nat] /\ w.given \in SUBSET Given /\ w.next \in Nat
      /\ w.p.cind \in Nat /\ w.p.results \in SUBSET Node /\ w.p.conns \in SUBSET Node
      /\ e \in Node /\ e.ind = w.p.cind /\ e.obj = w.next
  BY DEF PgPart, PgWork, PgState, Node
<1>2. /\ v.p = [w.p EXCEPT !.conns = @ \cup {e}, !.cind = @ + 1]
      /\ v.next = w.next + 1 /\ v.freed = w.freed /\ v.ok = w.ok /\ v.used = w.used /\ v.broken = w.broken
      /\ v.given = w.given \cup {<<"pgconn", w.p.cind, w.next>>} /\ v.conn = w.conn
  BY DEF PgPart, PgWork, PgState, pg_add_conn
<1>3. /\ v.p \in PgState /\ v.p.conns = w.p.conns \cup {e} /\ v.p.cind = w.p.cind + 1
      /\ v.p.results = w.p.results /\ v.p.ind = w.p.ind /\ v.p.types = w.p.types
  <2>1. w.p.conns \cup {e} \in SUBSET Node /\ w.p.cind + 1 \in Nat BY <1>1
  <2> QED BY <1>1, <1>2, <2>1 DEF PgState
<1>4. v \in PgWork
  <2>1. v.next \in 1 .. 2 * MaxCalls + 1 BY <1>2 DEF Object, HandlesAssumption
  <2>2. v.given \subseteq Given BY <1>1, <1>2 DEF Given
  <2> QED BY <1>2, <1>3, <2>1, <2>2 DEF PgPart, PgWork, pg_add_conn
<1>5. w.freed[w.next] = 0 /\ w.next \notin others /\ w.next \notin Objects(w.p.conns) \cup Objects(w.p.results)
  BY <1>1 DEF PgPart, Once, KeptOthers, KeptPg, KeptList, Objects, Object
<1>6. Once(v.next, v.freed) /\ KeptOthers(others, v.next, v.freed)
  BY <1>1, <1>2 DEF PgPart, Once, KeptOthers, Object
<1>7. Objects(v.p.conns) = Objects(w.p.conns) \cup {w.next} BY <1>1, <1>3, ObjectsAdd
<1>8. KeptPg(v.p, others, v.next, v.freed)
  <2>1. KeptList(v.p.conns, others \cup Objects(v.p.results), v.next, v.freed)
    BY <1>1, <1>2, <1>3, <1>5, KeptAdds DEF PgPart, KeptPg
  <2>2. KeptList(w.p.results, (others \cup Objects(w.p.conns)) \cup {w.next}, w.next + 1, w.freed)
    BY <1>1, KeptBeside DEF PgPart, KeptPg
  <2>3. (others \cup Objects(w.p.conns)) \cup {w.next} = others \cup Objects(v.p.conns) BY <1>7
  <2> QED BY <1>2, <1>3, <2>1, <2>2, <2>3 DEF KeptPg
<1>9. Covered(PgObjects(v.p) \cup others, v.next, v.freed)
  <2>1. \A o \in 1 .. v.next - 1 : o = w.next \/ o \in 1 .. w.next - 1 BY <1>1, <1>2
  <2> QED BY <1>2, <1>3, <1>7, <2>1 DEF PgPart, Covered, PgObjects
<1>10. Counted("pg", v.p.results, v.p.ind, v.given) /\ Counted("pgconn", v.p.conns, v.p.cind, v.given)
  <2>1. Counted("pg", w.p.results, w.p.ind, w.given) /\ Counted("pgconn", w.p.conns, w.p.cind, w.given) BY DEF PgPart
  <2>2. Counted("pgconn", w.p.conns \cup {e}, w.p.cind + 1, w.given \cup {<<"pgconn", w.p.cind, e.obj>>})
    BY <1>1, <2>1, CountedAdds
  <2>3. Counted("pg", w.p.results, w.p.ind, w.given \cup {<<"pgconn", w.p.cind, w.next>>})
    BY <2>1, CountedBeside
  <2> QED BY <1>1, <1>2, <1>3, <2>2, <2>3
<1>11. OneMeaning(v.given)
  <2>1. Counted("pgconn", w.p.conns, w.p.cind, w.given) /\ OneMeaning(w.given) BY DEF PgPart
  <2>2. OneMeaning(w.given \cup {<<"pgconn", w.p.cind, w.next>>}) BY <1>1, <2>1, MeaningAdds
  <2> QED BY <1>2, <2>2
<1>12. \A g \in v.p.results : v.conn[g.obj] \in Object BY <1>2, <1>3 DEF PgPart
<1>13. PgSince(v)
  <2>1. next <= w.next + 1 BY <1>1 DEF PgSince
  <2> QED BY <1>2, <2>1 DEF PgSince
<1> QED BY <1>2, <1>3, <1>4, <1>6, <1>8, <1>9, <1>10, <1>11, <1>12, <1>13 DEF PgPart

(* Nodes are taken from the lists, and what they name is given back: cs and *)
(* rs are the nodes that stay.                                              *)
LEMMA PgGivesBack ==
    ASSUME HandlesAssumption, NEW w, NEW others, PgPart(w, others), PgSince(w), NEW v \in PgWork,
           v.p.conns \subseteq w.p.conns, v.p.results \subseteq w.p.results,
           v.p.ind = w.p.ind, v.p.cind = w.p.cind, v.next = w.next, v.given = w.given, v.conn = w.conn,
           v.freed = Frees(w.freed, Objects(w.p.conns \ v.p.conns) \cup Objects(w.p.results \ v.p.results))
    PROVE  PgPart(v, others) /\ PgSince(v) /\ \A o \in others : v.freed[o] = w.freed[o]
<1> DEFINE gone == Objects(w.p.conns \ v.p.conns) \cup Objects(w.p.results \ v.p.results)
<1>1. /\ w.freed \in [Object -> Nat] /\ w.p.results \in SUBSET Node /\ w.p.conns \in SUBSET Node
      /\ w.next \in 1 .. 2 * MaxCalls + 1
  BY DEF PgPart, PgWork, PgState
<1>2. \A o \in Object : v.freed[o] = IF o \in gone THEN w.freed[o] + 1 ELSE w.freed[o]
  <2>1. v.freed = Frees(w.freed, gone) OBVIOUS
  <2> HIDE DEF gone
  <2> QED BY <1>1, <2>1, FreesType
<1>3. \A o \in gone : o \in Object /\ w.freed[o] = 0 /\ o < w.next /\ o \notin others
  BY <1>1 DEF PgPart, KeptPg, KeptList, Objects, Node
<1>4. /\ \A e \in v.p.conns : e.obj \notin gone
      /\ \A e \in v.p.results : e.obj \notin gone
  <2>1. ASSUME NEW e \in v.p.conns PROVE e.obj \notin gone
    <3>1. e.obj \notin Objects(w.p.conns \ v.p.conns) BY DEF PgPart, KeptPg, KeptList, Objects
    <3>2. e.obj \notin Objects(w.p.results \ v.p.results) BY DEF PgPart, KeptPg, KeptList, Objects
    <3> QED BY <3>1, <3>2
  <2>2. ASSUME NEW e \in v.p.results PROVE e.obj \notin gone
    <3>1. e.obj \notin Objects(w.p.conns \ v.p.conns) BY DEF PgPart, KeptPg, KeptList, Objects
    <3>2. e.obj \notin Objects(w.p.results \ v.p.results) BY DEF PgPart, KeptPg, KeptList, Objects
    <3> QED BY <3>1, <3>2
  <2> QED BY <2>1, <2>2
<1>5. Once(v.next, v.freed)
  <2> HIDE DEF gone
  <2>0. \A o \in Object : w.freed[o] \in Nat /\ w.freed[o] <= 1 BY <1>1 DEF PgPart, Once
  <2>1. ASSUME NEW o \in Object PROVE v.freed[o] <= 1
    <3>1. v.freed[o] = IF o \in gone THEN w.freed[o] + 1 ELSE w.freed[o] BY <1>2
    <3>2. o \in gone => w.freed[o] = 0 BY <1>3
    <3>3. w.freed[o] \in Nat /\ w.freed[o] <= 1 BY <2>0
    <3> QED BY <3>1, <3>2, <3>3
  <2>2. \A o \in Object : o >= v.next => o \notin gone BY <1>1, <1>3 DEF Object, HandlesAssumption
  <2> QED BY <1>2, <2>1, <2>2 DEF PgPart, Once
<1>6. KeptOthers(others, v.next, v.freed) /\ \A o \in others : v.freed[o] = w.freed[o]
  BY <1>2, <1>3 DEF PgPart, KeptOthers
<1>7. KeptPg(v.p, others, v.next, v.freed)
  <2>1. /\ KeptList(v.p.conns, others \cup Objects(w.p.results), v.next, v.freed)
        /\ KeptList(v.p.results, others \cup Objects(w.p.conns), v.next, v.freed)
    <3>1. v.freed = Frees(w.freed, gone) OBVIOUS
    <3> HIDE DEF gone
    <3>2. /\ KeptList(w.p.conns, others \cup Objects(w.p.results), w.next, w.freed)
          /\ KeptList(w.p.results, others \cup Objects(w.p.conns), w.next, w.freed)
      BY DEF PgPart, KeptPg
    <3> QED BY <1>1, <1>4, <3>1, <3>2, KeptGives
  <2> QED BY <2>1 DEF KeptPg, KeptList, Objects
<1>8. Covered(PgObjects(v.p) \cup others, v.next, v.freed)
  <2>1. ASSUME NothingLost, NEW o \in 1 .. v.next - 1, v.freed[o] = 0 PROVE o \in PgObjects(v.p) \cup others
    <3>1. o \in Object BY <1>1 DEF Object, HandlesAssumption
    <3>2. o \notin gone /\ w.freed[o] = 0
      <4>1. w.freed[o] \in Nat BY <1>1, <3>1
      <4>2. v.freed[o] = IF o \in gone THEN w.freed[o] + 1 ELSE w.freed[o] BY <1>2, <3>1
      <4> HIDE DEF gone
      <4> QED BY <2>1, <4>1, <4>2
    <3>3. o \in PgObjects(w.p) \cup others BY <2>1, <3>2 DEF PgPart, Covered
    <3> QED BY <3>2, <3>3 DEF PgObjects, Objects
  <2> QED BY <2>1 DEF Covered
<1>9. /\ Counted("pg", v.p.results, v.p.ind, v.given) /\ Counted("pgconn", v.p.conns, v.p.cind, v.given)
      /\ OneMeaning(v.given)
  BY DEF PgPart, Counted
<1>10. \A e \in v.p.results : v.conn[e.obj] \in Object BY DEF PgPart
<1> QED BY <1>5, <1>6, <1>7, <1>8, <1>9, <1>10 DEF PgPart, PgSince

LEMMA PgSame ==
    ASSUME NEW w, NEW others, PgPart(w, others), PgSince(w), NEW v \in PgWork,
           v.p.conns = w.p.conns, v.p.results = w.p.results, v.p.ind = w.p.ind, v.p.cind = w.p.cind,
           v.next = w.next, v.given = w.given, v.conn = w.conn, v.freed = w.freed
    PROVE  PgPart(v, others) /\ PgSince(v)
<1>1. KeptPg(v.p, others, v.next, v.freed) BY DEF PgPart, KeptPg
<1>2. Covered(PgObjects(v.p) \cup others, v.next, v.freed) BY DEF PgPart, PgObjects
<1> QED BY <1>1, <1>2 DEF PgPart, PgSince

(* An object that is opened and that nothing names.                        *)
LEMMA PgLoses ==
    ASSUME HandlesAssumption, ~NothingLost, NEW w, NEW others, PgPart(w, others), PgSince(w), w.next \in Object,
           NEW v \in PgWork, v.p = w.p, v.next = w.next + 1, v.given = w.given, v.conn = w.conn, v.freed = w.freed
    PROVE  PgPart(v, others) /\ PgSince(v)
<1>1. /\ w.p.results \in SUBSET Node /\ w.p.conns \in SUBSET Node /\ w.next \in Nat
      /\ w.freed \in [Object -> Nat]
  BY DEF PgPart, PgWork, PgState
<1>2. Once(v.next, v.freed) /\ KeptOthers(others, v.next, v.freed)
  BY <1>1 DEF PgPart, Once, KeptOthers, Object
<1>3. KeptPg(v.p, others, v.next, v.freed)
  <2>1. /\ KeptList(w.p.conns, others \cup Objects(w.p.results), w.next, w.freed)
        /\ KeptList(w.p.results, others \cup Objects(w.p.conns), w.next, w.freed)
    BY DEF PgPart, KeptPg
  <2> QED BY <1>1, <2>1 DEF KeptPg, KeptList, Node, Object
<1>4. Covered(PgObjects(v.p) \cup others, v.next, v.freed) BY DEF Covered
<1>5. PgSince(v)
  <2>1. next <= w.next + 1 BY <1>1 DEF PgSince
  <2> QED BY <2>1 DEF PgSince
<1> QED BY <1>2, <1>3, <1>4, <1>5 DEF PgPart

LEMMA PgDelConnKeeps ==
    ASSUME HandlesAssumption, NEW w, NEW others, PgPart(w, others), PgSince(w), NEW c
    PROVE  LET v == pg_del_conn(w, c)
           IN  /\ PgPart(v, others) /\ PgSince(v) /\ v.next = w.next /\ v.ok = w.ok /\ v.used = w.used
<1> DEFINE v == pg_del_conn(w, c)
           nodes == {e \in w.p.conns : e.obj = c}
<1>1. /\ w.p \in PgState /\ w.freed \in [Object -> Nat] /\ w.p.results \in SUBSET Node /\ w.p.conns \in SUBSET Node
  BY DEF PgPart, PgWork, PgState
<1>2. /\ v.p = [w.p EXCEPT !.conns = @ \ nodes] /\ v.freed = Frees(w.freed, Objects(nodes))
      /\ v.next = w.next /\ v.ok = w.ok /\ v.used = w.used /\ v.broken = w.broken
      /\ v.given = w.given /\ v.conn = w.conn
  BY DEF PgPart, PgWork, PgState, pg_del_conn
<1>3. /\ v.p \in PgState /\ v.p.conns = w.p.conns \ nodes /\ v.p.results = w.p.results /\ v.p.ind = w.p.ind
      /\ v.p.cind = w.p.cind
  <2>1. w.p.conns \ nodes \in SUBSET Node BY <1>1
  <2> QED BY <1>1, <1>2, <2>1 DEF PgState
<1>4. v \in PgWork
  <2>1. v.freed \in [Object -> Nat] BY <1>1, <1>2, FreesType
  <2> QED BY <1>2, <1>3, <2>1 DEF PgPart, PgWork, pg_del_conn
<1>5. Objects(nodes) = Objects(w.p.conns \ v.p.conns) \cup Objects(w.p.results \ v.p.results)
  BY <1>3 DEF Objects
<1> HIDE DEF v, nodes
<1>6. PgPart(v, others) /\ PgSince(v)
  BY <1>1, <1>2, <1>3, <1>4, <1>5, PgGivesBack
<1> QED BY <1>2, <1>6 DEF v

-----------------------------------------------------------------------------
UsedOpen(w) == \A o \in w.used : freed[o] = 0

LEMMA AliveKeeps ==
    ASSUME HandlesAssumption, NEW w, NEW others, PgPart(w, others), PgSince(w), NEW c \in Object, NEW v \in Alive(w, c)
    PROVE  /\ PgPart(v, others) /\ PgSince(v) /\ v.next = w.next
           /\ (UsedOpen(w) /\ freed[c] = 0) => UsedOpen(v)
<1> DEFINE u == [w EXCEPT !.used = @ \cup {c}]
           b == [u EXCEPT !.broken = @ \ {c}]
           d == pg_del_conn(u, c)
<1>1. /\ u \in PgWork /\ u.p = w.p /\ u.next = w.next /\ u.given = w.given /\ u.conn = w.conn /\ u.freed = w.freed
      /\ u.used = w.used \cup {c} /\ u.broken = w.broken
  BY DEF PgPart, PgWork
<1>2. PgPart(u, others) /\ PgSince(u) BY <1>1, PgSame
<1>3. /\ b \in PgWork /\ b.p = u.p /\ b.next = u.next /\ b.given = u.given /\ b.conn = u.conn /\ b.freed = u.freed
      /\ b.used = u.used
  <2>1. u.broken \ {c} \in SUBSET Object BY <1>1 DEF PgWork
  <2> HIDE DEF u
  <2> QED BY <1>1, <2>1 DEF PgWork
<1>4. PgPart(b, others) /\ PgSince(b)
  <2> HIDE DEF b, u
  <2> QED BY <1>2, <1>3, PgSame
<1>5. /\ PgPart(d, others) /\ PgSince(d) /\ d.next = u.next /\ d.used = u.used
  <2> HIDE DEF u
  <2> QED BY <1>2, PgDelConnKeeps
<1>6. LET f == [d EXCEPT !.ok = FALSE] IN PgPart(f, others) /\ PgSince(f) /\ f.next = d.next /\ f.used = d.used
  <2> DEFINE f == [d EXCEPT !.ok = FALSE]
  <2>1. /\ f \in PgWork /\ f.p = d.p /\ f.next = d.next /\ f.given = d.given /\ f.conn = d.conn /\ f.freed = d.freed
        /\ f.used = d.used
    <3>1. d \in PgWork BY <1>5 DEF PgPart
    <3> HIDE DEF d
    <3> QED BY <3>1 DEF PgWork
  <2> HIDE DEF f, d
  <2> QED BY <1>5, <2>1, PgSame DEF f
<1>7. v = u \/ v = b \/ v = [d EXCEPT !.ok = FALSE] BY DEF Alive
<1> HIDE DEF b, d, u
<1>8. v.used = w.used \cup {c} /\ v.next = w.next BY <1>1, <1>3, <1>5, <1>6, <1>7
<1>9. PgPart(v, others) /\ PgSince(v) BY <1>2, <1>4, <1>6, <1>7
<1> QED BY <1>8, <1>9 DEF UsedOpen

LEMMA PgTypeKeeps ==
    ASSUME HandlesAssumption, NEW w, NEW others, PgPart(w, others), PgSince(w), w.next \in Object, NEW c \in Object,
           NEW v \in pg_type(w, c)
    PROVE  /\ PgPart(v, others) /\ PgSince(v) /\ v.next <= w.next + 1
           /\ (UsedOpen(w) /\ (freed[c] = 0 \/ pg_get_result(w.p, w.p.types) # {})) => UsedOpen(v)
<1>0. w.next \in Nat BY DEF Object
<1>1. CASE pg_get_result(w.p, w.p.types) # {}
  <2>1. v = w BY <1>1 DEF pg_type
  <2> QED BY <1>0, <2>1
<1>2. CASE pg_get_result(w.p, w.p.types) = {}
  <2>1. PICK u \in Alive(w, c) :
            \/ v = u
            \/ v = [pg_add_result(u, c) EXCEPT !.p.types = u.p.ind]
            \/ v = [u EXCEPT !.next = @ + 1, !.ok = FALSE] /\ "no type list" \notin Avoided
    <3> DEFINE A(u) == {[pg_add_result(u, c) EXCEPT !.p.types = u.p.ind]}
                       \cup (IF "no type list" \in Avoided THEN {}
                             ELSE {[u EXCEPT !.next = @ + 1, !.ok = FALSE]})
    <3>1. v \in UNION {IF u.ok THEN A(u) ELSE {u} : u \in Alive(w, c)} BY <1>2 DEF pg_type, Then
    <3>2. PICK u \in Alive(w, c) : v \in (IF u.ok THEN A(u) ELSE {u})
      <4> HIDE DEF A
      <4> QED BY <3>1
    <3> QED BY <3>2
  <2>2. PgPart(u, others) /\ PgSince(u) /\ u.next = w.next /\ (UsedOpen(w) /\ freed[c] = 0 => UsedOpen(u))
    BY AliveKeeps
  <2>3. u \in PgWork /\ u.p \in PgState BY <2>2 DEF PgPart, PgWork
  <2>4. CASE v = u BY <1>0, <1>2, <2>2, <2>4
  <2>5. CASE v = [pg_add_result(u, c) EXCEPT !.p.types = u.p.ind]
    <3> DEFINE a == pg_add_result(u, c)
    <3>1. PgPart(a, others) /\ PgSince(a) /\ a.next = u.next + 1 /\ a.used = u.used
      BY <2>2, PgAddResultKeeps
    <3>2. a \in PgWork /\ a.p \in PgState /\ u.p.ind \in Nat BY <2>3, <3>1 DEF PgPart, PgWork, PgState
    <3> HIDE DEF a
    <3>3. v = [a EXCEPT !.p.types = u.p.ind] BY <2>5 DEF a
    <3>4. v.p = [a.p EXCEPT !.types = u.p.ind] BY <3>2, <3>3 DEF PgWork
    <3>5. /\ v.p \in PgState /\ v.p.conns = a.p.conns /\ v.p.results = a.p.results /\ v.p.ind = a.p.ind
          /\ v.p.cind = a.p.cind
      BY <3>2, <3>4 DEF PgState
    <3>6. /\ v \in PgWork /\ v.next = a.next /\ v.given = a.given /\ v.conn = a.conn /\ v.freed = a.freed
          /\ v.used = a.used
      BY <3>2, <3>3, <3>5 DEF PgWork
    <3>7. PgPart(v, others) /\ PgSince(v) BY <3>1, <3>5, <3>6, PgSame
    <3> QED BY <1>0, <1>2, <2>2, <3>1, <3>6, <3>7 DEF UsedOpen
  <2>6. CASE v = [u EXCEPT !.next = @ + 1, !.ok = FALSE] /\ "no type list" \notin Avoided
    <3>1. ~NothingLost BY <2>6 DEF NothingLost
    <3>2. v.next = u.next + 1 /\ u.next + 1 \in 1 .. 2 * MaxCalls + 1
      <4>1. v.next = u.next + 1 BY <2>3, <2>6 DEF PgWork
      <4> QED BY <1>0, <2>2, <4>1 DEF Object, HandlesAssumption
    <3>3. /\ v \in PgWork /\ v.p = u.p /\ v.given = u.given /\ v.conn = u.conn /\ v.freed = u.freed
          /\ v.used = u.used
      BY <2>3, <2>6, <3>2 DEF PgWork
    <3>4. PgPart(v, others) /\ PgSince(v) BY <2>2, <3>1, <3>2, <3>3, PgLoses
    <3> QED BY <1>0, <1>2, <2>2, <3>2, <3>3, <3>4 DEF UsedOpen
  <2> QED BY <2>1, <2>4, <2>5, <2>6
<1> QED BY <1>1, <1>2

-----------------------------------------------------------------------------
(* The files: each entry has an object of its own.                          *)
KeptFp(f, others, nx, fr) ==
    /\ \A i \in DOMAIN f : f[i].obj < nx /\ fr[f[i].obj] = 0 /\ f[i].obj \notin others
    /\ \A i, j \in DOMAIN f : f[i].obj = f[j].obj => i = j

MsqlHeld == MsqlPart(Working, PgObjects(pg) \cup FpObjects)
PgHeld   == PgPart(PgWorking, MsqlObjects(msql) \cup FpObjects)
FpHeld   == KeptFp(fp, MsqlObjects(msql) \cup PgObjects(pg), next, freed)
Bounded  == next <= 2 * calls + 1 /\ Len(fp) <= calls
AtRest   == over => msql.results = {} /\ msql.sock = none /\ pg.conns = {} /\ pg.results = {}

HoldInv == TypeOK /\ Bounded /\ MsqlHeld /\ PgHeld /\ FpHeld /\ AtRest

-----------------------------------------------------------------------------
(* A part that a step does not touch, next to lists that have changed.      *)
LEMMA MsqlBeside ==
    ASSUME NEW w, NEW others, MsqlPart(w, others), NEW v \in MsqlWork, v.m = w.m, w.next <= v.next,
           w.given \subseteq v.given, \A g \in v.given : g \in w.given \/ g[1] # "msql",
           OneMeaning(v.given), Once(v.next, v.freed),
           NEW P, KeptOthers(P, v.next, v.freed), Covered(MsqlObjects(v.m) \cup P, v.next, v.freed),
           \A o \in MsqlObjects(w.m) : v.freed[o] = 0 /\ o \notin P
    PROVE  MsqlPart(v, P)
<1>1. /\ w.m.results \in SUBSET Node /\ w.m.sock \in {none} \cup Object /\ w.next \in Int /\ v.next \in Int
  BY DEF MsqlPart, MsqlWork, MsqlState
<1>2. KeptMsql(v.m, P, v.next, v.freed)
  <2>1. ASSUME NEW e \in w.m.results
        PROVE  e.obj < v.next /\ v.freed[e.obj] = 0 /\ e.obj \notin P \cup {w.m.sock}
    <3>1. e.obj \in MsqlObjects(w.m) BY DEF MsqlObjects, Objects
    <3>2. e.obj < w.next /\ e.obj # w.m.sock /\ e.obj \in Int BY <1>1 DEF MsqlPart, KeptMsql, KeptList, Node, Object
    <3> QED BY <1>1, <3>1, <3>2
  <2>2. ASSUME w.m.sock # none PROVE w.m.sock < v.next /\ v.freed[w.m.sock] = 0 /\ w.m.sock \notin P
    <3>1. w.m.sock \in MsqlObjects(w.m) BY <2>2 DEF MsqlObjects
    <3>2. w.m.sock < w.next /\ w.m.sock \in Int BY <1>1, <2>2 DEF MsqlPart, KeptMsql, Object
    <3> QED BY <1>1, <3>1, <3>2
  <2>3. \A e, g \in w.m.results : e.obj = g.obj => e = g BY DEF MsqlPart, KeptMsql, KeptList
  <2> QED BY <2>1, <2>2, <2>3 DEF KeptMsql, KeptList
<1>3. Counted("msql", v.m.results, v.m.ind, v.given) BY DEF MsqlPart, Counted
<1> QED BY <1>2, <1>3 DEF MsqlPart

LEMMA PgBeside ==
    ASSUME NEW w, NEW others, PgPart(w, others), NEW v \in PgWork, v.p = w.p, w.next <= v.next,
           v.conn = w.conn, w.given \subseteq v.given, \A g \in v.given : g \in w.given \/ g[1] = "msql",
           OneMeaning(v.given), Once(v.next, v.freed),
           NEW P, KeptOthers(P, v.next, v.freed), Covered(PgObjects(v.p) \cup P, v.next, v.freed),
           \A o \in PgObjects(w.p) : v.freed[o] = 0 /\ o \notin P
    PROVE  PgPart(v, P)
<1>1. /\ w.p.results \in SUBSET Node /\ w.p.conns \in SUBSET Node /\ w.next \in Int /\ v.next \in Int
  BY DEF PgPart, PgWork, PgState
<1>2. KeptPg(v.p, P, v.next, v.freed)
  <2>1. ASSUME NEW e \in w.p.conns
        PROVE  e.obj < v.next /\ v.freed[e.obj] = 0 /\ e.obj \notin P \cup Objects(w.p.results)
    <3>1. e.obj \in PgObjects(w.p) BY DEF PgObjects, Objects
    <3>2. e.obj < w.next /\ e.obj \notin Objects(w.p.results) /\ e.obj \in Int
      BY <1>1 DEF PgPart, KeptPg, KeptList, Node, Object
    <3> QED BY <1>1, <3>1, <3>2
  <2>2. ASSUME NEW e \in w.p.results
        PROVE  e.obj < v.next /\ v.freed[e.obj] = 0 /\ e.obj \notin P \cup Objects(w.p.conns)
    <3>1. e.obj \in PgObjects(w.p) BY DEF PgObjects, Objects
    <3>2. e.obj < w.next /\ e.obj \notin Objects(w.p.conns) /\ e.obj \in Int
      BY <1>1 DEF PgPart, KeptPg, KeptList, Node, Object
    <3> QED BY <1>1, <3>1, <3>2
  <2>3. /\ \A e, g \in w.p.conns : e.obj = g.obj => e = g
        /\ \A e, g \in w.p.results : e.obj = g.obj => e = g
    BY DEF PgPart, KeptPg, KeptList
  <2> QED BY <2>1, <2>2, <2>3 DEF KeptPg, KeptList
<1>3. Counted("pg", v.p.results, v.p.ind, v.given) /\ Counted("pgconn", v.p.conns, v.p.cind, v.given)
  BY DEF PgPart, Counted
<1>4. \A e \in v.p.results : v.conn[e.obj] \in Object BY DEF PgPart
<1> QED BY <1>2, <1>3, <1>4 DEF PgPart

(* What an mSQL call leaves.                                               *)
LEMMA MsqlCallKeeps ==
    ASSUME HandlesAssumption, HoldInv, NEW w, MsqlPart(w, PgObjects(pg) \cup FpObjects), MsqlSince(w),
           w.next <= next + 2, Becomes(w), used' \subseteq Object, calls < MaxCalls, calls' = calls + 1,
           ~over, over' = over
    PROVE  HoldInv'
<1>1. /\ msql' = w.m /\ next' = w.next /\ freed' = w.freed /\ given' = w.given
      /\ env' = env /\ pg' = pg /\ fp' = fp /\ broken' = broken /\ conn' = conn
  BY DEF Becomes
<1>2. w \in MsqlWork BY DEF MsqlPart
<1>3. next \in Nat /\ next <= w.next /\ w.next \in Nat BY <1>2 DEF MsqlSince, MsqlWork
<1>4. TypeOK'
  <2>1. given' \subseteq {"msql", "pg", "pgconn"} \X Nat \X Object BY <1>1, <1>2 DEF MsqlWork, Given
  <2>2. msql' \in MsqlState /\ next' \in 1 .. 2 * MaxCalls + 1 /\ freed' \in [Object -> Nat]
    BY <1>1, <1>2 DEF MsqlWork
  <2>3. calls' \in 0 .. MaxCalls BY DEF HoldInv, TypeOK, HandlesAssumption
  <2> QED BY <1>1, <2>1, <2>2, <2>3 DEF HoldInv, TypeOK, MsqlState
<1>5. Bounded' BY <1>1, <1>3 DEF HoldInv, Bounded, TypeOK, HandlesAssumption
<1>6. FpObjects' = FpObjects BY <1>1 DEF FpObjects
<1>7. MsqlHeld'
  <2>1. Working' \in MsqlWork /\ Working'.m = w.m /\ Working'.next = w.next /\ Working'.freed = w.freed
        /\ Working'.given = w.given
    BY <1>1, <1>2 DEF Working, MsqlWork
  <2>2. MsqlPart(Working', PgObjects(pg) \cup FpObjects) BY <2>1 DEF MsqlPart
  <2> QED BY <1>1, <1>6, <2>2 DEF MsqlHeld
<1>8. PgHeld'
  <2> DEFINE v == PgWorking'
             P == MsqlObjects(w.m) \cup FpObjects
  <2>1. /\ v.p = pg /\ v.next = w.next /\ v.freed = w.freed /\ v.given = w.given /\ v.conn = conn /\ v \in PgWork
    BY <1>1, <1>2 DEF HoldInv, TypeOK, PgWorking, PgWork, MsqlWork, PgState
  <2>2. /\ PgWorking.p = pg /\ PgWorking.next = next /\ PgWorking.given = given /\ PgWorking.conn = conn
        /\ PgWorking.freed = freed
    BY DEF PgWorking
  <2>3. PgPart(PgWorking, MsqlObjects(msql) \cup FpObjects) BY DEF HoldInv, PgHeld
  <2>4. OneMeaning(v.given) /\ Once(v.next, v.freed) BY <2>1 DEF MsqlPart
  <2>5. w.m.results \in SUBSET Node /\ w.m.sock \in {none} \cup Object BY <1>2 DEF MsqlWork, MsqlState
  <2>6. ASSUME NEW o \in MsqlObjects(w.m)
        PROVE  o \in Object /\ o < w.next /\ w.freed[o] = 0 /\ o \notin PgObjects(pg) \cup FpObjects
    BY <2>5 DEF MsqlPart, KeptMsql, KeptList, MsqlObjects, Objects, Node
  <2>7. KeptOthers(P, v.next, v.freed)
    BY <2>1, <2>6 DEF MsqlPart, KeptOthers
  <2>8. Covered(PgObjects(v.p) \cup P, v.next, v.freed) BY <2>1 DEF MsqlPart, Covered
  <2>9. ASSUME NEW o \in PgObjects(pg) PROVE v.freed[o] = 0 /\ o \notin P
    <3>1. w.freed[o] = 0 BY DEF MsqlPart, KeptOthers
    <3>2. o \notin FpObjects BY <2>2, <2>3 DEF PgPart, KeptPg, KeptList, PgObjects, Objects
    <3> QED BY <2>1, <2>6, <3>1, <3>2
  <2>10. \A g \in v.given : g \in PgWorking.given \/ g[1] = "msql" BY <2>1, <2>2 DEF MsqlSince
  <2>11. PgWorking.given \subseteq v.given /\ PgWorking.next <= v.next BY <2>1, <2>2 DEF MsqlSince
  <2> HIDE DEF v, P
  <2>12. PgPart(v, P) BY <2>1, <2>2, <2>3, <2>4, <2>7, <2>8, <2>9, <2>10, <2>11, PgBeside
  <2> QED BY <1>1, <1>6, <2>12 DEF PgHeld, v, P
<1>9. FpHeld'
  <2>1. \A i \in DOMAIN fp : fp[i].obj \in FpObjects BY DEF FpObjects
  <2>2. \A i \in DOMAIN fp : fp[i].obj \notin PgObjects(pg) BY DEF HoldInv, FpHeld, KeptFp
  <2>3. \A i \in DOMAIN fp : fp[i].obj \notin MsqlObjects(w.m)
    BY <2>1 DEF MsqlPart, KeptMsql, KeptList, MsqlObjects, Objects
  <2>4. \A i \in DOMAIN fp : fp[i].obj < w.next /\ w.freed[fp[i].obj] = 0 BY <2>1 DEF MsqlPart, KeptOthers
  <2> QED BY <1>1, <2>2, <2>3, <2>4 DEF HoldInv, FpHeld, KeptFp
<1>10. AtRest' BY DEF AtRest
<1> QED BY <1>4, <1>5, <1>7, <1>8, <1>9, <1>10 DEF HoldInv

LEMMA MsqlStart ==
    ASSUME HandlesAssumption, HoldInv, calls < MaxCalls
    PROVE  /\ MsqlPart(Working, PgObjects(pg) \cup FpObjects) /\ MsqlSince(Working)
           /\ Once(next, freed) /\ next \in Object /\ next + 1 \in Object /\ TypeOK
<1>1. Working.m = msql /\ Working.next = next /\ Working.given = given /\ Working.freed = freed BY DEF Working
<1>2. next \in Nat /\ calls \in Nat BY DEF HoldInv, TypeOK
<1>3. next \in Object /\ next + 1 \in Object
  BY <1>2 DEF HoldInv, Bounded, Object, HandlesAssumption, TypeOK
<1>4. MsqlPart(Working, PgObjects(pg) \cup FpObjects) BY DEF HoldInv, MsqlHeld
<1>5. MsqlSince(Working) BY <1>1, <1>2, <1>4 DEF MsqlSince, MsqlPart, KeptMsql
<1>6. Once(next, freed) BY <1>1, <1>4 DEF MsqlPart
<1> QED BY <1>3, <1>4, <1>5, <1>6 DEF HoldInv

(* What a call uses is open.                                               *)
UsesOnlyOpen == \A o \in used' : freed[o] = 0

LEMMA MsqlStep ==
    ASSUME HandlesAssumption, HoldInv, NEW db \in Database, Msql(db), calls < MaxCalls, calls' = calls + 1,
           ~over, over' = over
    PROVE  HoldInv' /\ UsesOnlyOpen /\ (Thought(msql) => Thought(msql'))
<1> DEFINE O == PgObjects(pg) \cup FpObjects
           S(u) == SelectsDB(u, db)
<1>1. PICK w : /\ w \in Then(Then(Connected(Working), S), Queries)
               /\ Becomes(w) /\ used' = IF w.ok THEN {w.m.sock} ELSE {}
  BY DEF Msql
<1>2. PICK v \in Then(Connected(Working), S) : w \in (IF v.ok THEN Queries(v) ELSE {v})
  <2> HIDE DEF S
  <2> QED BY <1>1 DEF Then
<1>3. PICK u \in Connected(Working) : v \in (IF u.ok THEN S(u) ELSE {u})
  <2> HIDE DEF S
  <2> QED BY <1>2 DEF Then
<1>4. /\ MsqlPart(Working, O) /\ MsqlSince(Working) /\ Once(next, freed) /\ next \in Object /\ next + 1 \in Object
      /\ TypeOK
  BY MsqlStart
<1> HIDE DEF O
<1>5. /\ MsqlPart(u, O) /\ MsqlSince(u) /\ (Thought(msql) => Thought(u.m))
      /\ u.next <= next + 1 /\ (u.ok => u.m.sock # none)
  BY <1>4, ConnectedKeeps
<1>6. /\ MsqlPart(v, O) /\ MsqlSince(v) /\ (Thought(msql) => Thought(v.m))
      /\ v.next <= next + 1 /\ (v.ok => v.m.sock # none)
  <2>1. CASE ~u.ok BY <1>3, <1>5, <2>1
  <2>2. CASE u.ok /\ u.m.db = db
    <3>1. v = u BY <1>3, <2>2 DEF SelectsDB
    <3> QED BY <1>5, <3>1
  <2>3. CASE u.ok /\ u.m.db # db
    <3>1. v \in Selected(u, db, db) BY <1>3, <2>3 DEF SelectsDB, Selected
    <3>2. u.m.sock # none BY <1>5, <2>3
    <3>3. /\ MsqlPart(v, O) /\ MsqlSince(v) /\ v.next = u.next /\ v.m.sock = u.m.sock
          /\ (Thought(u.m) => Thought(v.m))
      BY <1>5, <3>1, <3>2, SelectsKeeps
    <3> QED BY <1>5, <3>2, <3>3
  <2> QED BY <2>1, <2>2, <2>3
<1>7. v.next \in Object /\ v.next + 1 <= next + 2
  <2>1. v.next \in 1 .. 2 * MaxCalls + 1 BY <1>6 DEF MsqlPart, MsqlWork
  <2>2. v.next <= next + 1 BY <1>6
  <2>3. next \in Object /\ next + 1 \in Object BY <1>4
  <2> QED BY <2>1, <2>2, <2>3 DEF Object, HandlesAssumption
<1>8. /\ MsqlPart(w, O) /\ MsqlSince(w) /\ (Thought(msql) => Thought(w.m)) /\ w.next <= next + 2
      /\ (w.ok => w.m.sock # none)
  <2>1. CASE ~v.ok
    <3>1. w = v BY <1>2, <2>1
    <3> QED BY <1>4, <1>6, <1>7, <2>1, <3>1 DEF Object
  <2>2. CASE v.ok
    <3>1. w \in Queries(v) BY <1>2, <2>2
    <3>3. /\ MsqlPart(w, O) /\ MsqlSince(w) /\ (Thought(v.m) => Thought(w.m)) /\ w.next <= v.next + 1
          /\ w.m.sock = v.m.sock
      BY <1>6, <1>7, <3>1, QueriesKeeps
    <3>4. w.next \in Nat /\ v.next \in Nat /\ next \in Nat BY <1>6, <3>3 DEF MsqlPart, MsqlWork, MsqlSince
    <3> QED BY <1>6, <1>7, <2>2, <3>3, <3>4
  <2> QED BY <2>1, <2>2
<1>9. used' \subseteq Object /\ UsesOnlyOpen
  <2>1. w.m.sock \in {none} \cup Object BY <1>8 DEF MsqlPart, MsqlWork, MsqlState
  <2> QED BY <1>1, <1>8, <2>1 DEF MsqlSince, UsesOnlyOpen
<1>10. HoldInv' BY <1>1, <1>8, <1>9, MsqlCallKeeps DEF O
<1> QED BY <1>1, <1>8, <1>9, <1>10 DEF Becomes

LEMMA ListTablesStep ==
    ASSUME HandlesAssumption, HoldInv, NEW db \in Database, MsqlListTables(db), calls < MaxCalls, calls' = calls + 1,
           ~over, over' = over
    PROVE  HoldInv' /\ UsesOnlyOpen /\ (Thought(msql) /\ "tables listed" \in Avoided => Thought(msql'))
<1> DEFINE O == PgObjects(pg) \cup FpObjects
           S(u) == Fails(u) \cup {[u EXCEPT !.m.selected = db]}
           L(u) == Fails(u) \cup {add_result(u)}
<1>1. PICK w : w \in Then(Then(Connected(Working), S), L) /\ Becomes(w) /\ used' = {}
  BY DEF MsqlListTables
<1>2. PICK v \in Then(Connected(Working), S) : w \in (IF v.ok THEN L(v) ELSE {v})
  <2> HIDE DEF S, L
  <2> QED BY <1>1 DEF Then
<1>3. PICK u \in Connected(Working) : v \in (IF u.ok THEN S(u) ELSE {u})
  <2> HIDE DEF S
  <2> QED BY <1>2 DEF Then
<1>4. /\ MsqlPart(Working, O) /\ MsqlSince(Working) /\ Once(next, freed) /\ next \in Object /\ next + 1 \in Object
      /\ TypeOK
  BY MsqlStart
<1>41. w \in (IF v.ok THEN Fails(v) \cup {add_result(v)} ELSE {v}) BY <1>2
<1>42. v \in (IF u.ok THEN Fails(u) \cup {[u EXCEPT !.m.selected = db]} ELSE {u}) BY <1>3
<1> HIDE DEF O, S, L
<1>5. /\ MsqlPart(u, O) /\ MsqlSince(u) /\ (Thought(msql) => Thought(u.m))
      /\ u.next <= next + 1 /\ (u.ok => u.m.sock # none) /\ (u.m.db = "none" \/ u.m.db = msql.db)
  BY <1>4, ConnectedKeeps
<1>6. /\ MsqlPart(v, O) /\ MsqlSince(v) /\ v.next <= next + 1
      /\ (Thought(msql) /\ "tables listed" \in Avoided => Thought(v.m))
  <2>1. CASE ~u.ok BY <1>42, <1>5, <2>1
  <2>2. CASE u.ok
    <3> DEFINE d == u.m.db
    <3>1. v \in Selected(u, d, db)
      <4>1. u \in MsqlWork BY <1>5 DEF MsqlPart
      <4>2. [u EXCEPT !.m.selected = db] = [u EXCEPT !.m.db = d, !.m.selected = db]
        BY <4>1 DEF MsqlWork, MsqlState
      <4> QED BY <1>42, <2>2, <4>2 DEF Selected
    <3>2. u.m.sock # none BY <1>5, <2>2
    <3>3. d \in {db, u.m.db} OBVIOUS
    <3>4. "tables listed" \in Avoided => d \in {"none", db} BY <1>5 DEF MsqlListTables
    <3> HIDE DEF d
    <3>5. /\ MsqlPart(v, O) /\ MsqlSince(v) /\ v.next = u.next
          /\ (Thought(u.m) /\ d \in {"none", db} => Thought(v.m))
      BY <1>5, <3>1, <3>2, <3>3, SelectsKeeps
    <3> QED BY <1>5, <3>4, <3>5
  <2> QED BY <2>1, <2>2
<1>7. v.next \in Object /\ v.next + 1 <= next + 2
  <2>1. v.next \in 1 .. 2 * MaxCalls + 1 BY <1>6 DEF MsqlPart, MsqlWork
  <2>2. v.next <= next + 1 BY <1>6
  <2>3. next \in Object /\ next + 1 \in Object BY <1>4
  <2> QED BY <2>1, <2>2, <2>3 DEF Object, HandlesAssumption
<1>8. /\ MsqlPart(w, O) /\ MsqlSince(w) /\ w.next <= next + 2
      /\ (Thought(msql) /\ "tables listed" \in Avoided => Thought(w.m))
  <2>1. CASE ~v.ok
    <3>1. w = v BY <1>41, <2>1
    <3>2. v.next <= next + 2
      <4>1. v.next \in Object /\ next \in Object BY <1>4, <1>7
      <4>2. v.next \in Int /\ next \in Int BY <4>1 DEF Object
      <4> QED BY <1>7, <4>2
    <3> QED BY <1>6, <3>1, <3>2
  <2>2. CASE v.ok
    <3>1. w \in Queries(v) BY <1>41, <2>2 DEF Queries
    <3>2. MsqlPart(w, O) /\ MsqlSince(w) /\ (Thought(v.m) => Thought(w.m)) /\ w.next <= v.next + 1
      BY <1>6, <1>7, <3>1, QueriesKeeps
    <3>3. w \in MsqlWork /\ v \in MsqlWork /\ next \in Nat BY <1>6, <3>2 DEF MsqlPart, MsqlSince
    <3>4. w.next \in Nat /\ v.next \in Nat BY <3>3 DEF MsqlWork
    <3>5. w.next <= next + 2 BY <1>7, <3>2, <3>3, <3>4
    <3> QED BY <1>6, <3>2, <3>5
  <2> QED BY <2>1, <2>2
<1>9. HoldInv' BY <1>1, <1>8, MsqlCallKeeps DEF O
<1> QED BY <1>1, <1>8, <1>9 DEF Becomes, UsesOnlyOpen

(* Results are taken from the list and given back.                          *)
MsqlFreed(w, nodes) ==
    [w EXCEPT !.m = [w.m EXCEPT !.results = @ \ nodes], !.freed = Frees(w.freed, Objects(nodes))]

LEMMA MsqlFreeKeeps ==
    ASSUME HandlesAssumption, NEW w, NEW others, MsqlPart(w, others), MsqlSince(w), NEW nodes \in SUBSET w.m.results,
           NEW v, v = MsqlFreed(w, nodes)
    PROVE  /\ MsqlPart(v, others) /\ MsqlSince(v) /\ v.next = w.next /\ v.given = w.given
           /\ v.m.db = w.m.db /\ v.m.selected = w.m.selected
<1> DEFINE gone == Objects(nodes)
<1>1. /\ w.m \in MsqlState /\ w.freed \in [Object -> Nat] /\ w.m.results \in SUBSET Node
      /\ w.next \in 1 .. 2 * MaxCalls + 1 /\ w.m.sock \in {none} \cup Object
  BY DEF MsqlPart, MsqlWork, MsqlState
<1>2. /\ v.m = [w.m EXCEPT !.results = @ \ nodes]
      /\ v.next = w.next /\ v.freed = Frees(w.freed, gone) /\ v.ok = w.ok /\ v.given = w.given
  BY DEF MsqlPart, MsqlWork, MsqlFreed
<1>3. /\ v.m \in MsqlState /\ v.m.results = w.m.results \ nodes /\ v.m.sock = w.m.sock /\ v.m.db = w.m.db
      /\ v.m.selected = w.m.selected /\ v.m.ind = w.m.ind
  <2>1. w.m.results \ nodes \in SUBSET Node BY <1>1
  <2> QED BY <1>1, <1>2, <2>1 DEF MsqlState
<1>4. /\ v.freed \in [Object -> Nat]
      /\ \A o \in Object : v.freed[o] = IF o \in gone THEN w.freed[o] + 1 ELSE w.freed[o]
  <2> HIDE DEF gone
  <2> QED BY <1>1, <1>2, FreesType
<1>5. \A o \in gone : o \in Object /\ w.freed[o] = 0 /\ o < w.next /\ o \notin others \cup {w.m.sock}
  BY <1>1 DEF MsqlPart, KeptMsql, KeptList, Objects, Node
<1>6. \A e \in w.m.results \ nodes : e.obj \notin gone
  BY DEF MsqlPart, KeptMsql, KeptList, Objects
<1> HIDE DEF gone
<1>7. v \in MsqlWork
  <2>1. v = [[w EXCEPT !.m = v.m] EXCEPT !.freed = v.freed] BY <1>2 DEF MsqlPart, MsqlWork, MsqlFreed
  <2>2. w \in MsqlWork BY DEF MsqlPart
  <2> QED BY <1>3, <1>4, <2>1, <2>2 DEF MsqlWork
<1>8. Once(v.next, v.freed)
  <2>1. ASSUME NEW o \in Object PROVE v.freed[o] <= 1
    <3>1. v.freed[o] = IF o \in gone THEN w.freed[o] + 1 ELSE w.freed[o] BY <1>4
    <3>2. o \in gone => w.freed[o] = 0 BY <1>5
    <3>3. w.freed[o] \in Nat /\ w.freed[o] <= 1 BY <1>1 DEF MsqlPart, Once
    <3> QED BY <3>1, <3>2, <3>3
  <2>2. \A o \in Object : o >= v.next => o \notin gone BY <1>1, <1>2, <1>5 DEF Object, HandlesAssumption
  <2> QED BY <1>2, <1>4, <2>1, <2>2 DEF MsqlPart, Once
<1>9. KeptOthers(others, v.next, v.freed) BY <1>2, <1>4, <1>5 DEF MsqlPart, KeptOthers
<1>10. KeptMsql(v.m, others, v.next, v.freed)
  <2>1. ASSUME NEW e \in v.m.results
        PROVE  e.obj < v.next /\ v.freed[e.obj] = 0 /\ e.obj \notin others \cup {v.m.sock}
    <3>1. e \in w.m.results /\ e.obj \notin gone /\ e.obj \in Object BY <1>1, <1>3, <1>6 DEF Node
    <3> QED BY <1>2, <1>3, <1>4, <3>1 DEF MsqlPart, KeptMsql, KeptList
  <2>2. v.m.sock # none => v.m.sock < v.next /\ v.freed[v.m.sock] = 0 /\ v.m.sock \notin others
    BY <1>1, <1>2, <1>3, <1>4, <1>5 DEF MsqlPart, KeptMsql
  <2>3. \A e, g \in v.m.results : e.obj = g.obj => e = g BY <1>3 DEF MsqlPart, KeptMsql, KeptList
  <2> QED BY <2>1, <2>2, <2>3 DEF KeptMsql, KeptList
<1>11. Covered(MsqlObjects(v.m) \cup others, v.next, v.freed)
  <2>1. ASSUME NothingLost, NEW o \in 1 .. v.next - 1, v.freed[o] = 0 PROVE o \in MsqlObjects(v.m) \cup others
    <3>1. o \in Object BY <1>1, <1>2 DEF Object, HandlesAssumption
    <3>2. o \notin gone /\ w.freed[o] = 0
      <4>1. w.freed[o] \in Nat BY <1>1, <3>1
      <4>2. v.freed[o] = IF o \in gone THEN w.freed[o] + 1 ELSE w.freed[o] BY <1>4, <3>1
      <4> QED BY <2>1, <4>1, <4>2
    <3>3. o \in MsqlObjects(w.m) \cup others BY <1>2, <2>1, <3>2 DEF MsqlPart, Covered
    <3> QED BY <1>3, <3>2, <3>3 DEF MsqlObjects, Objects, gone
  <2> QED BY <2>1 DEF Covered
<1>12. Counted("msql", v.m.results, v.m.ind, v.given) /\ OneMeaning(v.given) BY <1>2, <1>3 DEF MsqlPart, Counted
<1> QED BY <1>2, <1>3, <1>4, <1>5, <1>7, <1>8, <1>9, <1>10, <1>11, <1>12 DEF MsqlPart, MsqlSince

LEMMA OtherMsqlStep ==
    ASSUME HandlesAssumption, HoldInv, calls < MaxCalls, calls' = calls + 1, ~over, over' = over,
           \/ MsqlConnect
           \/ \E n \in Numbers("msql") : MsqlFreeResult(n) \/ MsqlResult(n)
           \/ \E port \in Port : PutEnv(port)
    PROVE  HoldInv' /\ UsesOnlyOpen /\ (Thought(msql) => Thought(msql'))
<1> DEFINE O == PgObjects(pg) \cup FpObjects
<1>1. /\ MsqlPart(Working, O) /\ MsqlSince(Working) /\ next \in Object /\ TypeOK BY MsqlStart
<1>2. Working.m = msql /\ Working.next = next /\ Working.given = given /\ Working.freed = freed /\ next \in Nat
  BY <1>1 DEF Working, Object
<1>3. CASE MsqlConnect
  <2> DEFINE w == MsqlClose(Working)
  <2>1. MsqlPart(w, O) /\ Thought(w.m) /\ w.m.sock = none /\ w.next = next /\ w.given = given
    BY <1>1, <1>2, MsqlCloseKeeps
  <2>2. Becomes(w) /\ used' = {} BY <1>3 DEF MsqlConnect
  <2> HIDE DEF w
  <2>3. MsqlSince(w) BY <1>2, <2>1 DEF MsqlSince
  <2>31. w.next <= next + 2 /\ used' \subseteq Object BY <1>2, <2>1, <2>2
  <2>4. HoldInv' BY <2>1, <2>2, <2>3, <2>31, MsqlCallKeeps DEF O
  <2> QED BY <2>1, <2>2, <2>4 DEF Becomes, UsesOnlyOpen
<1>4. ASSUME NEW n, MsqlFreeResult(n) PROVE HoldInv' /\ UsesOnlyOpen /\ (Thought(msql) => Thought(msql'))
  <2> DEFINE nodes == Named(msql.results, n)
             w == MsqlFreed(Working, nodes)
  <2>1. nodes \in SUBSET Working.m.results BY <1>2 DEF Named
  <2>2. /\ w.m = [msql EXCEPT !.results = @ \ nodes] /\ w.freed = Frees(freed, Objects(nodes))
        /\ w.next = next /\ w.given = given
    BY DEF Working, MsqlFreed
  <2>3. Becomes(w) /\ used' = {} BY <1>4, <2>2 DEF MsqlFreeResult, del_result, Becomes
  <2> HIDE DEF nodes
  <2>4. /\ MsqlPart(w, O) /\ MsqlSince(w) /\ w.m.db = msql.db /\ w.m.selected = msql.selected
    <3>1. w = MsqlFreed(Working, nodes) OBVIOUS
    <3> HIDE DEF w, O
    <3> QED BY <1>1, <1>2, <2>1, <3>1, MsqlFreeKeeps
  <2> HIDE DEF w
  <2>41. w.next <= next + 2 /\ used' \subseteq Object BY <1>2, <2>2, <2>3
  <2>5. HoldInv' BY <2>3, <2>4, <2>41, MsqlCallKeeps DEF O
  <2> QED BY <2>2, <2>3, <2>4, <2>5 DEF Becomes, UsesOnlyOpen, Thought
<1>5. ASSUME NEW n, MsqlResult(n) PROVE HoldInv' /\ UsesOnlyOpen /\ (Thought(msql) => Thought(msql'))
  <2>1. Becomes(Working) BY <1>2, <1>5 DEF MsqlResult, Becomes
  <2>2. used' \subseteq Object BY <1>1, <1>5 DEF MsqlResult, get_result, Objects, Named, TypeOK, Node
  <2>3. UsesOnlyOpen
    BY <1>1, <1>2, <1>5 DEF UsesOnlyOpen, MsqlResult, get_result, Objects, Named, MsqlPart, KeptMsql, KeptList
  <2>4. HoldInv' BY <1>1, <1>2, <2>1, <2>2, MsqlCallKeeps
  <2> QED BY <1>2, <2>1, <2>3, <2>4 DEF Becomes
<1>6. ASSUME NEW port \in Port, PutEnv(port) PROVE HoldInv' /\ UsesOnlyOpen /\ (Thought(msql) => Thought(msql'))
  <2>1. /\ env' = port /\ used' = {} /\ UNCHANGED <<msql, pg, fp, broken, conn, next, freed, given>>
    BY <1>6 DEF PutEnv
  <2>2. TypeOK'
    <3>1. calls' \in 0 .. MaxCalls BY <1>1 DEF TypeOK, HandlesAssumption
    <3> QED BY <1>1, <2>1, <3>1 DEF TypeOK
  <2>3. Bounded' BY <1>1, <2>1 DEF HoldInv, Bounded, TypeOK, HandlesAssumption
  <2>4. MsqlHeld' BY <2>1 DEF HoldInv, MsqlHeld, Working, FpObjects
  <2>5. PgHeld'
    <3>1. PgWorking' = PgWorking /\ FpObjects' = FpObjects BY <2>1 DEF PgWorking, FpObjects
    <3> QED BY <2>1, <3>1 DEF HoldInv, PgHeld
  <2>6. FpHeld' BY <2>1 DEF HoldInv, FpHeld
  <2>7. AtRest' BY DEF AtRest
  <2> QED BY <2>1, <2>2, <2>3, <2>4, <2>5, <2>6, <2>7 DEF HoldInv, UsesOnlyOpen
<1> QED BY <1>3, <1>4, <1>5, <1>6


-----------------------------------------------------------------------------
(* What a Postgres95 call leaves.                                          *)
LEMMA PgCallKeeps ==
    ASSUME HandlesAssumption, HoldInv, NEW w, PgPart(w, MsqlObjects(msql) \cup FpObjects), PgSince(w),
           w.next <= next + 2, PgBecomes(w), calls < MaxCalls, calls' = calls + 1, ~over, over' = over
    PROVE  HoldInv'
<1>1. /\ pg' = w.p /\ next' = w.next /\ freed' = w.freed /\ given' = w.given
      /\ broken' = w.broken /\ conn' = w.conn /\ used' = w.used
      /\ env' = env /\ msql' = msql /\ fp' = fp
  BY DEF PgBecomes
<1>2. w \in PgWork BY DEF PgPart
<1>3. next \in Nat /\ next <= w.next /\ w.next \in Nat BY <1>2 DEF PgSince, PgWork
<1>4. TypeOK'
  <2>1. given' \subseteq {"msql", "pg", "pgconn"} \X Nat \X Object BY <1>1, <1>2 DEF PgWork, Given
  <2>2. /\ pg' \in PgState /\ next' \in 1 .. 2 * MaxCalls + 1 /\ freed' \in [Object -> Nat]
        /\ broken' \subseteq Object /\ conn' \in [Object -> {none} \cup Object] /\ used' \subseteq Object
    BY <1>1, <1>2 DEF PgWork
  <2>3. calls' \in 0 .. MaxCalls BY DEF HoldInv, TypeOK, HandlesAssumption
  <2> QED BY <1>1, <2>1, <2>2, <2>3 DEF HoldInv, TypeOK, PgState
<1>5. Bounded' BY <1>1, <1>3 DEF HoldInv, Bounded, TypeOK, HandlesAssumption
<1>6. FpObjects' = FpObjects BY <1>1 DEF FpObjects
<1>7. PgHeld'
  <2>1. PgWorking' \in PgWork /\ PgWorking'.p = w.p /\ PgWorking'.next = w.next /\ PgWorking'.freed = w.freed
        /\ PgWorking'.given = w.given /\ PgWorking'.conn = w.conn
    BY <1>1, <1>2 DEF PgWorking, PgWork
  <2>2. PgPart(PgWorking', MsqlObjects(msql) \cup FpObjects)
    <3> HIDE DEF PgWorking
    <3> QED BY <2>1, PgSame
  <2> QED BY <1>1, <1>6, <2>2 DEF PgHeld
<1>8. MsqlHeld'
  <2> DEFINE v == Working'
             P == PgObjects(w.p) \cup FpObjects
  <2>1. /\ v.m = msql /\ v.next = w.next /\ v.freed = w.freed /\ v.given = w.given /\ v \in MsqlWork
    BY <1>1, <1>2 DEF HoldInv, TypeOK, Working, PgWork, MsqlWork, MsqlState
  <2>2. Working.m = msql /\ Working.next = next /\ Working.given = given /\ Working.freed = freed BY DEF Working
  <2>3. MsqlPart(Working, PgObjects(pg) \cup FpObjects) BY DEF HoldInv, MsqlHeld
  <2>4. OneMeaning(v.given) /\ Once(v.next, v.freed) BY <2>1 DEF PgPart
  <2>5. w.p.results \in SUBSET Node /\ w.p.conns \in SUBSET Node BY <1>2 DEF PgWork, PgState
  <2>6. ASSUME NEW o \in PgObjects(w.p)
        PROVE  o \in Object /\ o < w.next /\ w.freed[o] = 0 /\ o \notin MsqlObjects(msql) \cup FpObjects
    BY <2>5 DEF PgPart, KeptPg, KeptList, PgObjects, Objects, Node
  <2>7. KeptOthers(P, v.next, v.freed) BY <2>1, <2>6 DEF PgPart, KeptOthers
  <2>8. Covered(MsqlObjects(v.m) \cup P, v.next, v.freed) BY <2>1 DEF PgPart, Covered
  <2>9. ASSUME NEW o \in MsqlObjects(msql) PROVE v.freed[o] = 0 /\ o \notin P
    <3>1. w.freed[o] = 0 BY DEF PgPart, KeptOthers
    <3>2. o \notin FpObjects BY <2>2, <2>3 DEF MsqlPart, KeptMsql, KeptList, MsqlObjects, Objects
    <3> QED BY <2>1, <2>6, <3>1, <3>2
  <2>10. \A g \in v.given : g \in Working.given \/ g[1] # "msql" BY <2>1, <2>2 DEF PgSince
  <2>11. Working.given \subseteq v.given /\ Working.next <= v.next BY <2>1, <2>2 DEF PgSince
  <2> HIDE DEF v, P
  <2>12. MsqlPart(v, P) BY <2>1, <2>2, <2>3, <2>4, <2>7, <2>8, <2>9, <2>10, <2>11, MsqlBeside
  <2> QED BY <1>1, <1>6, <2>12 DEF MsqlHeld, v, P
<1>9. FpHeld'
  <2>1. \A i \in DOMAIN fp : fp[i].obj \in FpObjects BY DEF FpObjects
  <2>2. \A i \in DOMAIN fp : fp[i].obj \notin MsqlObjects(msql) BY DEF HoldInv, FpHeld, KeptFp
  <2>3. \A i \in DOMAIN fp : fp[i].obj \notin PgObjects(w.p)
    BY <2>1 DEF PgPart, KeptPg, KeptList, PgObjects, Objects
  <2>4. \A i \in DOMAIN fp : fp[i].obj < w.next /\ w.freed[fp[i].obj] = 0 BY <2>1 DEF PgPart, KeptOthers
  <2> QED BY <1>1, <2>2, <2>3, <2>4 DEF HoldInv, FpHeld, KeptFp
<1>10. AtRest' BY DEF AtRest
<1> QED BY <1>4, <1>5, <1>7, <1>8, <1>9, <1>10 DEF HoldInv

LEMMA PgStart ==
    ASSUME HandlesAssumption, HoldInv, calls < MaxCalls
    PROVE  /\ PgPart(PgWorking, MsqlObjects(msql) \cup FpObjects) /\ PgSince(PgWorking) /\ UsedOpen(PgWorking)
           /\ next \in Nat /\ next \in Object /\ next + 1 \in Object /\ freed[next] = 0
           /\ PgWorking.p = pg /\ PgWorking.next = next /\ PgWorking.freed = freed /\ PgWorking.conn = conn
           /\ \A e \in pg.conns \cup pg.results : e.obj \in Object /\ freed[e.obj] = 0
           /\ \A e \in pg.results : conn[e.obj] \in Object
<1>1. /\ PgWorking.p = pg /\ PgWorking.next = next /\ PgWorking.given = given /\ PgWorking.freed = freed
      /\ PgWorking.conn = conn /\ PgWorking.used = {}
  BY DEF PgWorking
<1>2. next \in Nat /\ next \in Object /\ next + 1 \in Object BY MsqlStart DEF Object
<1>3. PgPart(PgWorking, MsqlObjects(msql) \cup FpObjects) BY DEF HoldInv, PgHeld
<1>4. PgSince(PgWorking) BY <1>1, <1>2 DEF PgSince
<1>5. freed[next] = 0 BY <1>1, <1>2, <1>3 DEF PgPart, Once
<1>6. \A e \in pg.conns \cup pg.results : e.obj \in Object /\ freed[e.obj] = 0
  <2>1. pg.conns \subseteq Node /\ pg.results \subseteq Node BY DEF HoldInv, TypeOK
  <2> QED BY <1>1, <1>3, <2>1 DEF PgPart, KeptPg, KeptList, Node
<1>7. \A e \in pg.results : conn[e.obj] \in Object BY <1>1, <1>3 DEF PgPart
<1> QED BY <1>1, <1>2, <1>3, <1>4, <1>5, <1>6, <1>7 DEF UsedOpen

LEMMA PgConnectStep ==
    ASSUME HandlesAssumption, HoldInv, PGconnect, calls < MaxCalls, calls' = calls + 1, ~over, over' = over
    PROVE  HoldInv' /\ UsesOnlyOpen
<1> DEFINE O == MsqlObjects(msql) \cup FpObjects
           a == pg_add_conn(PgWorking)
<1>1. /\ PgPart(PgWorking, O) /\ PgSince(PgWorking) /\ UsedOpen(PgWorking)
      /\ next \in Nat /\ next \in Object /\ next + 1 \in Object /\ freed[next] = 0 /\ PgWorking.next = next
  BY PgStart
<1>2. CASE \E w \in (IF a.p.types = 0 THEN pg_type(a, next) ELSE {a}) : PgBecomes(w)
  <2>1. PICK w \in (IF a.p.types = 0 THEN pg_type(a, next) ELSE {a}) : PgBecomes(w) BY <1>2
  <2> HIDE DEF O
  <2>2. PgPart(a, O) /\ PgSince(a) /\ a.next = next + 1 /\ a.used = PgWorking.used BY <1>1, PgAddConnKeeps
  <2>3. a.next \in Object /\ UsedOpen(a) BY <1>1, <2>2 DEF UsedOpen
  <2> HIDE DEF a
  <2>4. PgPart(w, O) /\ PgSince(w) /\ w.next <= next + 2 /\ UsedOpen(w)
    <3>1. CASE w = a BY <1>1, <2>2, <2>3, <3>1
    <3>2. CASE w \in pg_type(a, next)
      <4>1. PgPart(w, O) /\ PgSince(w) /\ w.next <= a.next + 1 /\ UsedOpen(w)
        BY <1>1, <2>2, <2>3, <3>2, PgTypeKeeps
      <4>2. w.next \in Nat BY <4>1 DEF PgPart, PgWork
      <4> QED BY <1>1, <2>2, <4>1, <4>2
    <3> QED BY <2>1, <3>1, <3>2
  <2>5. HoldInv' BY <2>1, <2>4, PgCallKeeps DEF O
  <2> QED BY <2>1, <2>4, <2>5 DEF PgBecomes, UsedOpen, UsesOnlyOpen
<1>3. CASE "failed connection" \notin Avoided /\ PgBecomes([PgWorking EXCEPT !.next = @ + 1])
  <2> DEFINE w == [PgWorking EXCEPT !.next = @ + 1]
  <2>1. ~NothingLost BY <1>3 DEF NothingLost
  <2>2. PgWorking \in PgWork BY <1>1 DEF PgPart
  <2>3. next + 1 \in 1 .. 2 * MaxCalls + 1 BY <1>1 DEF Object, HandlesAssumption
  <2>4. /\ w \in PgWork /\ w.p = PgWorking.p /\ w.next = PgWorking.next + 1 /\ w.given = PgWorking.given
        /\ w.conn = PgWorking.conn /\ w.freed = PgWorking.freed /\ w.used = PgWorking.used
    BY <1>1, <2>2, <2>3 DEF PgWork
  <2>5. PgBecomes(w) BY <1>3
  <2> HIDE DEF w, O
  <2>6. PgPart(w, O) /\ PgSince(w) BY <1>1, <2>1, <2>4, PgLoses
  <2>7. w.next <= next + 2 /\ UsedOpen(w) BY <1>1, <2>4 DEF UsedOpen
  <2>8. HoldInv' BY <2>5, <2>6, <2>7, PgCallKeeps DEF O
  <2> QED BY <2>5, <2>7, <2>8 DEF PgBecomes, UsedOpen, UsesOnlyOpen
<1> QED BY <1>2, <1>3 DEF PGconnect

LEMMA PgExecStep ==
    ASSUME HandlesAssumption, HoldInv, NEW n, PGexec(n), calls < MaxCalls, calls' = calls + 1, ~over, over' = over
    PROVE  HoldInv' /\ UsesOnlyOpen
<1> DEFINE O == MsqlObjects(msql) \cup FpObjects
<1>1. /\ PgPart(PgWorking, O) /\ PgSince(PgWorking) /\ UsedOpen(PgWorking)
      /\ next \in Nat /\ next \in Object /\ next + 1 \in Object /\ PgWorking.next = next
      /\ \A e \in pg.conns : e.obj \in Object /\ freed[e.obj] = 0
  BY PgStart
<1>2. CASE pg_get_conn(n) = {} /\ PgBecomes(PgWorking)
  <2>1. HoldInv' BY <1>1, <1>2, PgCallKeeps
  <2> QED BY <1>1, <1>2, <2>1 DEF PgBecomes, UsedOpen, UsesOnlyOpen
<1>3. ASSUME NEW c \in pg_get_conn(n),
             \E w \in LET Asked(w) == {w, pg_del_conn(w, c), pg_add_result(w, c)}
                      IN  Then(Alive(PgWorking, c), Asked) : PgBecomes(w)
      PROVE  HoldInv' /\ UsesOnlyOpen
  <2> DEFINE A(u) == {u, pg_del_conn(u, c), pg_add_result(u, c)}
  <2>1. PICK w \in Then(Alive(PgWorking, c), A) : PgBecomes(w) BY <1>3
  <2>2. PICK u \in Alive(PgWorking, c) : w \in (IF u.ok THEN A(u) ELSE {u})
    <3> HIDE DEF A
    <3> QED BY <2>1 DEF Then
  <2>3. w = u \/ w = pg_del_conn(u, c) \/ w = pg_add_result(u, c) BY <2>2
  <2> HIDE DEF O, A
  <2>4. c \in Object /\ freed[c] = 0
    <3>1. PICK e \in pg.conns : c = e.obj BY DEF pg_get_conn, Objects, Named
    <3> QED BY <1>1, <3>1
  <2>5. PgPart(u, O) /\ PgSince(u) /\ u.next = next /\ UsedOpen(u) BY <1>1, <2>4, AliveKeeps
  <2>6. PgPart(w, O) /\ PgSince(w) /\ w.next <= next + 2 /\ UsedOpen(w)
    <3>1. CASE w = u BY <1>1, <2>5, <3>1
    <3>2. CASE w = pg_del_conn(u, c)
      <4>1. PgPart(w, O) /\ PgSince(w) /\ w.next = u.next /\ w.used = u.used BY <2>5, <3>2, PgDelConnKeeps
      <4> QED BY <1>1, <2>5, <4>1 DEF UsedOpen
    <3>3. CASE w = pg_add_result(u, c)
      <4>1. PgPart(w, O) /\ PgSince(w) /\ w.next = u.next + 1 /\ w.used = u.used
        BY <1>1, <2>4, <2>5, <3>3, PgAddResultKeeps
      <4> QED BY <1>1, <2>5, <4>1 DEF UsedOpen
    <3> QED BY <2>3, <3>1, <3>2, <3>3
  <2>7. HoldInv' BY <2>1, <2>6, PgCallKeeps DEF O
  <2> QED BY <2>1, <2>6, <2>7 DEF PgBecomes, UsedOpen, UsesOnlyOpen
<1> QED BY <1>2, <1>3 DEF PGexec

LEMMA PgResultStep ==
    ASSUME HandlesAssumption, HoldInv, NEW n, PG_result(n), calls < MaxCalls, calls' = calls + 1, ~over, over' = over
    PROVE  HoldInv' /\ ("closed connection" \in Avoided => UsesOnlyOpen)
<1> DEFINE O == MsqlObjects(msql) \cup FpObjects
<1>1. /\ PgPart(PgWorking, O) /\ PgSince(PgWorking) /\ UsedOpen(PgWorking)
      /\ next \in Nat /\ next \in Object /\ PgWorking.next = next /\ PgWorking.p = pg
      /\ \A e \in pg.results : e.obj \in Object /\ freed[e.obj] = 0 /\ conn[e.obj] \in Object
  BY PgStart
<1>2. CASE pg_get_result(pg, n) = {} /\ PgBecomes(PgWorking)
  <2>0. PgWorking.next <= next + 2 BY <1>1
  <2>1. HoldInv' BY <1>1, <1>2, <2>0, PgCallKeeps
  <2> QED BY <1>1, <1>2, <2>1 DEF PgBecomes, UsedOpen, UsesOnlyOpen
<1>3. ASSUME NEW o \in pg_get_result(pg, n),
             "closed connection" \in Avoided => (freed[conn[o]] = 0 \/ pg_get_result(pg, pg.types) # {}),
             NEW w \in pg_type([PgWorking EXCEPT !.used = {o}], conn[o]), PgBecomes(w)
      PROVE  HoldInv' /\ ("closed connection" \in Avoided => UsesOnlyOpen)
  <2> DEFINE u == [PgWorking EXCEPT !.used = {o}]
  <2>1. o \in Object /\ freed[o] = 0 /\ conn[o] \in Object BY <1>1 DEF pg_get_result, Objects, Named
  <2>2. PgWorking \in PgWork BY <1>1 DEF PgPart
  <2>3. /\ u \in PgWork /\ u.p = PgWorking.p /\ u.next = PgWorking.next /\ u.given = PgWorking.given
        /\ u.conn = PgWorking.conn /\ u.freed = PgWorking.freed /\ u.used = {o}
    BY <2>1, <2>2 DEF PgWork
  <2>4. w \in pg_type(u, conn[o]) BY <1>3
  <2> HIDE DEF u, O
  <2>5. PgPart(u, O) /\ PgSince(u) /\ u.next \in Object /\ UsedOpen(u) BY <1>1, <2>1, <2>3, PgSame DEF UsedOpen
  <2>6. /\ PgPart(w, O) /\ PgSince(w) /\ w.next <= u.next + 1
        /\ (freed[conn[o]] = 0 \/ pg_get_result(u.p, u.p.types) # {}) => UsedOpen(w)
    BY <2>1, <2>4, <2>5, PgTypeKeeps
  <2>7. w.next \in Nat BY <2>6 DEF PgPart, PgWork
  <2>8. w.next <= next + 2 BY <1>1, <2>3, <2>6, <2>7
  <2>9. HoldInv' BY <1>3, <2>6, <2>8, PgCallKeeps DEF O
  <2>10. "closed connection" \in Avoided => UsedOpen(w) BY <1>1, <1>3, <2>3, <2>6
  <2> QED BY <1>3, <2>9, <2>10 DEF PgBecomes, UsedOpen, UsesOnlyOpen
<1> QED BY <1>2, <1>3 DEF PG_result

LEMMA OtherPgStep ==
    ASSUME HandlesAssumption, HoldInv, calls < MaxCalls, calls' = calls + 1, ~over, over' = over,
           \/ \E n : pg_del_result(n) \/ PGclose(n)
           \/ \E c \in Objects(pg.conns) : ServerLeaves(c)
    PROVE  HoldInv' /\ UsesOnlyOpen
<1> DEFINE O == MsqlObjects(msql) \cup FpObjects
<1>1. /\ PgPart(PgWorking, O) /\ PgSince(PgWorking) /\ UsedOpen(PgWorking)
      /\ next \in Nat /\ next \in Object /\ PgWorking.next = next /\ PgWorking.p = pg /\ PgWorking.freed = freed
      /\ \A e \in pg.conns : e.obj \in Object /\ freed[e.obj] = 0
  BY PgStart
<1>2. PgWorking \in PgWork /\ PgWorking.used = {} BY <1>1 DEF PgPart, PgWorking
<1>3. SUFFICES \E w : PgPart(w, O) /\ PgSince(w) /\ w.next = next /\ w.used = {} /\ PgBecomes(w)
  <2>1. PICK w : PgPart(w, O) /\ PgSince(w) /\ w.next = next /\ w.used = {} /\ PgBecomes(w) BY <1>3
  <2>2. w.next <= next + 2 BY <1>1, <2>1
  <2>3. HoldInv' BY <2>1, <2>2, PgCallKeeps
  <2> QED BY <2>1, <2>3 DEF PgBecomes, UsesOnlyOpen
<1>4. ASSUME NEW n, pg_del_result(n)
      PROVE  \E w : PgPart(w, O) /\ PgSince(w) /\ w.next = next /\ w.used = {} /\ PgBecomes(w)
  <2> DEFINE nodes == IF n = 1 THEN {} ELSE Named(pg.results, n)
             w == [PgWorking EXCEPT !.freed = Frees(@, pg_get_result(pg, n)),
                                    !.p.results = IF n = 1 THEN @ ELSE @ \ Named(@, n)]
             q == [pg EXCEPT !.results = @ \ nodes]
  <2>1. PgBecomes(w) BY <1>4 DEF pg_del_result
  <2>2. pg_get_result(pg, n) = Objects(nodes) /\ nodes \subseteq pg.results BY DEF pg_get_result, Objects, Named
  <2>3. pg \in PgState /\ pg.results \in SUBSET Node /\ freed \in [Object -> Nat] BY <1>1, <1>2 DEF PgWork, PgState
  <2>4. q.results = pg.results \ nodes /\ q \in PgState /\ q.conns = pg.conns /\ q.ind = pg.ind /\ q.cind = pg.cind
    <3>1. pg.results \ nodes \in SUBSET Node BY <2>3
    <3> HIDE DEF nodes
    <3> QED BY <2>3, <3>1 DEF PgState
  <2>5. [pg EXCEPT !.results = IF n = 1 THEN @ ELSE @ \ Named(@, n)] = q BY <2>3 DEF PgState
  <2>6. w.p = q /\ w.freed = Frees(freed, Objects(nodes)) BY <1>1, <1>2, <2>2, <2>5 DEF PgWork
  <2>7. /\ w.next = next /\ w.given = PgWorking.given /\ w.conn = PgWorking.conn /\ w.used = {}
        /\ w = [[PgWorking EXCEPT !.freed = w.freed] EXCEPT !.p = w.p]
    BY <1>1, <1>2 DEF PgWork
  <2> HIDE DEF w, q, nodes, O
  <2>8. Frees(freed, Objects(nodes)) \in [Object -> Nat] BY <2>3, FreesType
  <2>9. w \in PgWork BY <1>2, <2>4, <2>6, <2>7, <2>8 DEF PgWork
  <2>10. Objects(pg.conns \ w.p.conns) \cup Objects(pg.results \ w.p.results) = Objects(nodes)
    <3>1. pg.results \ w.p.results = nodes /\ pg.conns \ w.p.conns = {} BY <2>2, <2>4, <2>6
    <3> QED BY <3>1 DEF Objects
  <2>11. PgPart(w, O) /\ PgSince(w)
    <3>1. w.p.conns \subseteq pg.conns /\ w.p.results \subseteq pg.results BY <2>4, <2>6
    <3>2. w.p.ind = PgWorking.p.ind /\ w.p.cind = PgWorking.p.cind BY <1>1, <2>4, <2>6
    <3> QED BY <1>1, <2>6, <2>7, <2>9, <2>10, <3>1, <3>2, PgGivesBack
  <2> QED BY <2>1, <2>7, <2>11
<1>5. ASSUME NEW n, PGclose(n)
      PROVE  \E w : PgPart(w, O) /\ PgSince(w) /\ w.next = next /\ w.used = {} /\ PgBecomes(w)
  <2>1. PICK c : PgBecomes(pg_del_conn(PgWorking, c)) BY <1>5 DEF PGclose
  <2> DEFINE w == pg_del_conn(PgWorking, c)
  <2>2. PgPart(w, O) /\ PgSince(w) /\ w.next = next /\ w.used = {} BY <1>1, <1>2, PgDelConnKeeps
  <2> HIDE DEF w
  <2> QED BY <2>1, <2>2 DEF w
<1>6. ASSUME NEW c \in Objects(pg.conns), ServerLeaves(c)
      PROVE  \E w : PgPart(w, O) /\ PgSince(w) /\ w.next = next /\ w.used = {} /\ PgBecomes(w)
  <2> DEFINE w == [PgWorking EXCEPT !.broken = @ \cup {c}]
  <2>1. c \in Object BY <1>1 DEF Objects
  <2>2. /\ w \in PgWork /\ w.p = PgWorking.p /\ w.next = PgWorking.next /\ w.given = PgWorking.given
        /\ w.conn = PgWorking.conn /\ w.freed = PgWorking.freed /\ w.used = {}
    BY <1>2, <2>1 DEF PgWork
  <2>3. PgBecomes(w) BY <1>6 DEF ServerLeaves, PgBecomes, PgWorking
  <2> HIDE DEF w, O
  <2>4. PgPart(w, O) /\ PgSince(w) BY <1>1, <2>2, PgSame
  <2> QED BY <1>1, <2>2, <2>3, <2>4
<1> QED BY <1>4, <1>5, <1>6

-----------------------------------------------------------------------------
(* What a call on a file leaves.                                           *)
LEMMA FileCallKeeps ==
    ASSUME HandlesAssumption, HoldInv, UNCHANGED <<env, msql, pg, broken, conn, given>>,
           fp' \in Seq(Node), Len(fp') <= Len(fp) + 1, next' \in {next, next + 1}, freed' \in [Object -> Nat],
           Once(next', freed'), KeptFp(fp', MsqlObjects(msql) \cup PgObjects(pg), next', freed'),
           Covered(MsqlObjects(msql) \cup PgObjects(pg) \cup FpObjects', next', freed'),
           \A o \in MsqlObjects(msql) \cup PgObjects(pg) : freed'[o] = freed[o], used' \subseteq Object,
           calls < MaxCalls, calls' = calls + 1, ~over, over' = over
    PROVE  HoldInv'
<1>1. next \in Nat /\ calls \in Nat /\ Len(fp) \in Nat /\ Len(fp') \in Nat BY DEF HoldInv, TypeOK
<1>2. next' \in 1 .. 2 * MaxCalls + 1
  BY <1>1 DEF HoldInv, Bounded, HandlesAssumption, TypeOK
<1>3. TypeOK'
  <2>1. calls' \in 0 .. MaxCalls BY <1>1 DEF HandlesAssumption
  <2> QED BY <1>2, <2>1 DEF HoldInv, TypeOK
<1>4. Bounded' BY <1>1 DEF HoldInv, Bounded
<1>5. ASSUME NEW o \in FpObjects' PROVE o \in Object /\ o < next' /\ freed'[o] = 0 /\ o \notin MsqlObjects(msql) \cup PgObjects(pg)
  <2>1. PICK i \in DOMAIN fp' : o = fp'[i].obj BY DEF FpObjects
  <2>2. fp'[i] \in Node BY <2>1
  <2> QED BY <2>1, <2>2 DEF KeptFp, Node
<1>6. /\ Working.m = msql /\ Working.next = next /\ Working.given = given /\ Working.freed = freed
      /\ PgWorking.p = pg /\ PgWorking.next = next /\ PgWorking.given = given /\ PgWorking.freed = freed
      /\ PgWorking.conn = conn
  BY DEF Working, PgWorking
<1>7. MsqlPart(Working, PgObjects(pg) \cup FpObjects) /\ PgPart(PgWorking, MsqlObjects(msql) \cup FpObjects)
  BY DEF HoldInv, MsqlHeld, PgHeld
<1>8. ASSUME NEW o \in MsqlObjects(msql) \cup PgObjects(pg) PROVE o \in Object /\ o < next' /\ freed'[o] = 0
  <2>1. o \in Object /\ o < next /\ freed[o] = 0
    <3>1. CASE o \in MsqlObjects(msql) BY <1>6, <1>7, <3>1 DEF PgPart, KeptOthers
    <3>2. CASE o \in PgObjects(pg) BY <1>6, <1>7, <3>2 DEF MsqlPart, KeptOthers
    <3> QED BY <3>1, <3>2
  <2>2. o \in Int BY <2>1 DEF Object
  <2> QED BY <1>1, <2>1, <2>2
<1>9. ASSUME NEW o \in MsqlObjects(msql) PROVE o \notin PgObjects(pg)
  <2>1. msql.results \in SUBSET Node BY DEF HoldInv, TypeOK
  <2> QED BY <1>6, <1>7, <2>1 DEF MsqlPart, KeptMsql, KeptList, MsqlObjects, Objects
<1>10. OneMeaning(given) BY <1>6, <1>7 DEF MsqlPart
<1>11. MsqlHeld'
  <2> DEFINE v == Working'
             P == PgObjects(pg) \cup FpObjects'
  <2>1. v \in MsqlWork /\ v.m = msql /\ v.next = next' /\ v.freed = freed' /\ v.given = given
    BY <1>2 DEF HoldInv, TypeOK, Working, MsqlWork, MsqlState, Given
  <2>2. Working.next <= v.next BY <1>1, <1>6, <2>1
  <2>3. KeptOthers(P, v.next, v.freed) BY <1>5, <1>8, <2>1 DEF KeptOthers
  <2>4. Covered(MsqlObjects(v.m) \cup P, v.next, v.freed) BY <2>1 DEF Covered
  <2>5. \A o \in MsqlObjects(Working.m) : v.freed[o] = 0 /\ o \notin P BY <1>5, <1>6, <1>8, <1>9, <2>1
  <2>6. OneMeaning(v.given) /\ Once(v.next, v.freed) BY <1>10, <2>1
  <2> HIDE DEF v, P
  <2>7. MsqlPart(v, P) BY <1>6, <1>7, <2>1, <2>2, <2>3, <2>4, <2>5, <2>6, MsqlBeside
  <2> QED BY <2>7 DEF MsqlHeld, v, P
<1>12. PgHeld'
  <2> DEFINE v == PgWorking'
             P == MsqlObjects(msql) \cup FpObjects'
  <2>1. v \in PgWork /\ v.p = pg /\ v.next = next' /\ v.freed = freed' /\ v.given = given /\ v.conn = conn
    BY <1>2 DEF HoldInv, TypeOK, PgWorking, PgWork, PgState, Given
  <2>2. PgWorking.next <= v.next BY <1>1, <1>6, <2>1
  <2>3. KeptOthers(P, v.next, v.freed) BY <1>5, <1>8, <2>1 DEF KeptOthers
  <2>4. Covered(PgObjects(v.p) \cup P, v.next, v.freed) BY <2>1 DEF Covered
  <2>5. \A o \in PgObjects(PgWorking.p) : v.freed[o] = 0 /\ o \notin P BY <1>5, <1>6, <1>8, <1>9, <2>1
  <2>6. OneMeaning(v.given) /\ Once(v.next, v.freed) BY <1>10, <2>1
  <2> HIDE DEF v, P
  <2>7. PgPart(v, P) BY <1>6, <1>7, <2>1, <2>2, <2>3, <2>4, <2>5, <2>6, PgBeside
  <2> QED BY <2>7 DEF PgHeld, v, P
<1>13. FpHeld' BY DEF FpHeld
<1>14. AtRest' BY DEF AtRest
<1> QED BY <1>3, <1>4, <1>11, <1>12, <1>13, <1>14 DEF HoldInv

(* A page has fewer files than calls: one of the numbers is free.           *)
LEMMA LowestIsFree ==
    ASSUME HandlesAssumption, fp \in Seq(Node), Len(fp) <= calls, calls \in Nat, calls < MaxCalls
    PROVE  Lowest \in 1 .. MaxCalls + 1 /\ Lowest \notin OpenFds
<1> DEFINE D == 1 .. Len(fp)
           N == 1 .. MaxCalls + 1
           f == [i \in D |-> fp[i].ind]
<1>1. Len(fp) \in Nat /\ MaxCalls \in Nat BY DEF HandlesAssumption
<1>2. IsFiniteSet(D) /\ Cardinality(D) = Len(fp)
  <2>1. 1 \in Int /\ Len(fp) \in Int BY <1>1
  <2>2. IsFiniteSet(D) /\ Cardinality(D) = IF 1 > Len(fp) THEN 0 ELSE Len(fp) - 1 + 1 BY <2>1, FS_Interval, Zenon
  <2> HIDE DEF D
  <2> QED BY <1>1, <2>2
<1>3. IsFiniteSet(N) /\ Cardinality(N) = MaxCalls + 1
  <2> DEFINE m == MaxCalls + 1
  <2>1. 1 \in Int /\ m \in Int BY <1>1
  <2> HIDE DEF m
  <2>2. IsFiniteSet(1 .. m) /\ Cardinality(1 .. m) = IF 1 > m THEN 0 ELSE m - 1 + 1 BY <2>1, FS_Interval, Zenon
  <2>3. N = 1 .. m BY DEF m
  <2>4. m = MaxCalls + 1 BY DEF m
  <2> HIDE DEF N
  <2> QED BY <1>1, <2>2, <2>3, <2>4
<1>4. f \in Surjection(D, OpenFds)
  <2>1. DOMAIN fp = D BY <1>1
  <2>2. OpenFds = {fp[i].ind : i \in D} BY <2>1 DEF OpenFds
  <2> HIDE DEF D
  <2> QED BY <2>2 DEF Surjection
<1>5. IsFiniteSet(OpenFds) /\ Cardinality(OpenFds) <= Len(fp)
  <2> HIDE DEF f, D
  <2> QED BY <1>2, <1>4, FS_Surjection
<1>6. {n \in N : n \notin OpenFds} # {}
  <2> HIDE DEF N
  <2>1. SUFFICES ASSUME N \in SUBSET OpenFds PROVE FALSE OBVIOUS
  <2>2. Cardinality(N) <= Cardinality(OpenFds) BY <1>5, <2>1, FS_Subset
  <2>3. Cardinality(OpenFds) \in Nat BY <1>5, FS_CardinalityType
  <2> QED BY <1>1, <1>3, <1>5, <2>2, <2>3
<1>7. {n \in N : n \notin OpenFds} \subseteq Nat OBVIOUS
<1>8. Lowest \in {n \in N : n \notin OpenFds}
  <2> DEFINE S == {n \in N : n \notin OpenFds}
  <2>1. S # {} /\ S \subseteq Nat BY <1>6, <1>7
  <2> HIDE DEF S
  <2>2. Min(S) \in S BY <2>1, NatMin
  <2> QED BY <2>2 DEF S, Lowest
<1> QED BY <1>8

LEMMA FpPushStep ==
    ASSUME HandlesAssumption, HoldInv, FpPush, calls < MaxCalls, calls' = calls + 1, ~over, over' = over
    PROVE  HoldInv' /\ UsesOnlyOpen
<1> DEFINE e == [ind |-> Lowest, obj |-> next]
<1>1. /\ fp' = <<e>> \o fp /\ next' = next + 1 /\ used' = {}
      /\ UNCHANGED <<env, msql, pg, broken, conn, freed, given>>
  BY DEF FpPush
<1>2. fp \in Seq(Node) /\ calls \in Nat /\ Len(fp) <= calls BY DEF HoldInv, TypeOK, Bounded
<1>3. next \in Nat /\ next \in Object /\ next + 1 \in Object /\ freed[next] = 0 BY PgStart
<1>4. e \in Node BY <1>2, <1>3, LowestIsFree DEF Node
<1> HIDE DEF e
<1>5. /\ <<e>> \in Seq(Node) /\ Len(<<e>>) = 1 /\ <<e>>[1] = e BY <1>4
<1>6. /\ fp' \in Seq(Node) /\ Len(fp') = Len(fp) + 1 /\ fp'[1] = e
      /\ \A i \in 1 .. Len(fp) + 1 : i # 1 => fp'[i] = fp[i - 1]
  <2>1. /\ <<e>> \o fp \in Seq(Node) /\ Len(<<e>> \o fp) = 1 + Len(fp)
        /\ \A i \in 1 .. 1 + Len(fp) : (<<e>> \o fp)[i] = IF i <= 1 THEN <<e>>[1] ELSE fp[i - 1]
    BY <1>2, <1>5, ConcatProperties
  <2>2. Len(fp) \in Nat BY <1>2
  <2> QED BY <1>1, <1>5, <2>1, <2>2
<1>7. e.obj = next BY DEF e
<1>8. KeptFp(fp, MsqlObjects(msql) \cup PgObjects(pg), next, freed) BY DEF HoldInv, FpHeld
<1>9. ASSUME NEW i \in DOMAIN fp PROVE fp[i] \in Node /\ fp[i].obj \in Int /\ fp[i].obj < next
  <2>1. fp[i] \in Node BY <1>2
  <2>2. fp[i].obj \in Int BY <2>1 DEF Node, Object
  <2> QED BY <1>8, <2>1, <2>2 DEF KeptFp
<1>10. /\ MsqlPart(Working, PgObjects(pg) \cup FpObjects) /\ PgPart(PgWorking, MsqlObjects(msql) \cup FpObjects)
       /\ Working.next = next /\ PgWorking.next = next /\ Working.freed = freed /\ Working.m = msql
  BY DEF HoldInv, MsqlHeld, PgHeld, Working, PgWorking
<1>11. next \notin MsqlObjects(msql) \cup PgObjects(pg)
  <2>1. \A o \in MsqlObjects(msql) \cup PgObjects(pg) : o < next BY <1>10 DEF MsqlPart, PgPart, KeptOthers
  <2> QED BY <1>3, <2>1
<1>12. KeptFp(fp', MsqlObjects(msql) \cup PgObjects(pg), next', freed')
  <2>1. DOMAIN fp' = 1 .. Len(fp) + 1 /\ DOMAIN fp = 1 .. Len(fp) /\ Len(fp) \in Nat BY <1>2, <1>6
  <2>2. ASSUME NEW i \in DOMAIN fp' PROVE i = 1 \/ (i - 1 \in DOMAIN fp /\ fp'[i] = fp[i - 1]) BY <1>6, <2>1
  <2>3. ASSUME NEW i \in DOMAIN fp'
        PROVE  fp'[i].obj < next' /\ freed'[fp'[i].obj] = 0 /\ fp'[i].obj \notin MsqlObjects(msql) \cup PgObjects(pg)
    <3>1. CASE i = 1 BY <1>1, <1>3, <1>6, <1>7, <1>11, <3>1
    <3>2. CASE i - 1 \in DOMAIN fp /\ fp'[i] = fp[i - 1] BY <1>1, <1>3, <1>8, <1>9, <3>2 DEF KeptFp
    <3> QED BY <2>2, <3>1, <3>2
  <2>4. ASSUME NEW i \in DOMAIN fp', NEW j \in DOMAIN fp', fp'[i].obj = fp'[j].obj PROVE i = j
    <3>1. CASE i = 1 /\ j # 1 BY <1>3, <1>6, <1>7, <1>9, <2>2, <2>4, <3>1
    <3>2. CASE j = 1 /\ i # 1 BY <1>3, <1>6, <1>7, <1>9, <2>2, <2>4, <3>2
    <3>3. CASE i # 1 /\ j # 1
      <4>1. i - 1 \in DOMAIN fp /\ j - 1 \in DOMAIN fp /\ fp[i - 1].obj = fp[j - 1].obj BY <2>2, <2>4, <3>3
      <4>2. i - 1 = j - 1 BY <1>8, <4>1 DEF KeptFp
      <4> QED BY <2>1, <4>2
    <3> QED BY <3>1, <3>2, <3>3
  <2> QED BY <2>3, <2>4 DEF KeptFp
<1>13. Once(next', freed')
  <2>1. Once(next, freed) BY <1>10 DEF MsqlPart
  <2> QED BY <1>1, <1>3, <2>1 DEF Once, Object
<1>14. Covered(MsqlObjects(msql) \cup PgObjects(pg) \cup FpObjects', next', freed')
  <2>1. ASSUME NothingLost, NEW o \in 1 .. next' - 1, freed'[o] = 0
        PROVE  o \in MsqlObjects(msql) \cup PgObjects(pg) \cup FpObjects'
    <3>1. CASE o = next
      <4>1. 1 \in DOMAIN fp' /\ fp'[1].obj = next BY <1>2, <1>6, <1>7
      <4> QED BY <3>1, <4>1 DEF FpObjects
    <3>2. CASE o # next
      <4>1. o \in 1 .. next - 1 BY <1>1, <1>3, <3>2
      <4>2. o \in MsqlObjects(msql) \cup PgObjects(pg) \cup FpObjects
        BY <1>1, <1>10, <2>1, <4>1 DEF MsqlPart, Covered
      <4>3. ASSUME NEW i \in DOMAIN fp, o = fp[i].obj PROVE o \in FpObjects'
        <5>1. i + 1 \in DOMAIN fp' /\ fp'[i + 1] = fp[i]
          <6>1. DOMAIN fp = 1 .. Len(fp) /\ DOMAIN fp' = 1 .. Len(fp) + 1 /\ Len(fp) \in Nat BY <1>2, <1>6
          <6>2. i + 1 \in 1 .. Len(fp) + 1 /\ i + 1 # 1 /\ (i + 1) - 1 = i BY <4>3, <6>1
          <6> QED BY <1>6, <6>1, <6>2
        <5> QED BY <4>3, <5>1 DEF FpObjects
      <4> QED BY <4>2, <4>3 DEF FpObjects
    <3> QED BY <3>1, <3>2
  <2> QED BY <2>1 DEF Covered
<1>15. freed' \in [Object -> Nat] BY <1>1 DEF HoldInv, TypeOK
<1>16. Len(fp') <= Len(fp) + 1 BY <1>2, <1>6
<1>17. HoldInv' BY <1>1, <1>6, <1>12, <1>13, <1>14, <1>15, <1>16, FileCallKeeps
<1> QED BY <1>1, <1>17 DEF UsesOnlyOpen

(* An entry is taken out of the table.                                     *)
LEMMA FpDelIs ==
    ASSUME fp \in Seq(Node), NEW i \in DOMAIN fp
    PROVE  /\ FpDel(i) \in Seq(Node) /\ Len(FpDel(i)) = Len(fp) - 1
           /\ \A j \in 1 .. Len(fp) - 1 : FpDel(i)[j] = IF j < i THEN fp[j] ELSE fp[j + 1]
<1> DEFINE a == SubSeq(fp, 1, i - 1)
           b == SubSeq(fp, i + 1, Len(fp))
<1>1. Len(fp) \in Nat /\ i \in 1 .. Len(fp) /\ \A j \in 1 .. Len(fp) : fp[j] \in Node OBVIOUS
<1>2. a \in Seq(Node) /\ Len(a) = i - 1 /\ \A j \in 1 .. i - 1 : a[j] = fp[j]
  <2>1. \A j \in 1 .. i - 1 : fp[j] \in Node BY <1>1
  <2>2. /\ a \in Seq(Node) /\ Len(a) = IF 1 <= i - 1 THEN (i - 1) - 1 + 1 ELSE 0
        /\ \A j \in 1 .. (i - 1) - 1 + 1 : a[j] = fp[1 + j - 1]
    BY <1>1, <2>1, SubSeqProperties
  <2> HIDE DEF a
  <2> QED BY <1>1, <2>2
<1>3. b \in Seq(Node) /\ Len(b) = Len(fp) - i /\ \A j \in 1 .. Len(fp) - i : b[j] = fp[i + j]
  <2>1. \A j \in i + 1 .. Len(fp) : fp[j] \in Node BY <1>1
  <2>2. /\ b \in Seq(Node) /\ Len(b) = IF i + 1 <= Len(fp) THEN Len(fp) - (i + 1) + 1 ELSE 0
        /\ \A j \in 1 .. Len(fp) - (i + 1) + 1 : b[j] = fp[(i + 1) + j - 1]
    BY <1>1, <2>1, SubSeqProperties
  <2> HIDE DEF b
  <2> QED BY <1>1, <2>2
<1> HIDE DEF a, b
<1>4. /\ a \o b \in Seq(Node) /\ Len(a \o b) = Len(a) + Len(b)
      /\ \A j \in 1 .. Len(a) + Len(b) : (a \o b)[j] = IF j <= Len(a) THEN a[j] ELSE b[j - Len(a)]
  BY <1>2, <1>3, ConcatProperties
<1>5. ASSUME NEW j \in 1 .. Len(fp) - 1 PROVE (a \o b)[j] = IF j < i THEN fp[j] ELSE fp[j + 1]
  <2>0. j \in 1 .. Len(a) + Len(b) BY <1>1, <1>2, <1>3
  <2>1. (a \o b)[j] = IF j <= i - 1 THEN a[j] ELSE b[j - (i - 1)] BY <1>2, <1>4, <2>0
  <2>2. CASE j < i BY <1>1, <1>2, <2>1, <2>2
  <2>3. CASE ~(j < i)
    <3>1. j - (i - 1) \in 1 .. Len(fp) - i /\ i + (j - (i - 1)) = j + 1 BY <1>1, <2>3
    <3>2. b[j - (i - 1)] = fp[j + 1] BY <1>3, <3>1
    <3> QED BY <1>1, <2>1, <2>3, <3>2
  <2> QED BY <2>2, <2>3
<1>6. FpDel(i) = a \o b BY DEF FpDel, a, b
<1>7. Len(a) + Len(b) = Len(fp) - 1 BY <1>1, <1>2, <1>3
<1> QED BY <1>4, <1>5, <1>6, <1>7

LEMMA FcloseStep ==
    ASSUME HandlesAssumption, HoldInv, NEW n, Fclose(n), calls < MaxCalls, calls' = calls + 1, ~over, over' = over
    PROVE  HoldInv' /\ UsesOnlyOpen
<1>1. /\ used' = {} /\ next' = next /\ UNCHANGED <<env, msql, pg, broken, conn, given>>
  BY DEF Fclose
<1>2. /\ fp \in Seq(Node) /\ Len(fp) \in Nat /\ DOMAIN fp = 1 .. Len(fp) /\ freed \in [Object -> Nat] /\ next \in Nat
      /\ next \in 1 .. 2 * MaxCalls + 1
  BY DEF HoldInv, TypeOK
<1>3. KeptFp(fp, MsqlObjects(msql) \cup PgObjects(pg), next, freed) BY DEF HoldInv, FpHeld
<1>4. /\ Once(next, freed) /\ Covered(MsqlObjects(msql) \cup PgObjects(pg) \cup FpObjects, next, freed)
  <2>1. MsqlPart(Working, PgObjects(pg) \cup FpObjects) /\ Working.next = next /\ Working.freed = freed /\ Working.m = msql
    BY DEF HoldInv, MsqlHeld, Working
  <2> QED BY <2>1 DEF MsqlPart, Covered
<1>5. CASE FpFind(n) = {}
  <2>1. fp' = fp /\ freed' = freed BY <1>5 DEF Fclose
  <2>2. FpObjects' = FpObjects BY <2>1 DEF FpObjects
  <2>3. Len(fp') <= Len(fp) + 1 BY <1>2, <2>1
  <2>4. HoldInv' BY <1>1, <1>2, <1>3, <1>4, <2>1, <2>2, <2>3, FileCallKeeps
  <2> QED BY <1>1, <2>4 DEF UsesOnlyOpen
<1>6. CASE FpFind(n) # {}
  <2> DEFINE i == Min(FpFind(n))
  <2>1. i \in DOMAIN fp
    <3>1. FpFind(n) \subseteq Nat /\ FpFind(n) \subseteq DOMAIN fp BY <1>2 DEF FpFind
    <3>2. i \in FpFind(n) BY <1>6, <3>1, NatMin
    <3> QED BY <3>1, <3>2
  <2>2. fp' = FpDel(i) /\ freed' = Frees(freed, {fp[i].obj}) BY <1>6 DEF Fclose
  <2> HIDE DEF i
  <2>3. /\ fp' \in Seq(Node) /\ Len(fp') = Len(fp) - 1 /\ DOMAIN fp' = 1 .. Len(fp) - 1
        /\ \A j \in 1 .. Len(fp) - 1 : fp'[j] = IF j < i THEN fp[j] ELSE fp[j + 1]
    <3>1. /\ FpDel(i) \in Seq(Node) /\ Len(FpDel(i)) = Len(fp) - 1
          /\ \A j \in 1 .. Len(fp) - 1 : FpDel(i)[j] = IF j < i THEN fp[j] ELSE fp[j + 1]
      BY <1>2, <2>1, FpDelIs
    <3>2. fp' = FpDel(i) BY <2>2
    <3>3. DOMAIN FpDel(i) = 1 .. Len(FpDel(i)) BY <3>1
    <3> QED BY <3>1, <3>2, <3>3
  <2> DEFINE c == fp[i].obj
  <2>4. c \in Object /\ freed[c] = 0 /\ c < next /\ c \notin MsqlObjects(msql) \cup PgObjects(pg)
    <3>1. fp[i] \in Node BY <1>2, <2>1
    <3> QED BY <1>3, <2>1, <3>1 DEF KeptFp, Node
  <2>5. \A j \in DOMAIN fp : fp[j].obj = c => j = i BY <1>3, <2>1 DEF KeptFp
  <2> HIDE DEF c
  <2>6. /\ freed' \in [Object -> Nat] /\ \A o \in Object : freed'[o] = IF o = c THEN freed[o] + 1 ELSE freed[o]
    <3>1. freed' = Frees(freed, {c}) BY <2>2 DEF c
    <3> QED BY <1>2, <3>1, FreesType
  <2>7. ASSUME NEW j \in DOMAIN fp'
        PROVE  \E k \in DOMAIN fp : k # i /\ fp'[j] = fp[k] /\ k = IF j < i THEN j ELSE j + 1
    BY <1>2, <2>1, <2>3
  <2>8. KeptFp(fp', MsqlObjects(msql) \cup PgObjects(pg), next', freed')
    <3>1. ASSUME NEW j \in DOMAIN fp'
          PROVE  fp'[j].obj < next' /\ freed'[fp'[j].obj] = 0 /\ fp'[j].obj \notin MsqlObjects(msql) \cup PgObjects(pg)
      <4>1. PICK k \in DOMAIN fp : k # i /\ fp'[j] = fp[k] BY <2>7
      <4>11. fp[k] \in Node BY <1>2
      <4>2. fp[k].obj # c /\ fp[k].obj \in Object BY <2>5, <4>1, <4>11 DEF Node
      <4>3. freed'[fp[k].obj] = freed[fp[k].obj] BY <2>6, <4>2
      <4> QED BY <1>1, <1>3, <4>1, <4>3 DEF KeptFp
    <3>2. ASSUME NEW j \in DOMAIN fp', NEW l \in DOMAIN fp', fp'[j].obj = fp'[l].obj PROVE j = l
      <4>1. PICK k \in DOMAIN fp : fp'[j] = fp[k] /\ k = IF j < i THEN j ELSE j + 1 BY <2>7
      <4>2. PICK m \in DOMAIN fp : fp'[l] = fp[m] /\ m = IF l < i THEN l ELSE l + 1 BY <2>7
      <4>3. k = m BY <1>3, <3>2, <4>1, <4>2 DEF KeptFp
      <4> QED BY <1>2, <2>1, <2>3, <4>1, <4>2, <4>3
    <3> QED BY <3>1, <3>2 DEF KeptFp
  <2>9. Once(next', freed')
    <3>1. ASSUME NEW o \in Object PROVE freed'[o] <= 1 /\ (o >= next => freed'[o] = 0)
      <4>1. freed[o] \in Nat /\ freed[o] <= 1 /\ (o >= next => freed[o] = 0) BY <1>2, <1>4 DEF Once
      <4>2. freed'[o] = IF o = c THEN freed[o] + 1 ELSE freed[o] BY <2>6
      <4>3. o \in Int BY DEF Object
      <4> QED BY <1>2, <2>4, <4>1, <4>2, <4>3
    <3> QED BY <1>1, <3>1 DEF Once
  <2>10. Covered(MsqlObjects(msql) \cup PgObjects(pg) \cup FpObjects', next', freed')
    <3>1. ASSUME NothingLost, NEW o \in 1 .. next - 1, freed'[o] = 0
          PROVE  o \in MsqlObjects(msql) \cup PgObjects(pg) \cup FpObjects'
      <4>1. o \in Object BY <1>2 DEF Object, HandlesAssumption
      <4>2. o # c /\ freed[o] = 0
        <5>1. freed[o] \in Nat /\ freed'[o] = IF o = c THEN freed[o] + 1 ELSE freed[o] BY <1>2, <2>6, <4>1
        <5> QED BY <3>1, <5>1
      <4>3. o \in MsqlObjects(msql) \cup PgObjects(pg) \cup FpObjects BY <1>4, <3>1, <4>2 DEF Covered
      <4>4. ASSUME NEW k \in DOMAIN fp, o = fp[k].obj PROVE o \in FpObjects'
        <5>1. k # i BY <4>2, <4>4 DEF c
        <5>2. \E j \in DOMAIN fp' : fp'[j] = fp[k]
          <6>1. CASE k < i
            <7>1. k \in 1 .. Len(fp) - 1 BY <1>2, <2>1, <6>1
            <7> QED BY <2>3, <6>1, <7>1
          <6>2. CASE k > i
            <7>1. k - 1 \in 1 .. Len(fp) - 1 /\ ~(k - 1 < i) /\ (k - 1) + 1 = k BY <1>2, <2>1, <6>2
            <7>2. fp'[k - 1] = fp[k] BY <2>3, <7>1
            <7> QED BY <2>3, <7>1, <7>2
          <6> QED BY <1>2, <2>1, <5>1, <6>1, <6>2
        <5> QED BY <4>4, <5>2 DEF FpObjects
      <4> QED BY <4>3, <4>4 DEF FpObjects
    <3> QED BY <1>1, <3>1 DEF Covered
  <2>11. \A o \in MsqlObjects(msql) \cup PgObjects(pg) : freed'[o] = freed[o]
    <3>1. \A o \in MsqlObjects(msql) \cup PgObjects(pg) : o \in Object
      <4>1. /\ msql.results \subseteq Node /\ msql.sock \in {none} \cup Object /\ pg.conns \subseteq Node
            /\ pg.results \subseteq Node
        BY DEF HoldInv, TypeOK
      <4> QED BY <4>1 DEF MsqlObjects, PgObjects, Objects, Node
    <3> QED BY <2>4, <2>6, <3>1
  <2>12. Len(fp') <= Len(fp) + 1 BY <1>2, <2>3
  <2>13. HoldInv' BY <1>1, <2>3, <2>6, <2>8, <2>9, <2>10, <2>11, <2>12, FileCallKeeps
  <2> QED BY <1>1, <2>13 DEF UsesOnlyOpen
<1> QED BY <1>5, <1>6

LEMMA FputsStep ==
    ASSUME HandlesAssumption, HoldInv, NEW n, Fputs(n), calls < MaxCalls, calls' = calls + 1, ~over, over' = over
    PROVE  HoldInv' /\ UsesOnlyOpen
<1>1. UNCHANGED <<env, msql, pg, fp, broken, conn, next, freed, given>> BY DEF Fputs
<1>2. /\ fp \in Seq(Node) /\ Len(fp) \in Nat /\ DOMAIN fp = 1 .. Len(fp) /\ freed \in [Object -> Nat]
  BY DEF HoldInv, TypeOK
<1>3. KeptFp(fp, MsqlObjects(msql) \cup PgObjects(pg), next, freed) BY DEF HoldInv, FpHeld
<1>4. /\ Once(next, freed) /\ Covered(MsqlObjects(msql) \cup PgObjects(pg) \cup FpObjects, next, freed)
  <2>1. MsqlPart(Working, PgObjects(pg) \cup FpObjects) /\ Working.next = next /\ Working.freed = freed /\ Working.m = msql
    BY DEF HoldInv, MsqlHeld, Working
  <2> QED BY <2>1 DEF MsqlPart, Covered
<1>5. ASSUME NEW o \in used' PROVE o \in Object /\ freed[o] = 0
  <2>1. FpFind(n) \subseteq Nat /\ FpFind(n) \subseteq DOMAIN fp BY <1>2 DEF FpFind
  <2>2. FpFind(n) # {} => Min(FpFind(n)) \in DOMAIN fp BY <2>1, NatMin
  <2>3. PICK i \in DOMAIN fp : o = fp[i].obj BY <2>2 DEF Fputs
  <2>4. fp[i] \in Node BY <1>2, <2>3
  <2> QED BY <1>3, <2>3, <2>4 DEF KeptFp, Node
<1>6. FpObjects' = FpObjects BY <1>1 DEF FpObjects
<1>7. Len(fp') <= Len(fp) + 1 BY <1>1, <1>2
<1>8. used' \subseteq Object BY <1>5
<1>9. HoldInv' BY <1>1, <1>2, <1>3, <1>4, <1>6, <1>7, <1>8, FileCallKeeps
<1> QED BY <1>5, <1>9 DEF UsesOnlyOpen

-----------------------------------------------------------------------------
(* The end: everything but the files is given back, each object by the list *)
(* that has it.                                                             *)
LEMMA ExitStep ==
    ASSUME HandlesAssumption, HoldInv, Exit
    PROVE  HoldInv' /\ UsesOnlyOpen /\ Thought(msql')
<1> DEFINE w == MsqlClose(Working)
           u == [PgWorking EXCEPT !.freed = w.freed]
           v == PGcloseAll(u)
<1>1. /\ msql' = w.m /\ pg' = v.p /\ freed' = v.freed /\ used' = {} /\ over' = TRUE
      /\ UNCHANGED <<env, fp, broken, conn, next, given, calls>>
  BY DEF Exit
<1>2. /\ Working.m = msql /\ Working.next = next /\ Working.given = given /\ Working.freed = freed
      /\ PgWorking.p = pg /\ PgWorking.next = next /\ PgWorking.given = given /\ PgWorking.freed = freed
      /\ PgWorking.conn = conn /\ PgWorking.used = {}
  BY DEF Working, PgWorking
<1>3. /\ MsqlPart(Working, PgObjects(pg) \cup FpObjects) /\ PgPart(PgWorking, MsqlObjects(msql) \cup FpObjects)
      /\ KeptFp(fp, MsqlObjects(msql) \cup PgObjects(pg), next, freed) /\ TypeOK /\ Bounded
  BY DEF HoldInv, MsqlHeld, PgHeld, FpHeld
<1>4. /\ MsqlPart(w, PgObjects(pg) \cup FpObjects) /\ Thought(w.m) /\ w.m.sock = none /\ w.m.results = {}
      /\ w.next = next /\ w.given = given
  <2>1. w.m.results = {} BY <1>3 DEF MsqlClose, MsqlPart, MsqlWork, MsqlState
  <2> QED BY <1>2, <1>3, <2>1, MsqlCloseKeeps
<1>5. PgWorking \in PgWork /\ w \in MsqlWork /\ next \in Int /\ next \in Nat BY <1>3, <1>4 DEF PgPart, MsqlPart, TypeOK
<1>6. /\ u \in PgWork /\ u.p = pg /\ u.next = next /\ u.given = given /\ u.conn = conn /\ u.freed = w.freed
      /\ u.used = {} /\ u.broken = PgWorking.broken
  BY <1>2, <1>5 DEF PgWork, MsqlWork
<1>7. MsqlObjects(w.m) = {} BY <1>4 DEF MsqlObjects, Objects
<1>8. pg.conns \in SUBSET Node /\ pg.results \in SUBSET Node BY <1>3 DEF TypeOK
<1> HIDE DEF w, u
<1>9. PgPart(u, FpObjects)
  <2>1. OneMeaning(u.given) /\ Once(u.next, u.freed) BY <1>4, <1>6 DEF MsqlPart
  <2>2. KeptOthers(FpObjects, u.next, u.freed) BY <1>4, <1>6 DEF MsqlPart, KeptOthers
  <2>3. Covered(PgObjects(u.p) \cup FpObjects, u.next, u.freed) BY <1>4, <1>6, <1>7 DEF MsqlPart, Covered
  <2>4. ASSUME NEW o \in PgObjects(PgWorking.p) PROVE u.freed[o] = 0 /\ o \notin FpObjects
    <3>1. w.freed[o] = 0 BY <1>2, <1>4 DEF MsqlPart, KeptOthers
    <3>2. o \notin FpObjects BY <1>2, <1>3 DEF PgPart, KeptPg, KeptList, PgObjects, Objects
    <3> QED BY <1>6, <3>1, <3>2
  <2>5. PgWorking.next <= u.next /\ PgWorking.given = u.given /\ u.p = PgWorking.p /\ u.conn = PgWorking.conn
    BY <1>2, <1>5, <1>6
  <2> QED BY <1>3, <1>6, <2>1, <2>2, <2>3, <2>4, <2>5, PgBeside
<1>10. PgSince(u) BY <1>5, <1>6 DEF PgSince
<1>11. /\ v.p = [pg EXCEPT !.results = {}, !.conns = {}]
       /\ v.freed = Frees(Frees(u.freed, Objects(pg.results)), Objects(pg.conns))
       /\ v.next = next /\ v.given = given /\ v.conn = conn /\ v.used = {} /\ v.broken = u.broken /\ v.ok = u.ok
  BY <1>6 DEF PGcloseAll, PgWork, PgState
<1>12. /\ v.p \in PgState /\ v.p.results = {} /\ v.p.conns = {} /\ v.p.ind = pg.ind /\ v.p.cind = pg.cind
  <2>1. pg \in PgState BY <1>6 DEF PgWork
  <2> QED BY <1>11, <2>1 DEF PgState
<1>13. u.freed \in [Object -> Nat] BY <1>6 DEF PgWork
<1>14. v.freed = Frees(u.freed, Objects(pg.conns) \cup Objects(pg.results)) /\ v.freed \in [Object -> Nat]
  <2> DEFINE C == Objects(pg.conns)
             R == Objects(pg.results)
             f == Frees(u.freed, R)
  <2>1. \A o \in C : o \notin R BY <1>2, <1>3 DEF PgPart, KeptPg, KeptList, Objects
  <2> HIDE DEF C, R
  <2>2. f \in [Object -> Nat] /\ \A o \in Object : f[o] = IF o \in R THEN u.freed[o] + 1 ELSE u.freed[o]
    BY <1>13, FreesType
  <2> HIDE DEF f
  <2>3. Frees(f, C) \in [Object -> Nat] /\ \A o \in Object : Frees(f, C)[o] = IF o \in C THEN f[o] + 1 ELSE f[o]
    BY <2>2, FreesType
  <2>4. /\ Frees(u.freed, C \cup R) \in [Object -> Nat]
        /\ \A o \in Object : Frees(u.freed, C \cup R)[o] = IF o \in C \cup R THEN u.freed[o] + 1 ELSE u.freed[o]
    BY <1>13, FreesType
  <2>5. \A o \in Object : Frees(f, C)[o] = Frees(u.freed, C \cup R)[o] BY <2>1, <2>2, <2>3, <2>4
  <2>6. Frees(f, C) = Frees(u.freed, C \cup R)
    <3> DEFINE a == Frees(f, C)
               b == Frees(u.freed, C \cup R)
    <3>1. a \in [Object -> Nat] /\ b \in [Object -> Nat] /\ \A o \in Object : a[o] = b[o] BY <2>3, <2>4, <2>5
    <3> HIDE DEF a, b
    <3>2. a = b BY <3>1
    <3> QED BY <3>2 DEF a, b
  <2> QED BY <1>11, <2>3, <2>6 DEF C, R, f
<1>15. v \in PgWork
  <2>1. v = [[u EXCEPT !.freed = v.freed] EXCEPT !.p = v.p] BY <1>6 DEF PGcloseAll, PgWork, PgState
  <2> HIDE DEF v
  <2> QED BY <1>6, <1>12, <1>14, <2>1 DEF PgWork
<1> HIDE DEF v
<1>16. PgPart(v, FpObjects)
  <2>1. u.p.conns \ v.p.conns = pg.conns /\ u.p.results \ v.p.results = pg.results BY <1>6, <1>12
  <2>2. v.p.conns \subseteq u.p.conns /\ v.p.results \subseteq u.p.results BY <1>12
  <2>3. v.p.ind = u.p.ind /\ v.p.cind = u.p.cind /\ v.next = u.next /\ v.given = u.given /\ v.conn = u.conn
    BY <1>6, <1>11, <1>12
  <2> QED BY <1>9, <1>10, <1>14, <1>15, <2>1, <2>2, <2>3, PgGivesBack
<1>17. PgObjects(v.p) = {} BY <1>12 DEF PgObjects, Objects
<1>18. FpObjects' = FpObjects BY <1>1 DEF FpObjects
<1>19. TypeOK'
  <2>1. msql' \in MsqlState /\ pg' \in PgState /\ freed' \in [Object -> Nat]
    BY <1>1, <1>5, <1>12, <1>14 DEF MsqlWork
  <2> QED BY <1>1, <1>3, <2>1 DEF TypeOK, MsqlState, PgState
<1>20. Bounded' BY <1>1, <1>3 DEF Bounded
<1>21. PgHeld'
  <2>1. /\ PgWorking' \in PgWork /\ PgWorking'.p = v.p /\ PgWorking'.next = v.next /\ PgWorking'.freed = v.freed
        /\ PgWorking'.given = v.given /\ PgWorking'.conn = v.conn
    BY <1>1, <1>2, <1>5, <1>11, <1>15 DEF PgWorking, PgWork
  <2>2. PgPart(PgWorking', FpObjects) BY <1>16, <2>1 DEF PgPart
  <2>3. MsqlObjects(msql') \cup FpObjects' = FpObjects BY <1>1, <1>7, <1>18
  <2> QED BY <2>2, <2>3 DEF PgHeld
<1>22. MsqlHeld'
  <2> DEFINE x == Working'
  <2>1. x \in MsqlWork /\ x.m = w.m /\ x.next = next /\ x.freed = v.freed /\ x.given = given
    BY <1>1, <1>3, <1>5, <1>14 DEF Working, MsqlWork, TypeOK, Given
  <2> HIDE DEF x
  <2>2. OneMeaning(x.given) /\ Once(x.next, x.freed) BY <1>11, <1>16, <2>1 DEF PgPart
  <2>3. KeptOthers(FpObjects, x.next, x.freed) BY <1>11, <1>16, <2>1 DEF PgPart, KeptOthers
  <2>4. Covered(MsqlObjects(x.m) \cup FpObjects, x.next, x.freed)
    BY <1>7, <1>11, <1>16, <1>17, <2>1 DEF PgPart, Covered
  <2>5. \A o \in MsqlObjects(w.m) : x.freed[o] = 0 /\ o \notin FpObjects BY <1>7
  <2>6. w.next <= x.next /\ w.given = x.given BY <1>4, <1>5, <2>1
  <2>7. MsqlPart(x, FpObjects) BY <1>4, <2>1, <2>2, <2>3, <2>4, <2>5, <2>6, MsqlBeside
  <2>8. PgObjects(pg') \cup FpObjects' = FpObjects BY <1>1, <1>17, <1>18
  <2> QED BY <2>7, <2>8 DEF MsqlHeld, x
<1>23. FpHeld'
  <2>1. \A i \in DOMAIN fp : fp[i].obj \in FpObjects BY DEF FpObjects
  <2>2. MsqlObjects(msql') \cup PgObjects(pg') = {} BY <1>1, <1>7, <1>17
  <2>3. \A i \in DOMAIN fp : fp[i].obj < next /\ v.freed[fp[i].obj] = 0 BY <1>11, <1>16, <2>1 DEF PgPart, KeptOthers
  <2>4. \A i, j \in DOMAIN fp : fp[i].obj = fp[j].obj => i = j BY <1>3 DEF KeptFp
  <2> HIDE DEF FpObjects
  <2>5. KeptFp(fp, {}, next, v.freed) BY <2>3, <2>4 DEF KeptFp
  <2> QED BY <1>1, <2>2, <2>5 DEF FpHeld
<1>24. AtRest' BY <1>1, <1>4, <1>12 DEF AtRest
<1> QED BY <1>1, <1>4, <1>19, <1>20, <1>21, <1>22, <1>23, <1>24 DEF HoldInv, UsesOnlyOpen

-----------------------------------------------------------------------------
LEMMA HoldInit == ASSUME HandlesAssumption, Init PROVE HoldInv /\ Thought(msql)
<1>1. TypeOK
  <2>1. MaxCalls \in Nat /\ none \in {none} \cup Object /\ 1 \in 1 .. 2 * MaxCalls + 1 /\ 0 \in 0 .. MaxCalls
    BY DEF HandlesAssumption
  <2>2. msql \in [sock : {none} \cup Object, db : Database \cup {"none"}, selected : Database \cup {"none"},
                  port : Port \cup {"none"}, results : SUBSET Node, ind : Nat]
    BY <2>1 DEF Init
  <2>3. pg \in [conns : SUBSET Node, results : SUBSET Node, cind : Nat, ind : Nat, types : Nat] BY DEF Init
  <2>4. conn \in [Object -> {none} \cup Object] /\ freed \in [Object -> Nat] BY <2>1 DEF Init
  <2>5. /\ env \in Port \cup {"none"} /\ broken \subseteq Object /\ used \subseteq Object
        /\ given \subseteq {"msql", "pg", "pgconn"} \X Nat \X Object
    BY DEF Init
  <2>51. fp \in Seq(Node) BY DEF Init
  <2>52. over \in BOOLEAN BY DEF Init
  <2>6. next \in 1 .. 2 * MaxCalls + 1 /\ calls \in 0 .. MaxCalls BY <2>1 DEF Init
  <2> QED BY <2>2, <2>3, <2>4, <2>5, <2>51, <2>52, <2>6 DEF TypeOK
<1>2. Len(fp) = 0 /\ FpObjects = {} /\ DOMAIN fp = {} BY DEF Init, FpObjects
<1>3. Bounded BY <1>2 DEF Init, Bounded
<1>4. MsqlObjects(msql) = {} /\ PgObjects(pg) = {} BY DEF Init, MsqlObjects, PgObjects, Objects
<1>5. /\ next = 1 /\ given = {} /\ Once(next, freed) /\ KeptOthers({}, next, freed) /\ Covered({}, next, freed)
      /\ OneMeaning(given)
  BY DEF Init, Once, KeptOthers, Covered, OneMeaning
<1>6. MsqlHeld
  <2>1. Working \in MsqlWork BY <1>1 DEF TypeOK, Working, MsqlWork, MsqlState, Given
  <2>2. Working.m = msql /\ Working.next = next /\ Working.freed = freed /\ Working.given = given BY DEF Working
  <2>3. KeptMsql(msql, {}, next, freed) /\ Counted("msql", msql.results, msql.ind, given)
    BY DEF Init, KeptMsql, KeptList, Counted
  <2>4. msql.db = "none" BY DEF Init
  <2>5. MsqlPart(Working, {}) BY <1>4, <1>5, <2>1, <2>2, <2>3, <2>4 DEF MsqlPart
  <2> QED BY <1>2, <1>4, <2>5 DEF MsqlHeld
<1>7. PgHeld
  <2>1. PgWorking \in PgWork BY <1>1 DEF TypeOK, PgWorking, PgWork, PgState, Given
  <2>2. PgWorking.p = pg /\ PgWorking.next = next /\ PgWorking.freed = freed /\ PgWorking.given = given BY DEF PgWorking
  <2>3. /\ pg.results = {} /\ KeptPg(pg, {}, next, freed) /\ Counted("pg", pg.results, pg.ind, given)
        /\ Counted("pgconn", pg.conns, pg.cind, given)
    BY DEF Init, KeptPg, KeptList, Counted
  <2>4. PgPart(PgWorking, {}) BY <1>4, <1>5, <2>1, <2>2, <2>3 DEF PgPart
  <2> QED BY <1>2, <1>4, <2>4 DEF PgHeld
<1>8. FpHeld BY <1>2 DEF FpHeld, KeptFp
<1>9. AtRest BY DEF Init, AtRest
<1> QED BY <1>1, <1>3, <1>6, <1>7, <1>8, <1>9 DEF HoldInv, Thought, Init

(* Every step of a page.                                                   *)
LEMMA HoldNext ==
    ASSUME HandlesAssumption, HoldInv, Next
    PROVE  /\ HoldInv' /\ ("closed connection" \in Avoided => UsesOnlyOpen)
           /\ (Thought(msql) /\ "tables listed" \in Avoided => Thought(msql'))
<1>1. CASE Exit BY <1>1, ExitStep
<1>2. CASE Call
  <2>1. calls < MaxCalls /\ calls' = calls + 1 /\ over' = over /\ ~over BY <1>2 DEF Call, Next
  <2>2. CASE MsqlCall
    <3>1. CASE \E db \in Database : Msql(db) BY <2>1, <3>1, MsqlStep
    <3>2. CASE \E db \in Database : MsqlListTables(db) BY <2>1, <3>2, ListTablesStep
    <3>3. CASE \/ MsqlConnect
               \/ \E n \in Numbers("msql") : MsqlFreeResult(n) \/ MsqlResult(n)
               \/ \E port \in Port : PutEnv(port)
      BY <2>1, <3>3, OtherMsqlStep
    <3> QED BY <2>2, <3>1, <3>2, <3>3 DEF MsqlCall
  <2>3. CASE PgCall
    <3>1. HoldInv' /\ ("closed connection" \in Avoided => UsesOnlyOpen)
      <4>1. CASE PGconnect BY <2>1, <4>1, PgConnectStep
      <4>2. CASE \E n : PGexec(n) BY <2>1, <4>2, PgExecStep
      <4>3. CASE \E n : PG_result(n) BY <2>1, <4>3, PgResultStep
      <4>4. CASE \/ \E n : pg_del_result(n) \/ PGclose(n)
                 \/ \E c \in Objects(pg.conns) : ServerLeaves(c)
        BY <2>1, <4>4, OtherPgStep
      <4> QED BY <2>3, <4>1, <4>2, <4>3, <4>4 DEF PgCall
    <3>2. msql' = msql
      BY <2>3 DEF PgCall, PGconnect, PGexec, PG_result, pg_del_result, PGclose, ServerLeaves, PgBecomes
    <3> QED BY <3>1, <3>2
  <2>4. CASE FileCall
    <3>1. HoldInv' /\ UsesOnlyOpen
      <4>1. CASE FpPush BY <2>1, <4>1, FpPushStep
      <4>2. CASE \E n : Fclose(n) BY <2>1, <4>2, FcloseStep
      <4>3. CASE \E n : Fputs(n) BY <2>1, <4>3, FputsStep
      <4> QED BY <2>4, <4>1, <4>2, <4>3 DEF FileCall
    <3>2. msql' = msql BY <2>4 DEF FileCall, FpPush, Fclose, Fputs
    <3> QED BY <3>1, <3>2
  <2> QED BY <1>2, <2>2, <2>3, <2>4 DEF Call
<1> QED BY <1>1, <1>2 DEF Next

LEMMA HoldStutters == ASSUME HoldInv, UNCHANGED vars PROVE HoldInv'
<1>1. /\ UNCHANGED <<env, msql, pg, fp, broken, conn, next, freed, given, used, calls, over>> BY DEF vars
<1>2. TypeOK' BY <1>1 DEF HoldInv, TypeOK
<1>3. FpObjects' = FpObjects /\ Working' = Working /\ PgWorking' = PgWorking BY <1>1 DEF FpObjects, Working, PgWorking
<1>4. MsqlHeld' /\ PgHeld' /\ FpHeld' BY <1>1, <1>3 DEF HoldInv, MsqlHeld, PgHeld, FpHeld
<1>5. Bounded' /\ AtRest' BY <1>1 DEF HoldInv, Bounded, AtRest
<1> QED BY <1>2, <1>4, <1>5 DEF HoldInv

-----------------------------------------------------------------------------
LEMMA HoldAlways == ASSUME HandlesAssumption PROVE Spec => []HoldInv
<1>1. Init => HoldInv BY HoldInit
<1>2. HoldInv /\ [Next]_vars => HoldInv' BY HoldNext, HoldStutters
<1> QED BY <1>1, <1>2, PTL DEF Spec

(* Every variable keeps its type: no call runs out of objects, and the       *)
(* numbers stay numbers.                                                    *)
THEOREM HandlesTypeOK == Spec => []TypeOK
<1>1. HoldInv => TypeOK BY DEF HoldInv
<1>2. Spec => []HoldInv BY HandlesAssumption, HoldAlways
<1> QED BY <1>1, <1>2, PTL

(* What the invariant says of the objects in the lists.                     *)
LEMMA ListedOpen ==
    ASSUME HandlesAssumption, HoldInv
    PROVE  (\A o \in Object : freed[o] <= 1) /\ (\A o \in Listed : freed[o] = 0)
<1>1. /\ MsqlPart(Working, PgObjects(pg) \cup FpObjects) /\ PgPart(PgWorking, MsqlObjects(msql) \cup FpObjects)
      /\ Working.next = next /\ Working.freed = freed /\ PgWorking.next = next /\ PgWorking.freed = freed
  BY DEF HoldInv, MsqlHeld, PgHeld, Working, PgWorking
<1>2. \A o \in PgObjects(pg) \cup FpObjects \cup MsqlObjects(msql) : freed[o] = 0
  BY <1>1 DEF MsqlPart, PgPart, KeptOthers
<1>3. Listed = PgObjects(pg) \cup FpObjects \cup MsqlObjects(msql)
  BY DEF Listed, PgObjects, FpObjects, MsqlObjects
<1>4. \A o \in Object : freed[o] <= 1 BY <1>1 DEF MsqlPart, Once
<1> QED BY <1>2, <1>3, <1>4

(* Whatever fails, no call gives back an object a second time, and what a    *)
(* list or the table names has not been given back: del_result, closing the  *)
(* connection, giving up a lost one and Exit take each node off its list     *)
(* when they give back what it names.                                       *)
THEOREM HandlesNeverFreedTwice == Spec => []((\A o \in Object : freed[o] <= 1) /\ (\A o \in Listed : freed[o] = 0))
<1>1. HoldInv => (\A o \in Object : freed[o] <= 1) /\ (\A o \in Listed : freed[o] = 0)
  BY HandlesAssumption, ListedOpen
<1>2. Spec => []HoldInv BY HandlesAssumption, HoldAlways
<1> QED BY <1>1, <1>2, PTL

(* At the end nothing that was opened is left but the files.                *)
LEMMA AllGivenBack ==
    ASSUME HandlesAssumption, HoldInv, NothingLost, over, NEW o \in 1 .. next - 1, o \notin FpObjects
    PROVE  freed[o] = 1
<1>1. Covered(MsqlObjects(msql) \cup PgObjects(pg) \cup FpObjects, next, freed)
  <2>1. MsqlPart(Working, PgObjects(pg) \cup FpObjects) /\ Working.next = next /\ Working.freed = freed
        /\ Working.m = msql
    BY DEF HoldInv, MsqlHeld, Working
  <2> QED BY <2>1 DEF MsqlPart, Covered
<1>2. MsqlObjects(msql) = {} /\ PgObjects(pg) = {} BY DEF HoldInv, AtRest, MsqlObjects, PgObjects, Objects
<1>3. freed[o] # 0 BY <1>1, <1>2 DEF Covered
<1>4. next \in 1 .. 2 * MaxCalls + 1 /\ freed \in [Object -> Nat] BY DEF HoldInv, TypeOK
<1>5. o \in Object BY <1>4 DEF Object, HandlesAssumption
<1>6. freed[o] \in Nat /\ freed[o] <= 1 BY <1>4, <1>5, ListedOpen
<1> QED BY <1>3, <1>6

(* For a page whose connections to Postgres95 succeed and whose list of      *)
(* types is answered, everything that was opened at a database server has    *)
(* been given back, exactly once, when the page is over.                     *)
THEOREM HandlesFreedOnce ==
    ASSUME {"failed connection", "no type list"} \subseteq Avoided
    PROVE  Spec => []FreedOnce
<1>1. NothingLost BY DEF NothingLost
<1>2. ASSUME HoldInv PROVE FreedOnce
  <2>1. (\A o \in Object : freed[o] <= 1) /\ (\A o \in Listed : freed[o] = 0) BY <1>2, HandlesAssumption, ListedOpen
  <2>2. over => \A o \in 1 .. next - 1 : o \notin FpObjects => freed[o] = 1
    BY <1>1, <1>2, HandlesAssumption, AllGivenBack
  <2> QED BY <2>1, <2>2 DEF FreedOnce, FpObjects
<1>3. Spec => []HoldInv BY HandlesAssumption, HoldAlways
<1> QED BY <1>2, <1>3, PTL

(* Whatever a page does, a number it was given names the result or the       *)
(* connection it was given for, or nothing: the counters msql_ind,           *)
(* pg95_conn_ind and pg95_ind only grow.                                     *)
THEOREM HandlesNumbersKeepMeaning == Spec => []NumbersKeepMeaning
<1>1. ASSUME HoldInv PROVE NumbersKeepMeaning
  <2>1. /\ MsqlPart(Working, PgObjects(pg) \cup FpObjects) /\ PgPart(PgWorking, MsqlObjects(msql) \cup FpObjects)
        /\ Working.m = msql /\ Working.given = given /\ PgWorking.p = pg /\ PgWorking.given = given
    BY <1>1 DEF HoldInv, MsqlHeld, PgHeld, Working, PgWorking
  <2>2. OneMeaning(given) /\ Counted("msql", msql.results, msql.ind, given) BY <2>1 DEF MsqlPart
  <2>3. Counted("pg", pg.results, pg.ind, given) /\ Counted("pgconn", pg.conns, pg.cind, given) BY <2>1 DEF PgPart
  <2> QED BY <2>2, <2>3 DEF NumbersKeepMeaning, OneMeaning, Counted
<1>2. Spec => []HoldInv BY HandlesAssumption, HoldAlways
<1> QED BY <1>1, <1>2, PTL

(* For a page that lists the tables of the database it has selected, or of   *)
(* one before it has selected any, the database msql takes for selected is   *)
(* the one the server has selected: MsqlClose forgets it, and it is set only *)
(* when the server has answered.                                            *)
THEOREM HandlesSelectedAsThought ==
    ASSUME "tables listed" \in Avoided
    PROVE  Spec => []SelectedAsThought
<1> DEFINE Both == HoldInv /\ Thought(msql)
<1>1. Init => Both BY HandlesAssumption, HoldInit
<1>2. Both /\ [Next]_vars => Both'
  <2>1. ASSUME Both, Next PROVE Both' BY <2>1, HandlesAssumption, HoldNext DEF Thought
  <2>2. ASSUME Both, UNCHANGED vars PROVE Both'
    <3>1. msql' = msql BY <2>2 DEF vars
    <3> QED BY <2>2, <3>1, HoldStutters DEF Thought
  <2> QED BY <2>1, <2>2
<1>3. Both => SelectedAsThought
  <2>1. ASSUME Both PROVE SelectedAsThought
    <3>1. MsqlPart(Working, PgObjects(pg) \cup FpObjects) /\ Working.m = msql
      BY <2>1 DEF HoldInv, MsqlHeld, Working
    <3>2. msql.db # "none" => msql.sock # none BY <3>1 DEF MsqlPart
    <3> QED BY <2>1, <3>2 DEF SelectedAsThought, Thought
  <2> QED BY <2>1
<1> HIDE DEF Both
<1> QED BY <1>1, <1>2, <1>3, PTL DEF Spec

(* For a page that does not ask a result for the type of a field over a      *)
(* connection it has closed, while no list of types is held, every call uses *)
(* only what is open when it begins.                                        *)
THEOREM HandlesUsesOpen ==
    ASSUME "closed connection" \in Avoided
    PROVE  Spec => UsesOpen
<1> DEFINE A == \A o \in used' : o \in Object => freed[o] = 0
<1>1. HoldInv /\ [Next]_vars => [A]_vars
  <2>1. ASSUME HoldInv, Next PROVE A BY <2>1, HandlesAssumption, HoldNext DEF UsesOnlyOpen
  <2> QED BY <2>1
<1>2. Spec => []HoldInv BY HandlesAssumption, HoldAlways
<1> QED BY <1>1, <1>2, PTL DEF Spec, UsesOpen
=============================================================================
