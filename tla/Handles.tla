------------------------------- MODULE Handles -------------------------------
(***************************************************************************)
(* The numbers a page holds for what it has opened: results of the mSQL     *)
(* connection, connections and results of Postgres95, and files and pipes.  *)
(* A page makes any calls in any order, with numbers it was given, closed   *)
(* ones among them, and ends in Exit.  What the libraries open is an object *)
(* of its own; freed counts how often each was given back.                  *)
(*                                                                         *)
(* freed, given and used are history: the objects given back, what each     *)
(* number was given for, and what the last call used.                       *)
(***************************************************************************)
EXTENDS Integers, FiniteSets, FiniteSetsExt, Sequences

CONSTANTS
    Database,       \* the databases of the mSQL server
    Port,           \* its ports
    MaxCalls,       \* bound on the calls of the page
    Avoided         \* the pitfalls the page keeps clear of

Pitfall == {"late port", "tables listed", "closed connection", "failed connection", "no type list"}

ASSUME HandlesAssumption ==
    /\ "none" \notin Database \cup Port
    /\ MaxCalls \in Nat /\ Avoided \subseteq Pitfall

(* A call opens a connection and a result at most.                          *)
Object == 1 .. 2 * MaxCalls
none   == 0

VARIABLES
    env,        \* the port in the environment
    msql,       \* dbsock, CurrentDB and CurrentTcpPort, the results, msql_ind, and what the server has selected
    pg,         \* connections, results, pg95_conn_ind, pg95_ind and pgTypeRes
    fp,         \* fp_top: the files and pipes, the last one first
    broken,     \* the Postgres95 connections that are lost
    conn,       \* the connection each result came by
    next, freed, given, used, calls, over
vars == <<env, msql, pg, fp, broken, conn, next, freed, given, used, calls, over>>

Node == [ind : Nat, obj : Object]

TypeOK ==
    /\ env \in Port \cup {"none"}
    /\ msql \in [sock : {none} \cup Object, db : Database \cup {"none"}, selected : Database \cup {"none"},
                 port : Port \cup {"none"}, results : SUBSET Node, ind : Nat]
    /\ pg \in [conns : SUBSET Node, results : SUBSET Node, cind : Nat, ind : Nat, types : Nat]
    /\ fp \in Seq(Node)
    /\ broken \subseteq Object /\ conn \in [Object -> {none} \cup Object]
    /\ next \in 1 .. 2 * MaxCalls + 1 /\ freed \in [Object -> Nat]
    /\ given \subseteq {"msql", "pg", "pgconn"} \X Nat \X Object
    /\ used \subseteq Object
    /\ calls \in 0 .. MaxCalls /\ over \in BOOLEAN

Init ==
    /\ env = "none"
    /\ msql = [sock |-> none, db |-> "none", selected |-> "none", port |-> "none", results |-> {}, ind |-> 1]
    /\ pg = [conns |-> {}, results |-> {}, cind |-> 1, ind |-> 2, types |-> 0]
    /\ fp = << >> /\ broken = {} /\ conn = [o \in Object |-> none]
    /\ next = 1 /\ freed = [o \in Object |-> 0] /\ given = {} /\ used = {}
    /\ calls = 0 /\ over = FALSE

-----------------------------------------------------------------------------
Named(list, n)   == {e \in list : e.ind = n}
Objects(list)    == {e.obj : e \in list}
Frees(f, objs)   == [o \in Object |-> IF o \in objs THEN f[o] + 1 ELSE f[o]]

(* A page passes numbers it was given.                                     *)
Numbers(kind) == {g[2] : g \in {x \in given : x[1] = kind}}

(* The steps of an mSQL call work on what it may have changed so far; a step *)
(* that fails ends it.                                                      *)
Working == [m |-> msql, next |-> next, freed |-> freed, given |-> given, ok |-> TRUE]
Fails(w) == {[w EXCEPT !.ok = FALSE]}
Then(W, F(_)) == UNION {IF w.ok THEN F(w) ELSE {w} : w \in W}

add_result(w) ==
    [w EXCEPT !.m.results = @ \cup {[ind |-> w.m.ind, obj |-> w.next]}, !.m.ind = @ + 1,
              !.given = @ \cup {<<"msql", w.m.ind, w.next>>}, !.next = @ + 1]

(* A fault: the numbers start again.                                       *)
MsqlCloseRenumbers(w) ==
    [w EXCEPT !.freed = Frees(@, Objects(w.m.results) \cup ({w.m.sock} \ {none})),
              !.m.results = {}, !.m.sock = none, !.m.db = "none", !.m.ind = 1]

(* A fault: the database is thought to be selected still.                   *)
MsqlCloseKeepsDB(w) ==
    [w EXCEPT !.freed = Frees(@, Objects(w.m.results) \cup ({w.m.sock} \ {none})),
              !.m.results = {}, !.m.sock = none]

MsqlClose(w) ==
    [w EXCEPT !.freed = Frees(@, Objects(w.m.results) \cup ({w.m.sock} \ {none})),
              !.m.results = {}, !.m.sock = none, !.m.db = "none"]

msqlConnect(w) ==
    Fails(w) \cup
    {[w EXCEPT !.m.sock = w.next, !.m.selected = "none", !.m.port = env, !.next = @ + 1]}

(* A fault: a connection is made for a port only.                           *)
ConnectedByPort(w) ==
    IF env # "none" /\ env # w.m.port THEN msqlConnect(MsqlClose(w)) ELSE {w}

(* The connection is opened when it is needed, and anew when the port in    *)
(* the environment is another one.                                          *)
Connected(w) ==
    IF w.m.sock = none THEN msqlConnect(w)
    ELSE IF env # "none" /\ env # w.m.port THEN msqlConnect(MsqlClose(w)) ELSE {w}

SelectsDB(w, db) ==
    IF w.m.db = db THEN {w} ELSE Fails(w) \cup {[w EXCEPT !.m.db = db, !.m.selected = db]}

(* The query fails, gives no result, or gives one.                         *)
Queries(w) == Fails(w) \cup {w, add_result(w)}

Becomes(w) ==
    /\ msql' = w.m /\ next' = w.next /\ freed' = w.freed /\ given' = w.given
    /\ UNCHANGED <<env, pg, fp, broken, conn>>

Msql(db) ==
    LET Selects(w) == SelectsDB(w, db)
    IN  \E w \in Then(Then(Connected(Working), Selects), Queries) :
            /\ Becomes(w)
            /\ used' = IF w.ok THEN {w.m.sock} ELSE {}

(* The tables are those of the database named, selected for this call.      *)
MsqlListTables(db) ==
    LET Selects(w) == Fails(w) \cup {[w EXCEPT !.m.selected = db]}
        Lists(w)   == Fails(w) \cup {add_result(w)}
    IN  /\ "tables listed" \in Avoided => msql.db \in {"none", db}
        /\ \E w \in Then(Then(Connected(Working), Selects), Lists) : Becomes(w) /\ used' = {}

MsqlConnect == Becomes(MsqlClose(Working)) /\ used' = {}

del_result(n) ==
    /\ freed' = Frees(freed, Objects(Named(msql.results, n)))
    /\ msql' = [msql EXCEPT !.results = @ \ Named(@, n)]

MsqlFreeResult(n) == del_result(n) /\ used' = {} /\ UNCHANGED <<env, pg, fp, broken, conn, next, given>>

get_result(n) == Objects(Named(msql.results, n))

MsqlResult(n) ==
    used' = get_result(n) /\ UNCHANGED <<env, msql, pg, fp, broken, conn, next, freed, given>>

(* A port that is set while the connection has none is compared with NULL.  *)
PutEnv(port) ==
    /\ "late port" \in Avoided => (msql.sock = none \/ msql.port # "none")
    /\ env' = port /\ used' = {}
    /\ UNCHANGED <<msql, pg, fp, broken, conn, next, freed, given>>

-----------------------------------------------------------------------------
(* Postgres95: a set of lists, and two objects a call may open or lose.     *)
pg_get_conn(n)   == Objects(Named(pg.conns, n))
pg_get_result(q, n) == IF n = 1 THEN {} ELSE Objects(Named(q.results, n))

PgWorking == [p |-> pg, next |-> next, freed |-> freed, given |-> given, broken |-> broken, conn |-> conn,
              used |-> {}, ok |-> TRUE]

pg_add_result(w, c) ==
    [w EXCEPT !.p.results = @ \cup {[ind |-> w.p.ind, obj |-> w.next]}, !.p.ind = @ + 1,
              !.given = @ \cup {<<"pg", w.p.ind, w.next>>}, !.conn[w.next] = c, !.next = @ + 1]

pg_add_conn(w) ==
    [w EXCEPT !.p.conns = @ \cup {[ind |-> w.p.cind, obj |-> w.next]}, !.p.cind = @ + 1,
              !.given = @ \cup {<<"pgconn", w.p.cind, w.next>>}, !.next = @ + 1]

(* One that is not in the list, or is NULL, is not closed.                  *)
pg_del_conn(w, c) ==
    LET nodes == {e \in w.p.conns : e.obj = c}
    IN  [w EXCEPT !.p.conns = @ \ nodes, !.freed = Frees(@, Objects(nodes))]

(* A connection that is lost is reset, or given up.                        *)
Alive(w, c) ==
    LET v == [w EXCEPT !.used = @ \cup {c}]
    IN  IF c \notin w.broken THEN {v}
        ELSE {[v EXCEPT !.broken = @ \ {c}], [pg_del_conn(v, c) EXCEPT !.ok = FALSE]}

(* The list of types is asked for once, whatever connection it was asked    *)
(* of; an answer that is none is never cleared.                             *)
pg_type(w, c) ==
    LET Asks(v) == {[pg_add_result(v, c) EXCEPT !.p.types = v.p.ind]}
                   \cup (IF "no type list" \in Avoided THEN {}
                         ELSE {[v EXCEPT !.next = @ + 1, !.ok = FALSE]})
    IN  IF pg_get_result(w.p, w.p.types) # {} THEN {w} ELSE Then(Alive(w, c), Asks)

PgBecomes(w) ==
    /\ pg' = w.p /\ next' = w.next /\ freed' = w.freed /\ given' = w.given
    /\ broken' = w.broken /\ conn' = w.conn /\ used' = w.used
    /\ UNCHANGED <<env, msql, fp>>

(* A connection that fails is answered 0, and what stands for it stays.     *)
PGconnect ==
    LET Types(w) == IF w.p.types = 0 THEN pg_type(w, next) ELSE {w}
    IN  \/ \E w \in Types(pg_add_conn(PgWorking)) : PgBecomes(w)
        \/ /\ "failed connection" \notin Avoided
           /\ PgBecomes([PgWorking EXCEPT !.next = @ + 1])

(* The query fails, fatally too, or succeeds without a result or with one.  *)
(* What it answers when the connection is lost under it is taken for that   *)
(* of a command that has succeeded.                                         *)
PGexec(n) ==
    LET Asks(c, w) == {w, pg_del_conn(w, c), pg_add_result(w, c)}
    IN  \/ pg_get_conn(n) = {} /\ PgBecomes(PgWorking)
        \/ \E c \in pg_get_conn(n) :
               LET Asked(w) == Asks(c, w)
               IN  \E w \in Then(Alive(PgWorking, c), Asked) : PgBecomes(w)

(* The type of a field is looked up before its value is fetched, by the     *)
(* connection the result remembers.                                         *)
PG_result(n) ==
    \/ pg_get_result(pg, n) = {} /\ PgBecomes(PgWorking)
    \/ \E o \in pg_get_result(pg, n) :
           /\ "closed connection" \in Avoided => (freed[conn[o]] = 0 \/ pg_get_result(pg, pg.types) # {})
           /\ \E w \in pg_type([PgWorking EXCEPT !.used = {o}], conn[o]) : PgBecomes(w)

(* A fault: the node stays in the list.                                    *)
DelResultKeepsNode(n) == PgBecomes([PgWorking EXCEPT !.freed = Frees(@, pg_get_result(pg, n))])

pg_del_result(n) ==
    PgBecomes([PgWorking EXCEPT !.freed = Frees(@, pg_get_result(pg, n)),
                                !.p.results = IF n = 1 THEN @ ELSE @ \ Named(@, n)])

PGclose(n) == \E c \in pg_get_conn(n) \cup (IF pg_get_conn(n) = {} THEN {none} ELSE {}) :
                  PgBecomes(pg_del_conn(PgWorking, c))

(* The server closes a connection.                                         *)
ServerLeaves(c) ==
    /\ broken' = broken \cup {c} /\ used' = {}
    /\ UNCHANGED <<env, msql, pg, fp, conn, next, freed, given>>

-----------------------------------------------------------------------------
(* Files and pipes: the number is the descriptor, the lowest that is free;  *)
(* here 1 is the first the page may get.                                    *)
OpenFds == {fp[i].ind : i \in DOMAIN fp}
Lowest  == Min({n \in 1 .. MaxCalls + 1 : n \notin OpenFds})

FpPush ==
    /\ fp' = <<[ind |-> Lowest, obj |-> next]>> \o fp
    /\ next' = next + 1 /\ used' = {}
    /\ UNCHANGED <<env, msql, pg, broken, conn, freed, given>>

FpFind(n) == {i \in DOMAIN fp : fp[i].ind = n}

(* A fault: the entry opened last goes.                                    *)
FpDelLast(i) == Tail(fp)

FpDel(i) == SubSeq(fp, 1, i - 1) \o SubSeq(fp, i + 1, Len(fp))

Fclose(n) ==
    /\ used' = {}
    /\ IF FpFind(n) = {} THEN UNCHANGED <<fp, freed>>
       ELSE LET i == Min(FpFind(n)) IN fp' = FpDel(i) /\ freed' = Frees(freed, {fp[i].obj})
    /\ UNCHANGED <<env, msql, pg, broken, conn, next, given>>

Fputs(n) ==
    /\ used' = {fp[i].obj : i \in IF FpFind(n) = {} THEN {} ELSE {Min(FpFind(n))}}
    /\ UNCHANGED <<env, msql, pg, fp, broken, conn, next, freed, given>>

-----------------------------------------------------------------------------
PGcloseAll(w) ==
    [w EXCEPT !.freed = Frees(Frees(@, Objects(w.p.results)), Objects(w.p.conns)),
              !.p.results = {}, !.p.conns = {}]

(* Exit closes what the page left, but for its files.                       *)
Exit ==
    LET w == MsqlClose(Working)
        v == PGcloseAll([PgWorking EXCEPT !.freed = w.freed])
    IN  /\ over' = TRUE
        /\ msql' = w.m /\ pg' = v.p /\ freed' = v.freed /\ used' = {}
        /\ UNCHANGED <<env, fp, broken, conn, next, given, calls>>

MsqlCall ==
    \/ \E db \in Database : Msql(db) \/ MsqlListTables(db)
    \/ MsqlConnect
    \/ \E n \in Numbers("msql") : MsqlFreeResult(n) \/ MsqlResult(n)
    \/ \E port \in Port : PutEnv(port)

PgCall ==
    \/ PGconnect
    \/ \E n \in Numbers("pgconn") : PGexec(n) \/ PGclose(n)
    \/ \E n \in Numbers("pg") \cup {1} : PG_result(n) \/ pg_del_result(n)
    \/ \E c \in Objects(pg.conns) : ServerLeaves(c)

FileCall == FpPush \/ \E n \in 1 .. MaxCalls : Fclose(n) \/ Fputs(n)

Call == calls < MaxCalls /\ calls' = calls + 1 /\ UNCHANGED over /\ (MsqlCall \/ PgCall \/ FileCall)

Next == ~over /\ (Call \/ Exit)
Spec == Init /\ [][Next]_vars

-----------------------------------------------------------------------------
Listed == Objects(msql.results) \cup ({msql.sock} \ {none}) \cup Objects(pg.conns) \cup Objects(pg.results)
          \cup {fp[i].obj : i \in DOMAIN fp}

(* Nothing is given back twice, and what a list or a table names is open:   *)
(* whatever was closed, reset, given up or asked for anew before.  When the *)
(* request is over all that it opened at a database server has been given   *)
(* back; files and pipes have not.                                          *)
FreedOnce ==
    /\ \A o \in Object : freed[o] <= 1
    /\ \A o \in Listed : freed[o] = 0
    /\ over => \A o \in 1 .. next - 1 : o \notin {fp[i].obj : i \in DOMAIN fp} => freed[o] = 1

(* A call uses only what is open when it begins.                           *)
UsesOpen == [][\A o \in used' : o \in Object => freed[o] = 0]_vars

(* A number the page was given names what it was given for, or nothing:     *)
(* numbers of results and connections are never used again, though          *)
(* connections close and open.                                              *)
NumbersKeepMeaning ==
    /\ \A g, h \in given : g[1] = h[1] /\ g[2] = h[2] => g[3] = h[3]
    /\ \A e \in msql.results : <<"msql", e.ind, e.obj>> \in given
    /\ \A e \in pg.results : <<"pg", e.ind, e.obj>> \in given
    /\ \A e \in pg.conns : <<"pgconn", e.ind, e.obj>> \in given

(* The database msql takes for selected is the one the server has selected, *)
(* on a connection that is open.                                            *)
SelectedAsThought == msql.db # "none" => msql.sock # none /\ msql.selected = msql.db

=============================================================================
