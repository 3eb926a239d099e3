-------------------------------- MODULE Request --------------------------------
(***************************************************************************)
(* One server process from request to request (main.c): init, the variables *)
(* of the form (post.c), the page, Exit (lex.c), the header (head.c), what  *)
(* Error prints and sets (error.c), and the memory pools that all of them   *)
(* allocate from (pool.c).                                                  *)
(*                                                                         *)
(* An allocation that crosses the limit reports an error, which allocates,  *)
(* and calls Exit, which allocates too, before it goes on; so an operation  *)
(* takes the whole state s and gives it back.  An allocation is one unit,   *)
(* a block holds PerBlock of them.                                          *)
(***************************************************************************)
EXTENDS Integers, Sequences, FiniteSets, SequencesExt

CONSTANTS
    Name,           \* the variables of the form
    PerBlock,       \* units a block holds
    MaxData,        \* max_data_space, in units
    MaxBlocks,      \* bound on the blocks of a process
    MaxSteps,       \* bound on the statements of a page, and on the pairs of a form
    Avoided         \* the pitfalls requests keep clear of

Pitfall == {"limit in form", "limit in open"}

ASSUME RequestAssumption ==
    /\ PerBlock \in Nat \ {0} /\ MaxData \in Nat /\ MaxBlocks \in Nat /\ MaxSteps \in Nat
    /\ Avoided \subseteq Pitfall

VARIABLES
    phase,      \* of the request: "idle", "post", "get" or "page"
    steps,      \* statements and pairs so far
    form,       \* the variables: "none", "post" or "get" for where each came from
    s           \* pools, limit, output, what is open
vars == <<phase, steps, form, s>>

Pool == 0 .. 2

(* The state of a request that init has left.  The free list outlives it.   *)
Fresh(free, made) ==
    [block  |-> [p \in Pool |-> << >>],     \* the blocks of each pool
     avail  |-> [p \in Pool |-> 0],         \* units left in the last one
     size   |-> [p \in Pool |-> 0],         \* GOOMBAServer_pool_size
     over   |-> FALSE,                      \* already_over
     free   |-> free, made |-> made,        \* the free list, and the blocks malloc'd
     sent   |-> << >>,                      \* headers and runs of text sent
     header |-> FALSE,                      \* HeaderPrinted
     exited |-> FALSE, stop |-> FALSE,      \* ExitCalled, state 99
     mapped |-> FALSE, open |-> 0,          \* the text of the page, open databases
     logged |-> 0, gone |-> FALSE]          \* history: visits logged, the client has left

Init ==
    /\ phase = "idle" /\ steps = 0 /\ form = [n \in Name |-> "none"]
    /\ s = Fresh(<< >>, 0)

-----------------------------------------------------------------------------
(* A fault: the block stays on the free list.                              *)
BlockStays(t) ==
    IF t.free = << >> THEN <<t.made + 1, [t EXCEPT !.made = @ + 1]>> ELSE <<Head(t.free), t>>

new_block(t) ==
    IF t.free = << >> THEN <<t.made + 1, [t EXCEPT !.made = @ + 1]>>
    ELSE <<Head(t.free), [t EXCEPT !.free = Tail(@)]>>

(* A fault: one unit past the end of the block.                            *)
PallocPastEnd(t, p) ==
    IF t.block[p] # << >> /\ t.avail[p] >= 0 THEN [t EXCEPT !.avail[p] = @ - 1]
    ELSE LET n == new_block(t) IN [n[2] EXCEPT !.block[p] = Append(@, n[1]), !.avail[p] = PerBlock - 1]

(* From the last block of the pool, or from another.                        *)
palloc(t, p) ==
    IF t.block[p] # << >> /\ t.avail[p] > 0 THEN [t EXCEPT !.avail[p] = @ - 1]
    ELSE LET n == new_block(t) IN [n[2] EXCEPT !.block[p] = Append(@, n[1]), !.avail[p] = PerBlock - 1]

(* The pool's chain of blocks but for the first goes to the free list.      *)
clear_pool(t, p) ==
    [t EXCEPT !.free = Tail(t.block[p]) \o @, !.block[p] = <<Head(@)>>, !.avail[p] = PerBlock]

destroy_pool(t, p) ==
    LET u == clear_pool(t, p) IN [u EXCEPT !.free = u.block[p] \o @, !.block[p] = << >>]

pool_clear(t, p) == IF p = 0 \/ t.size[p] = 0 THEN t ELSE clear_pool([t EXCEPT !.size[p] = 0], p)
pool_free(t, p)  == IF p = 0 \/ t.size[p] = 0 THEN t ELSE destroy_pool([t EXCEPT !.size[p] = 0], p)

-----------------------------------------------------------------------------
Sends(t, kind) == IF t.sent # << >> /\ Last(t.sent) = "text" /\ kind = "text" THEN t ELSE [t EXCEPT !.sent = Append(@, kind)]

header(t) == IF t.header THEN t ELSE Sends([t EXCEPT !.header = TRUE], "header")

(* Allocations once the limit is known to be passed, and Error, which       *)
(* pushes its text and sets a variable to it.                               *)
Gets(t, p)   == palloc([t EXCEPT !.size[p] = @ + 1], p)
Report(t)    == Sends(Gets(Gets(header(t), 2), 0), "text")

(* Header and text first, databases last, the log between; once.            *)
Shuts(t)  == [header([t EXCEPT !.exited = TRUE]) EXCEPT !.mapped = FALSE]
Logged(t) == [t EXCEPT !.logged = @ + 1]
Closes(t) == [t EXCEPT !.open = 0, !.stop = TRUE]

(* Exit past the limit: Log, which allocates from pool 1, crosses nothing.  *)
ExitOver(t) == IF t.exited THEN t ELSE Closes(Logged(Gets(Shuts(t), 1)))

(* The allocation that crosses the limit.                                  *)
Alloc(t, p) ==
    LET u == [t EXCEPT !.size[p] = @ + 1]
    IN  IF u.size[p] > MaxData /\ ~u.over
        THEN palloc(ExitOver(Report([u EXCEPT !.over = TRUE])), p)
        ELSE palloc(u, p)

(* A fault: the text goes out before the header.                           *)
ErrorFirst(t) == header(Sends(Alloc(Alloc(t, 2), 0), "text"))

Error(t) == Sends(Alloc(Alloc(header(t), 2), 0), "text")

(* A fault: a second Exit does it all again.                               *)
ExitAgain(t, footer) ==
    LET u == Shuts(t) IN Closes(IF footer THEN Logged(Alloc(u, 1)) ELSE u)

Exit(t, footer) ==
    LET u == Shuts(t) IN IF t.exited THEN t ELSE Closes(IF footer THEN Logged(Alloc(u, 1)) ELSE u)

-----------------------------------------------------------------------------
Fits(t) == t.made <= MaxBlocks

Becomes(t) == Fits(t) /\ s' = t
Takes(t)   == steps < MaxSteps /\ steps' = steps + 1 /\ Becomes(t)

(* init_pool and the other init calls, and the form of the request.         *)
Accept ==
    /\ phase = "idle"
    /\ \E method \in {"post", "get"} : phase' = method
    /\ steps' = 0 /\ form' = [n \in Name |-> "none"]
    /\ Becomes(Fresh(s.free, s.made))

Within(t) == "limit in form" \in Avoided => ~t.exited

(* getpost with a form it cannot read.                                     *)
BadPost ==
    /\ phase = "post" /\ phase' = "get"
    /\ Within(Error(s)) /\ Becomes(Error(s))
    /\ UNCHANGED <<steps, form>>

(* The text and the value of a pair, and a node for a name that is new.     *)
Pair(n) == LET t == Alloc(Alloc(s, 1), 2) IN IF form[n] = "none" THEN Alloc(t, 0) ELSE t

PostPair(n) ==
    /\ phase = "post" /\ UNCHANGED phase
    /\ Within(Pair(n)) /\ Takes(Pair(n))
    /\ form' = [form EXCEPT ![n] = "post"]

EndPost == phase = "post" /\ phase' = "get" /\ UNCHANGED <<steps, form, s>>

(* A fault: any variable that is there may be set.                         *)
GetPairAny(n) ==
    /\ phase = "get" /\ UNCHANGED phase
    /\ Within(Pair(n)) /\ Takes(Pair(n))
    /\ form' = [form EXCEPT ![n] = "get"]

(* A pair whose variable is there, and not by a pair like it, is passed     *)
(* over.                                                                    *)
GetPair(n) ==
    /\ phase = "get" /\ UNCHANGED phase
    /\ IF form[n] = "post" THEN Takes(s) /\ UNCHANGED form
       ELSE Within(Pair(n)) /\ Takes(Pair(n)) /\ form' = [form EXCEPT ![n] = "get"]

(* OpenFile and ParserInit: whatever has happened the parser starts.        *)
StartPage ==
    /\ phase = "get" /\ phase' = "page" /\ steps' = 0
    /\ Within(Alloc(s, 1)) /\ Becomes([Alloc(s, 1) EXCEPT !.mapped = TRUE, !.stop = FALSE])
    /\ UNCHANGED form

(* The page is not found: the process ends, and another takes its place.    *)
NoPage ==
    /\ phase = "get" /\ phase' = "idle" /\ steps' = 0 /\ form' = [n \in Name |-> "none"]
    /\ s' = Fresh(<< >>, 0)

-----------------------------------------------------------------------------
(* A statement begins when the lexer has cleared pool 1, and the stack of   *)
(* the statement before.                                                    *)
Begun == pool_clear(pool_clear(s, 1), 2)
Statement(t) == phase = "page" /\ ~s.stop /\ Takes(t) /\ UNCHANGED <<phase, form>>

Assign   == Statement(Alloc(Alloc(Begun, 2), 0))
Complain == Statement(Error(Begun))

(* Text of the page, or echo: when it cannot be sent Exit does not log.     *)
Echo ==
    \/ Statement(Sends(header(Alloc(Begun, 2)), "text"))
    \/ Statement(Exit([header(Alloc(Begun, 2)) EXCEPT !.gone = TRUE], FALSE))

(* The name and the mode are copied, the file opened, the entry allocated   *)
(* and pushed.                                                              *)
dbmOpen ==
    LET t == Alloc(Alloc(Alloc(Begun, 2), 0), 0)
    IN  /\ "limit in open" \in Avoided => ~t.exited
        /\ Statement([t EXCEPT !.open = @ + 1])

ExitStatement == Statement(Exit(Begun, TRUE))

(* The parser returns: at the end of the text, or in state 99.              *)
EndPage ==
    /\ phase = "page" /\ phase' = "idle"
    /\ Becomes(pool_free(pool_free(pool_free(Exit(pool_clear(s, 1), TRUE), 1), 2), 0))
    /\ UNCHANGED <<steps, form>>

Next ==
    \/ Accept \/ BadPost \/ EndPost \/ StartPage \/ NoPage
    \/ \E n \in Name : PostPair(n) \/ GetPair(n)
    \/ Assign \/ Complain \/ Echo \/ dbmOpen \/ ExitStatement \/ EndPage
Spec == Init /\ [][Next]_vars

-----------------------------------------------------------------------------
TypeOK ==
    /\ phase \in {"idle", "post", "get", "page"} /\ steps \in 0 .. MaxSteps
    /\ form \in [Name -> {"none", "post", "get"}]
    /\ s.made \in 0 .. MaxBlocks /\ s.free \in Seq(1 .. s.made)
    /\ \A p \in Pool : s.block[p] \in Seq(1 .. s.made) /\ s.avail[p] \in 0 .. PerBlock /\ s.size[p] \in Nat
    /\ s.sent \in Seq({"header", "text"}) /\ s.logged \in Nat /\ s.open \in Nat
    /\ {s.over, s.header, s.exited, s.stop, s.mapped, s.gone} \subseteq BOOLEAN

(* One header is sent, and before any text, on every path that prints, the  *)
(* errors among them; a request that is over has sent one.                  *)
HeaderFirst ==
    /\ s.sent \in {<< >>, <<"header">>, <<"header", "text">>}
    /\ phase = "idle" /\ s.exited => s.sent # << >>

(* A request that has been served was logged once, unless its client left,  *)
(* and holds no database and no mapping, wherever Exit was called from: the *)
(* page, an error in the middle of an allocation, or the end.               *)
ServedOnce ==
    phase = "idle" /\ s.exited =>
        /\ s.logged <= 1 /\ (s.logged = 0 => s.gone)
        /\ s.open = 0 /\ ~s.mapped

(* A block is in one pool or on the free list, once, whichever pools were   *)
(* cleared, freed or forgotten; and none that holds data is on the list.    *)
BlocksApart ==
    LET all == s.free \o s.block[0] \o s.block[1] \o s.block[2]
    IN  \A i, j \in DOMAIN all : all[i] = all[j] => i = j

(* post.c:227 says that "a variable which has been defined through the POST *)
(* method is not redefined with a GET method variable": it stays whatever   *)
(* pairs follow.                                                            *)
PostStays == [][\A n \in Name : form[n] = "post" /\ phase = "get" /\ phase' # "idle" => form'[n] = "post"]_vars
=============================================================================
