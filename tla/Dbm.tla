--------------------------------- MODULE Dbm ---------------------------------
(***************************************************************************)
(* The databases of db.c in the gdbm build: the table of open databases of  *)
(* each server process, and the locks the library keeps.  gdbm_open locks   *)
(* the file, one writer or any readers, and fails at once when it is unable *)
(* to; the .lck file of db.c is locked and closed again before that, which  *)
(* gives its lock back, so it keeps nobody out and is left out here.  What  *)
(* a database holds belongs to the modules that use it.                     *)
(***************************************************************************)
EXTENDS Naturals, Sequences

CONSTANTS Proc,         \* the server's processes
          Base          \* the databases

ASSUME DbmAssumption == "nobody" \notin Proc

VARIABLES top,          \* of each process: its open databases, the last one first
          readers,      \* how often each process has each database open for reading
          writer        \* who has each database open for writing

dbms == <<top, readers, writer>>

Entry == [base : Base, mode : {"r", "w"}]

DbmTypeOK ==
    /\ top \in [Proc -> Seq(Entry)]
    /\ readers \in [Proc -> [Base -> Nat]]
    /\ writer \in [Base -> Proc \cup {"nobody"}]

DbmInit ==
    /\ top = [p \in Proc |-> << >>]
    /\ readers = [p \in Proc |-> [b \in Base |-> 0]]
    /\ writer = [b \in Base |-> "nobody"]

-----------------------------------------------------------------------------
(* What gdbm_open grants.  Modes: "r" and "w" want a database that is there, *)
(* "c" makes one that is missing, "n" empties one that is there.            *)
Granted(b, mode, there) ==
    /\ mode \in {"r", "w"} => there
    /\ writer[b] = "nobody"
    /\ mode # "r" => \A p \in Proc : readers[p][b] = 0

LockMode(mode) == IF mode = "r" THEN "r" ELSE "w"

Lock(p, b, mode) ==
    IF mode = "r"
    THEN readers' = [readers EXCEPT ![p][b] = @ + 1] /\ UNCHANGED writer
    ELSE writer' = [writer EXCEPT ![b] = p] /\ UNCHANGED readers

(* gdbm_close of what entry e names.                                       *)
Unlock(p, e) ==
    IF e.mode = "r"
    THEN readers' = [readers EXCEPT ![p][e.base] = @ - 1] /\ UNCHANGED writer
    ELSE writer' = [writer EXCEPT ![e.base] = "nobody"] /\ UNCHANGED readers

(* The new entry becomes the whole table: its link to the entries before it *)
(* is never set.                                                            *)
dbmPush(p, e) == top' = [top EXCEPT ![p] = <<e>>]

(* The table never holds two entries, so that what dbmFind does to the order *)
(* of them shows nowhere.                                                   *)
Found(p, b)   == \E i \in DOMAIN top[p] : top[p][i].base = b
dbmFind(p, b) == top[p][CHOOSE i \in DOMAIN top[p] : top[p][i].base = b]

_dbmOpen(p, b, mode, there) ==
    /\ Granted(b, mode, there)
    /\ Lock(p, b, mode)
    /\ dbmPush(p, [base |-> b, mode |-> LockMode(mode)])

_dbmOpenFails(b, mode, there) == ~Granted(b, mode, there) /\ UNCHANGED dbms

(* Closes the database and drops the first entry, which is that of the      *)
(* database found.  One that is not in the table is an error message.       *)
_dbmClose(p, b) ==
    IF Found(p, b) THEN Unlock(p, dbmFind(p, b)) /\ top' = [top EXCEPT ![p] = Tail(@)]
                   ELSE UNCHANGED dbms

dbmCloseAll(p) ==
    IF top[p] = << >> THEN UNCHANGED dbms
    ELSE Unlock(p, Head(top[p])) /\ top' = [top EXCEPT ![p] = << >>]

(* init_db forgets the table, whatever is still open.                      *)
init_db(p) == top' = [top EXCEPT ![p] = << >>] /\ UNCHANGED <<readers, writer>>

(* A process that ends gives its locks back.                               *)
ProcessEnds(p) ==
    /\ top' = [top EXCEPT ![p] = << >>]
    /\ readers' = [readers EXCEPT ![p] = [b \in Base |-> 0]]
    /\ writer' = [b \in Base |-> IF writer[b] = p THEN "nobody" ELSE writer[b]]

-----------------------------------------------------------------------------
Holds(p, b)  == readers[p][b] > 0 \/ writer[b] = p
HoldsNone(p) == \A b \in Base : ~Holds(p, b)
=============================================================================
