------------------------------ MODULE SiteProofs ------------------------------
(***************************************************************************)
(* What a site keeps, for any processes, requests, kills and rules.  Three  *)
(* inductive invariants: CountInv counts the visits that are due, TableInv  *)
(* says which database a process has open at each place and that the locks  *)
(* of the library are those of the tables, AccessInv where a process stands *)
(* in its rules.  QuietInv builds on TableInv.  Where a lock must be given  *)
(* back, a page has no database open when another one is opened.            *)
(***************************************************************************)
EXTENDS Site, FiniteSetTheorems, TLAPS

-----------------------------------------------------------------------------
(* Visits that were to be logged and are not counted yet.                   *)
ToCount == {"log", "lognew", "logread", "logentry", "loglast"}
Pending == {p \in Proc : pc[p] \in ToCount}

CountTypes ==
    /\ pc \in [Proc -> Place] /\ total \in [Proc -> Int]
    /\ log.last \in Int /\ made \in Nat

(* No counter, shown or stored, has the visits that are pending.            *)
CountInv ==
    /\ CountTypes
    /\ IsFiniteSet(Pending)
    /\ Cardinality(Pending) <= made
    /\ log.last <= made - Cardinality(Pending)
    /\ \A p \in Proc : total[p] <= made - Cardinality(Pending)

(* What a step of process p does to the counters: nothing new is counted,   *)
(* a visit becomes due, or it is counted.                                  *)
Alone(f, g, p) == g = [f EXCEPT ![p] = g[p]]        \* from f to g only what belongs to p changes

CountsNothing(p) ==
    /\ Alone(pc, pc', p) /\ pc'[p] \in Place /\ (pc'[p] \in ToCount => pc[p] \in ToCount)
    /\ made' = made /\ log'.last \in {log.last, -1}
    /\ Alone(total, total', p) /\ total'[p] \in {total[p], -1, 0, log.last}

IsDue(p) ==
    /\ Alone(pc, pc', p) /\ pc'[p] = "log" /\ pc[p] \notin ToCount
    /\ made' = made + 1 /\ log' = log /\ total' = total

IsCounted(p) ==
    /\ Alone(pc, pc', p) /\ pc'[p] = "logclose" /\ pc[p] \in ToCount
    /\ made' = made /\ log'.last = total[p] + 1
    /\ Alone(total, total', p) /\ total'[p] = total[p] + 1

LEMMA CountStep ==
    ASSUME CountTypes, NEW p \in Proc, Begins(p, "check") \/ Begins(p, "conf") \/ Works(p) \/ Killed(p)
    PROVE  CountsNothing(p) \/ IsDue(p) \/ IsCounted(p)
<1> USE DEF CountTypes, At, Goes, Alone, own, data, past, Place, AtLog, AtConf
<1>0. total = [total EXCEPT ![p] = total[p]] /\ pc = [pc EXCEPT ![p] = pc[p]] /\ pc[p] \in Place
  OBVIOUS
<1>1. CASE Begins(p, "check") \/ Begins(p, "conf")
  BY <1>1 DEF Begins, CountsNothing, ToCount
<1>2. CASE Killed(p)
  BY <1>0, <1>2 DEF Killed, Returns, CountsNothing, ToCount
<1>3. CASE Visit(p)
  <2>1. CASE CheckAccess(p) BY <1>0, <2>1 DEF CheckAccess, Opens, Refused, CountsNothing, ToCount
  <2>2. CASE ReadRules(p) BY <1>0, <2>2 DEF ReadRules, CountsNothing, ToCount
  <2>3. CASE ApplyRule(p) BY <1>0, <2>3 DEF ApplyRule, Returns, CountsNothing, ToCount
  <2>4. CASE Admit(p) BY <1>0, <2>4 DEF Admit, Returns, CountsNothing, ToCount
  <2>5. CASE GetTotal(p) BY <1>0, <2>5 DEF GetTotal, CountsNothing, ToCount
  <2>6. CASE ShowOpens(p) BY <1>0, <2>6 DEF ShowOpens, Opens, Refused, CountsNothing, ToCount
  <2>7. CASE Shows(p) BY <1>0, <2>7 DEF Shows, loadlastinfo, CountsNothing, ToCount
  <2>8. CASE dbmOpen(p, "r") \/ dbmOpen(p, "c") BY <1>0, <2>8 DEF dbmOpen, Opens, CountsNothing, ToCount
  <2>9. CASE dbmClose(p) BY <1>0, <2>9 DEF dbmClose, CountsNothing, ToCount
  <2>10. CASE EndPage(p)
    <3>1. CASE Logging[p]
      <4>1. Goes(p, "log") /\ made' = made + 1 /\ UNCHANGED <<log, total>> BY <2>10, <3>1 DEF EndPage
      <4> QED BY <1>0, <2>10, <4>1 DEF EndPage, IsDue, ToCount
    <3>2. CASE ~Logging[p]
      <4>1. Goes(p, "close") /\ made' = made + 0 /\ UNCHANGED <<log, total>> BY <2>10, <3>2 DEF EndPage
      <4> QED BY <1>0, <4>1 DEF CountsNothing, ToCount
    <3> QED BY <3>1, <3>2
  <2>11. CASE CloseAll(p) BY <1>0, <2>11 DEF CloseAll, CountsNothing, ToCount
  <2>12. CASE LogOpens(p) BY <1>0, <2>12 DEF LogOpens, Opens, Refused, CountsNothing, ToCount
  <2>13. CASE LogCreates(p)
    <3>1. made' = made BY <2>13 DEF LogCreates
    <3>2. CASE UNCHANGED <<log, total>> /\ Goes(p, "close") BY <1>0, <3>1, <3>2 DEF CountsNothing, ToCount
    <3>3. CASE log'.last = -1 /\ total' = [total EXCEPT ![p] = 0] /\ Goes(p, "logread")
      BY <1>0, <2>13, <3>1, <3>3 DEF LogCreates, CountsNothing, ToCount
    <3>4. \/ /\ Goes(p, "logread") /\ total' = [total EXCEPT ![p] = 0]
             /\ log' = [there |-> TRUE, entries |-> 0, last |-> -1]
          \/ Goes(p, "close") /\ UNCHANGED <<log, total>>
      BY <2>13, Zenon DEF LogCreates, Opens, Refused
    <3>5. [there |-> TRUE, entries |-> 0, last |-> -1].last = -1 OBVIOUS
    <3> QED BY <3>2, <3>3, <3>4, <3>5
  <2>14. CASE LogReads(p) BY <1>0, <2>14 DEF LogReads, loadlastinfo, CountsNothing, ToCount
  <2>15. CASE LogInserts(p) BY <1>0, <2>15 DEF LogInserts, CountsNothing, ToCount
  <2>16. CASE LogCounts(p) BY <1>0, <2>16 DEF LogCounts, IsCounted, ToCount
  <2>17. CASE LogCloses(p) BY <1>0, <2>17 DEF LogCloses, CountsNothing, ToCount
  <2> QED BY <1>3, <2>1, <2>2, <2>3, <2>4, <2>5, <2>6, <2>7, <2>8, <2>9, <2>10, <2>11, <2>12, <2>13, <2>14, <2>15,
             <2>16, <2>17 DEF Visit
<1>4. CASE Configures(p)
  <2>1. total' = total /\ log' = log /\ made' = made
    BY <1>4 DEF Configures, Configuration, ConfCreates, ConfInserts, ConfReads, Submits, FormOpens, FormWrites,
                FormReads, ShowsForms
  <2>2. Alone(pc, pc', p) /\ pc'[p] \in AtConf \cup {"idle"}
    BY <1>4 DEF Configures, Configuration, ConfCreates, ConfInserts, ConfReads, Submits, FormOpens, FormWrites,
                FormReads, ShowsForms, Opens, Refused
  <2> QED BY <1>0, <2>1, <2>2 DEF CountsNothing, ToCount
<1> QED BY <1>1, <1>2, <1>3, <1>4 DEF Works

-----------------------------------------------------------------------------
LEMMA CountInit == Init => CountInv
<1> SUFFICES ASSUME Init PROVE CountInv OBVIOUS
<1>1. CountTypes BY DEF Init, CountTypes, Place
<1>2. Pending = {} BY DEF Init, Pending, ToCount
<1>3. IsFiniteSet(Pending) /\ Cardinality(Pending) = 0 BY <1>2, FS_EmptySet
<1> QED BY <1>1, <1>3 DEF CountInv, Init

LEMMA CountTypesStep ==
    ASSUME CountTypes, NEW p \in Proc, CountsNothing(p) \/ IsDue(p) \/ IsCounted(p)
    PROVE  CountTypes'
<1> USE DEF CountTypes, Alone
<1>1. total[p] \in Int OBVIOUS
<1>2. CASE CountsNothing(p)
  <2>1. total'[p] \in Int /\ log'.last \in Int BY <1>1, <1>2 DEF CountsNothing
  <2> QED BY <1>2, <2>1 DEF CountsNothing
<1>3. CASE IsDue(p) BY <1>3 DEF IsDue, Place, AtLog
<1>4. CASE IsCounted(p) BY <1>1, <1>4 DEF IsCounted, Place, AtLog
<1> QED BY <1>2, <1>3, <1>4

(* What becomes of the pending visits when p moves.                         *)
LEMMA PendingStep ==
    ASSUME CountTypes, IsFiniteSet(Pending), NEW p \in Proc, Alone(pc, pc', p)
    PROVE  /\ IsFiniteSet(Pending') /\ Cardinality(Pending) \in Nat /\ Cardinality(Pending') \in Nat
           /\ (pc'[p] \in ToCount /\ pc[p] \notin ToCount) => Cardinality(Pending') = Cardinality(Pending) + 1
           /\ (pc'[p] \notin ToCount /\ pc[p] \in ToCount) => Cardinality(Pending') = Cardinality(Pending) - 1
           /\ (pc'[p] \in ToCount <=> pc[p] \in ToCount) => Cardinality(Pending') = Cardinality(Pending)
<1>1. \A q \in Proc \ {p} : pc'[q] = pc[q] BY DEF Alone, CountTypes
<1>2. Cardinality(Pending) \in Nat BY FS_CardinalityType
<1>3. CASE pc'[p] \in ToCount /\ pc[p] \notin ToCount
  <2>1. Pending' = Pending \cup {p} /\ p \notin Pending BY <1>1, <1>3 DEF Pending, ToCount
  <2>2. IsFiniteSet(Pending') /\ Cardinality(Pending') = Cardinality(Pending) + 1 BY <2>1, FS_AddElement
  <2> QED BY <1>2, <1>3, <2>2
<1>4. CASE pc'[p] \notin ToCount /\ pc[p] \in ToCount
  <2>1. Pending' = Pending \ {p} /\ p \in Pending BY <1>1, <1>4 DEF Pending, ToCount
  <2>2. IsFiniteSet(Pending') /\ Cardinality(Pending') = Cardinality(Pending) - 1 BY <2>1, FS_RemoveElement
  <2>3. Cardinality(Pending') \in Nat BY <2>2, FS_CardinalityType
  <2> QED BY <1>2, <1>4, <2>2, <2>3
<1>5. CASE pc'[p] \in ToCount <=> pc[p] \in ToCount
  <2>1. Pending' = Pending BY <1>1, <1>5 DEF Pending, ToCount
  <2> QED BY <1>2, <1>5, <2>1
<1> QED BY <1>3, <1>4, <1>5

LEMMA CountKept == CountInv /\ [Next]_vars => CountInv'
<1> SUFFICES ASSUME CountInv, [Next]_vars PROVE CountInv' OBVIOUS
<1> USE DEF CountInv
<1>1. CASE UNCHANGED vars
  BY <1>1 DEF vars, own, data, past, CountTypes, Pending
<1>2. CASE Next
  <2>1. PICK p \in Proc : Begins(p, "check") \/ Begins(p, "conf") \/ Works(p) \/ Killed(p)
    BY <1>2 DEF Next
  <2>2. CountsNothing(p) \/ IsDue(p) \/ IsCounted(p) BY <2>1, CountStep
  <2>3. CountTypes' BY <2>2, CountTypesStep
  <2>4. Alone(pc, pc', p) BY <2>2 DEF CountsNothing, IsDue, IsCounted
  <2> DEFINE n == Cardinality(Pending)
             m == Cardinality(Pending')
  <2>5. IsFiniteSet(Pending') /\ n \in Nat /\ m \in Nat BY <2>4, PendingStep
  <2>6. /\ (pc'[p] \in ToCount /\ pc[p] \notin ToCount) => m = n + 1
        /\ (pc'[p] \notin ToCount /\ pc[p] \in ToCount) => m = n - 1
        /\ (pc'[p] \in ToCount <=> pc[p] \in ToCount) => m = n
    BY <2>4, PendingStep
  <2>7. n <= made /\ log.last <= made - n /\ \A q \in Proc : total[q] <= made - n OBVIOUS
  <2>8. CountTypes OBVIOUS
  <2>9. /\ m <= made' /\ log'.last <= made' - m
        /\ \A q \in Proc : total'[q] <= made' - m
    <3> HIDE DEF n, m, CountInv
    <3>1. CASE CountsNothing(p)
      <4>1. m <= n /\ made' = made BY <2>5, <2>6, <3>1 DEF CountsNothing
      <4>2. log'.last <= made - n /\ total'[p] <= made - n
        BY <2>5, <2>7, <2>8, <3>1 DEF CountsNothing, CountTypes
      <4>3. \A q \in Proc : total'[q] <= made - n
        BY <2>7, <2>8, <3>1, <4>2 DEF CountsNothing, CountTypes, Alone
      <4>4. \A q \in Proc : total'[q] \in Int BY <2>3 DEF CountTypes
      <4> QED BY <2>3, <2>5, <2>7, <2>8, <4>1, <4>2, <4>3, <4>4 DEF CountTypes
    <3>2. CASE IsDue(p)
      <4>1. m = n + 1 /\ made' = made + 1 BY <2>5, <2>6, <3>2 DEF IsDue, ToCount
      <4> QED BY <2>5, <2>7, <2>8, <3>2, <4>1 DEF IsDue, CountTypes
    <3>3. CASE IsCounted(p)
      <4>1. m = n - 1 /\ made' = made BY <2>5, <2>6, <3>3 DEF IsCounted, ToCount
      <4>2. total[p] <= made - n /\ total[p] \in Int BY <2>7, <2>8 DEF CountTypes
      <4>3. log'.last <= made - m /\ total'[p] <= made - m
        BY <2>5, <2>8, <3>3, <4>1, <4>2 DEF IsCounted, CountTypes
      <4>4. \A q \in Proc : total'[q] <= made - m
        BY <2>5, <2>7, <2>8, <3>3, <4>1, <4>3 DEF IsCounted, CountTypes, Alone
      <4> QED BY <2>5, <2>7, <2>8, <4>1, <4>3, <4>4 DEF CountTypes
    <3> QED BY <2>2, <3>1, <3>2, <3>3
  <2> QED BY <2>3, <2>5, <2>9
<1> QED BY <1>1, <1>2

(* The total never exceeds the visits that were to be logged, for any       *)
(* processes and requests: what a page has shown counts no pending visit,   *)
(* and each pending visit raises it once.                                   *)
THEOREM SiteTotalWithinVisits == Spec => []TotalWithinVisits
<1>1. CountInv => TotalWithinVisits
  <2> SUFFICES ASSUME CountInv PROVE TotalWithinVisits OBVIOUS
  <2>1. Cardinality(Pending) \in Nat BY FS_CardinalityType DEF CountInv
  <2> QED BY <2>1 DEF CountInv, CountTypes, TotalWithinVisits
<1> QED BY <1>1, CountInit, CountKept, PTL DEF Spec

-----------------------------------------------------------------------------
(* The table of a process and the locks of the library.                     *)
One(b, m) == <<[base |-> b, mode |-> m]>>

Tables == {<< >>} \cup {One(b, m) : b \in Base, m \in {"r", "w"}}

(* A process holds the lock of the one entry of its table, and no other.    *)
LockInv ==
    /\ top \in [Proc -> Tables]
    /\ readers \in [Proc -> [Base -> Nat]]
    /\ writer \in [Base -> Proc \cup {"nobody"}]
    /\ \A p \in Proc, b \in Base :
          /\ readers[p][b] = IF top[p] = One(b, "r") THEN 1 ELSE 0
          /\ writer[b] = p <=> top[p] = One(b, "w")

LEMMA OneFacts ==
    /\ \A b, c, m, n : One(b, m) = One(c, n) <=> b = c /\ m = n
    /\ \A b, m : One(b, m) # << >> /\ Tail(One(b, m)) = << >> /\ Head(One(b, m)) = [base |-> b, mode |-> m]
<1> USE DEF One
<1>1. ASSUME NEW b, NEW c, NEW m, NEW n, One(b, m) = One(c, n) PROVE b = c /\ m = n
  <2>1. [base |-> b, mode |-> m] = [base |-> c, mode |-> n] BY <1>1
  <2> QED BY <2>1
<1>2. ASSUME NEW b, NEW m PROVE One(b, m) # << >> /\ Tail(One(b, m)) = << >> /\ Head(One(b, m)) = [base |-> b, mode |-> m]
  OBVIOUS
<1> QED BY <1>1, <1>2

(* An empty table has no database; a table of one is closed by its name.    *)
LEMMA FoundFacts ==
    ASSUME NEW p \in Proc, NEW b
    PROVE  /\ top[p] = << >> => ~Found(p, b)
           /\ \A c, m : top[p] = One(c, m) =>
                 (Found(p, b) <=> b = c) /\ (b = c => dbmFind(p, b) = [base |-> c, mode |-> m])
<1>1. top[p] = << >> => ~Found(p, b) BY DEF Found
<1>2. ASSUME NEW c, NEW m, top[p] = One(c, m)
      PROVE  (Found(p, b) <=> b = c) /\ (b = c => dbmFind(p, b) = [base |-> c, mode |-> m])
  <2>1. DOMAIN top[p] = {1} /\ top[p][1] = [base |-> c, mode |-> m] BY <1>2 DEF One
  <2>2. Found(p, b) <=> b = c BY <2>1 DEF Found
  <2>3. ASSUME b = c PROVE dbmFind(p, b) = [base |-> c, mode |-> m]
    <3>1. \A i \in DOMAIN top[p] : top[p][i].base = b <=> i = 1 BY <2>1, <2>3
    <3>2. (CHOOSE i \in DOMAIN top[p] : top[p][i].base = b) = 1 BY <2>1, <3>1
    <3> QED BY <2>1, <3>2 DEF dbmFind
  <2> QED BY <2>2, <2>3
<1> QED BY <1>1, <1>2

-----------------------------------------------------------------------------
(* What the operations of db.c do to the table of one process.              *)
OthersKeep(p) == \A q \in Proc \ {p} : top'[q] = top[q]

LEMMA TableKept ==
    ASSUME LockInv, NEW p \in Proc, UNCHANGED dbms
    PROVE  LockInv' /\ OthersKeep(p) /\ top'[p] = top[p]
BY DEF LockInv, OthersKeep, dbms

LEMMA TableOpened ==
    ASSUME LockInv, NEW p \in Proc, NEW b \in Base, NEW mode \in {"r", "w", "c", "n"}, NEW there,
           top[p] = << >>, _dbmOpen(p, b, mode, there)
    PROVE  LockInv' /\ OthersKeep(p) /\ \E m \in {"r", "w"} : top'[p] = One(b, m)
<1> DEFINE m == LockMode(mode)
<1>1. m \in {"r", "w"} /\ (m = "r" <=> mode = "r") BY DEF LockMode
<1>2. top' = [top EXCEPT ![p] = One(b, m)] /\ writer[b] = "nobody" /\ Lock(p, b, mode)
  BY DEF _dbmOpen, dbmPush, Granted, One
<1>3. top'[p] = One(b, m) /\ OthersKeep(p) BY <1>2 DEF LockInv, OthersKeep
<1>4. top' \in [Proc -> Tables] BY <1>1, <1>2 DEF LockInv, Tables
<1> HIDE DEF m
<1>5. CASE mode = "r"
  <2>1. readers' = [readers EXCEPT ![p][b] = @ + 1] /\ writer' = writer BY <1>2, <1>5 DEF Lock
  <2>2. readers' \in [Proc -> [Base -> Nat]] BY <2>1 DEF LockInv
  <2>3. ASSUME NEW q \in Proc, NEW c \in Base
        PROVE  /\ readers'[q][c] = IF top'[q] = One(c, "r") THEN 1 ELSE 0
               /\ writer'[c] = q <=> top'[q] = One(c, "w")
    <3>1. CASE q = p BY <1>1, <1>3, <1>5, <2>1, <3>1, OneFacts DEF LockInv
    <3>2. CASE q # p BY <1>3, <2>1, <3>2 DEF LockInv, OthersKeep
    <3> QED BY <3>1, <3>2
  <2> QED BY <1>1, <1>3, <1>4, <2>1, <2>2, <2>3 DEF LockInv
<1>6. CASE mode # "r"
  <2>1. writer' = [writer EXCEPT ![b] = p] /\ readers' = readers BY <1>2, <1>6 DEF Lock
  <2>2. writer' \in [Base -> Proc \cup {"nobody"}] BY <2>1 DEF LockInv
  <2>3. ASSUME NEW q \in Proc, NEW c \in Base
        PROVE  /\ readers'[q][c] = IF top'[q] = One(c, "r") THEN 1 ELSE 0
               /\ writer'[c] = q <=> top'[q] = One(c, "w")
    <3>1. CASE q = p BY <1>1, <1>3, <1>6, <2>1, <3>1, OneFacts DEF LockInv
    <3>2. CASE q # p BY <1>2, <1>3, <2>1, <3>2, DbmAssumption DEF LockInv, OthersKeep
    <3> QED BY <3>1, <3>2
  <2> QED BY <1>1, <1>3, <1>4, <2>1, <2>2, <2>3 DEF LockInv
<1> QED BY <1>5, <1>6

LEMMA TableUnlocked ==
    ASSUME LockInv, NEW p \in Proc, NEW b \in Base, NEW m \in {"r", "w"}, top[p] = One(b, m),
           Unlock(p, [base |-> b, mode |-> m]), top' = [top EXCEPT ![p] = << >>]
    PROVE  LockInv' /\ OthersKeep(p) /\ top'[p] = << >>
<1>1. top'[p] = << >> /\ OthersKeep(p) /\ top' \in [Proc -> Tables] BY DEF LockInv, OthersKeep, Tables
<1>2. CASE m = "r"
  <2>1. readers' = [readers EXCEPT ![p][b] = @ - 1] /\ writer' = writer BY <1>2 DEF Unlock
  <2>2. readers[p][b] = 1 BY <1>2 DEF LockInv
  <2>3. readers' \in [Proc -> [Base -> Nat]] BY <2>1, <2>2 DEF LockInv
  <2>4. ASSUME NEW q \in Proc, NEW c \in Base
        PROVE  /\ readers'[q][c] = IF top'[q] = One(c, "r") THEN 1 ELSE 0
               /\ writer'[c] = q <=> top'[q] = One(c, "w")
    <3>1. CASE q = p BY <1>1, <1>2, <2>1, <2>2, <3>1, OneFacts DEF LockInv
    <3>2. CASE q # p BY <1>1, <2>1, <3>2 DEF LockInv, OthersKeep
    <3> QED BY <3>1, <3>2
  <2> QED BY <1>1, <2>1, <2>3, <2>4 DEF LockInv
<1>3. CASE m = "w"
  <2>1. writer' = [writer EXCEPT ![b] = "nobody"] /\ readers' = readers BY <1>3 DEF Unlock
  <2>2. writer[b] = p BY <1>3 DEF LockInv
  <2>3. writer' \in [Base -> Proc \cup {"nobody"}] BY <2>1 DEF LockInv
  <2>4. ASSUME NEW q \in Proc, NEW c \in Base
        PROVE  /\ readers'[q][c] = IF top'[q] = One(c, "r") THEN 1 ELSE 0
               /\ writer'[c] = q <=> top'[q] = One(c, "w")
    <3>1. CASE q = p BY <1>1, <1>3, <2>1, <2>2, <3>1, OneFacts, DbmAssumption DEF LockInv
    <3>2. CASE q # p BY <1>1, <2>1, <2>2, <3>2, DbmAssumption DEF LockInv, OthersKeep
    <3> QED BY <3>1, <3>2
  <2> QED BY <1>1, <2>1, <2>3, <2>4 DEF LockInv
<1> QED BY <1>2, <1>3

LEMMA TableClosed ==
    ASSUME LockInv, NEW p \in Proc, NEW b \in Base, NEW m \in {"r", "w"}, top[p] = One(b, m), _dbmClose(p, b)
    PROVE  LockInv' /\ OthersKeep(p) /\ top'[p] = << >>
<1>1. Unlock(p, [base |-> b, mode |-> m]) /\ top' = [top EXCEPT ![p] = Tail(@)]
  BY FoundFacts DEF _dbmClose
<1>2. Tail(One(b, m)) = << >> BY OneFacts
<1>3. top' = [top EXCEPT ![p] = Tail(top[p])] BY <1>1
<1>4. top' = [top EXCEPT ![p] = << >>] BY <1>2, <1>3
<1> QED BY <1>1, <1>4, TableUnlocked

LEMMA TableNotClosed ==
    ASSUME LockInv, NEW p \in Proc, NEW b \in Base, top[p] = << >>, _dbmClose(p, b)
    PROVE  LockInv' /\ OthersKeep(p) /\ top'[p] = << >>
<1>1. UNCHANGED dbms BY FoundFacts DEF _dbmClose
<1> QED BY <1>1, TableKept

LEMMA TableAllClosed ==
    ASSUME LockInv, NEW p \in Proc, dbmCloseAll(p)
    PROVE  LockInv' /\ OthersKeep(p) /\ top'[p] = << >>
<1>1. CASE top[p] = << >>
  <2>1. UNCHANGED dbms BY <1>1 DEF dbmCloseAll
  <2> QED BY <1>1, <2>1, TableKept
<1>2. CASE top[p] # << >>
  <2>1. PICK b \in Base, m \in {"r", "w"} : top[p] = One(b, m) BY <1>2 DEF LockInv, Tables
  <2>2. Unlock(p, [base |-> b, mode |-> m]) /\ top' = [top EXCEPT ![p] = << >>]
    BY <1>2, <2>1, OneFacts DEF dbmCloseAll
  <2> QED BY <2>1, <2>2, TableUnlocked
<1> QED BY <1>1, <1>2

LEMMA TableForgotten ==
    ASSUME LockInv, NEW p \in Proc, top[p] = << >>, init_db(p)
    PROVE  LockInv' /\ OthersKeep(p) /\ top'[p] = << >>
<1>1. UNCHANGED dbms BY DEF LockInv, init_db, dbms
<1> QED BY <1>1, TableKept

LEMMA TableEnded ==
    ASSUME LockInv, NEW p \in Proc, ProcessEnds(p)
    PROVE  LockInv' /\ OthersKeep(p) /\ top'[p] = << >>
<1>1. top'[p] = << >> /\ OthersKeep(p) /\ top' \in [Proc -> Tables]
  BY DEF LockInv, OthersKeep, Tables, ProcessEnds
<1>2. readers' \in [Proc -> [Base -> Nat]] /\ writer' \in [Base -> Proc \cup {"nobody"}]
  BY DEF LockInv, ProcessEnds
<1>3. ASSUME NEW q \in Proc, NEW c \in Base
      PROVE  /\ readers'[q][c] = IF top'[q] = One(c, "r") THEN 1 ELSE 0
             /\ writer'[c] = q <=> top'[q] = One(c, "w")
  <2>1. CASE q = p BY <1>1, <2>1, OneFacts, DbmAssumption DEF LockInv, ProcessEnds
  <2>2. CASE q # p BY <1>1, <2>2, DbmAssumption DEF LockInv, OthersKeep, ProcessEnds
  <2> QED BY <2>1, <2>2
<1> QED BY <1>1, <1>2, <1>3 DEF LockInv

-----------------------------------------------------------------------------
(* What a process has open at each place of its request.                    *)
Holding    == {"rules", "showing", "logread", "logentry", "loglast", "logclose", "confinit", "formwrite"}
MayHold(b) == CASE b = "log"  -> {"showing", "logread", "logentry", "loglast", "logclose"}
                [] b = "cfg"  -> {"rules", "confinit", "form", "formwrite"}
                [] b = "data" -> {"page", "close"}

Fit(t, x) == \/ t = << >> /\ x \notin Holding
             \/ \E b \in Base, m \in {"r", "w"} : t = One(b, m) /\ x \in MayHold(b)

TableInv ==
    /\ CountTypes /\ LockInv
    /\ \A p \in Proc : Fit(top[p], pc[p])

LEMMA FitFacts ==
    ASSUME NEW t, NEW x
    PROVE  /\ t = << >> /\ x \notin Holding => Fit(t, x)
           /\ \A b \in Base : x \in MayHold(b) /\ (\E m \in {"r", "w"} : t = One(b, m)) => Fit(t, x)
BY DEF Fit

LEMMA FitAt ==
    ASSUME NEW t, NEW x \in Place, Fit(t, x)
    PROVE  /\ x \notin Holding \cup {"form", "page", "close"} => t = << >>
           /\ x \in {"showing", "logread", "logentry", "loglast", "logclose"} =>
                 \E m \in {"r", "w"} : t = One("log", m)
           /\ x \in {"rules", "confinit", "formwrite"} => \E m \in {"r", "w"} : t = One("cfg", m)
           /\ x = "form" => t = << >> \/ \E m \in {"r", "w"} : t = One("cfg", m)
           /\ x \in {"page", "close"} => t = << >> \/ \E m \in {"r", "w"} : t = One("data", m)
BY SiteAssumption DEF Fit, Holding, MayHold

Steps(p) == LockInv' /\ OthersKeep(p) /\ Fit(top'[p], pc'[p])

LEMMA TableStep ==
    ASSUME TableInv, "left open" \in Avoided, NEW p \in Proc,
           Begins(p, "check") \/ Begins(p, "conf") \/ Works(p) \/ Killed(p)
    PROVE  Steps(p)
<1>0. /\ pc \in [Proc -> Place] /\ pc[p] \in Place /\ LockInv /\ Fit(top[p], pc[p])
      /\ "log" \in Base /\ "cfg" \in Base /\ "data" \in Base
  BY SiteAssumption DEF TableInv, CountTypes
<1>k. ASSUME UNCHANGED dbms, NEW x, Goes(p, x), Fit(top[p], x) PROVE Steps(p)
  BY <1>0, <1>k, TableKept DEF Steps, Goes
<1>o. ASSUME NEW b \in Base, NEW mode \in {"r", "w", "c", "n"}, NEW there, NEW x,
             Opens(p, b, mode, there, x), top[p] = << >>, x \in MayHold(b)
      PROVE  Steps(p)
  <2>1. _dbmOpen(p, b, mode, there) /\ pc'[p] = x BY <1>0, <1>o DEF Opens, Goes
  <2>2. LockInv' /\ OthersKeep(p) /\ \E m \in {"r", "w"} : top'[p] = One(b, m) BY <1>0, <1>o, <2>1, TableOpened
  <2> QED BY <1>o, <2>1, <2>2, FitFacts DEF Steps
<1>r. ASSUME NEW b, NEW mode, NEW there, NEW x, Refused(p, b, mode, there, x), top[p] = << >>, x \notin Holding
      PROVE  Steps(p)
  <2>1. UNCHANGED dbms /\ Goes(p, x) BY <1>r DEF Refused, _dbmOpenFails
  <2>2. Fit(top[p], x) BY <1>r, FitFacts
  <2> QED BY <1>k, <2>1, <2>2
<1>c. ASSUME NEW b \in Base, _dbmClose(p, b), NEW x, pc'[p] = x, x \notin Holding,
             top[p] = << >> \/ \E m \in {"r", "w"} : top[p] = One(b, m)
      PROVE  Steps(p)
  <2>1. LockInv' /\ OthersKeep(p) /\ top'[p] = << >> BY <1>0, <1>c, TableClosed, TableNotClosed
  <2> QED BY <1>c, <2>1, FitFacts DEF Steps
<1> USE DEF At, Goes
<1>1. CASE Begins(p, "check") \/ Begins(p, "conf")
  <2>1. top[p] = << >> /\ init_db(p) /\ pc'[p] \in {"check", "conf"}
    BY <1>0, <1>1, FitAt DEF Begins, Holding
  <2>2. LockInv' /\ OthersKeep(p) /\ top'[p] = << >> BY <1>0, <2>1, TableForgotten
  <2> QED BY <2>1, <2>2, FitFacts DEF Steps, Holding
<1>2. CASE Killed(p)
  <2>1. ProcessEnds(p) /\ pc'[p] = "idle" BY <1>0, <1>2 DEF Killed, Returns
  <2>2. LockInv' /\ OthersKeep(p) /\ top'[p] = << >> BY <1>0, <2>1, TableEnded
  <2> QED BY <2>1, <2>2, FitFacts DEF Steps, Holding
<1>3. CASE Visit(p)
  <2>1. CASE CheckAccess(p)
    <3>1. top[p] = << >> BY <1>0, <2>1, FitAt DEF CheckAccess, Holding
    <3>2. CASE Opens(p, "cfg", "r", cfg.there, "rules") BY <1>0, <1>o, <3>1, <3>2, SiteAssumption DEF MayHold
    <3>3. CASE Refused(p, "cfg", "r", cfg.there, "page") BY <1>r, <3>1, <3>3 DEF Holding
    <3> QED BY <2>1, <3>2, <3>3 DEF CheckAccess
  <2>2. CASE ReadRules(p)
    <3>1. \E m \in {"r", "w"} : top[p] = One("cfg", m) BY <1>0, <2>2, FitAt DEF ReadRules
    <3>2. _dbmClose(p, "cfg") /\ pc'[p] \in {"page", "apply"} BY <1>0, <2>2 DEF ReadRules
    <3> QED BY <1>0, <1>c, <3>1, <3>2 DEF Holding
  <2>3. CASE ApplyRule(p)
    <3>1. top[p] = << >> BY <1>0, <2>3, FitAt DEF ApplyRule, Holding
    <3>2. UNCHANGED dbms /\ pc'[p] \in {"apply", "close"} BY <1>0, <2>3 DEF ApplyRule, Returns
    <3> QED BY <1>0, <3>1, <3>2, TableKept, FitFacts DEF Steps, Holding
  <2>4. CASE Admit(p)
    <3>1. top[p] = << >> BY <1>0, <2>4, FitAt DEF Admit, Holding
    <3>2. UNCHANGED dbms /\ pc'[p] \in {"page", "close"} BY <1>0, <2>4 DEF Admit, Returns
    <3> QED BY <1>0, <3>1, <3>2, TableKept, FitFacts DEF Steps, Holding
  <2>5. CASE GetTotal(p)
    <3>1. ~Found(p, "data") BY <2>5 DEF GetTotal
    <3>0. top[p] = << >> \/ \E m \in {"r", "w"} : top[p] = One("data", m) BY <1>0, <2>5, FitAt DEF GetTotal
    <3>2. top[p] = << >> BY <1>0, <3>0, <3>1, FoundFacts
    <3>3. UNCHANGED dbms /\ Goes(p, "show") BY <2>5 DEF GetTotal
    <3>4. Fit(top[p], "show")
      <4>1. "show" \notin Holding BY DEF Holding
      <4> QED BY <3>2, <4>1, FitFacts
    <3> QED BY <1>k, <3>3, <3>4
  <2>6. CASE ShowOpens(p)
    <3>1. top[p] = << >> BY <1>0, <2>6, FitAt DEF ShowOpens, Holding
    <3>2. CASE Opens(p, "log", "r", log.there, "showing") BY <1>0, <1>o, <3>1, <3>2 DEF MayHold
    <3>3. CASE Refused(p, "log", "r", log.there, "page") BY <1>r, <3>1, <3>3 DEF Holding
    <3> QED BY <2>6, <3>2, <3>3 DEF ShowOpens
  <2>7. CASE Shows(p)
    <3>1. \E m \in {"r", "w"} : top[p] = One("log", m) BY <1>0, <2>7, FitAt DEF Shows
    <3>2. _dbmClose(p, "log") /\ pc'[p] = "page" BY <1>0, <2>7 DEF Shows
    <3> QED BY <1>0, <1>c, <3>1, <3>2 DEF Holding
  <2>8. CASE dbmOpen(p, "r") \/ dbmOpen(p, "c")
    <3>1. ~Found(p, "data") BY <2>8 DEF dbmOpen
    <3>0. top[p] = << >> \/ \E m \in {"r", "w"} : top[p] = One("data", m) BY <1>0, <2>8, FitAt DEF dbmOpen
    <3>2. top[p] = << >> BY <1>0, <3>0, <3>1, FoundFacts
    <3>3. PICK mode \in {"r", "c"} : Opens(p, "data", mode, TRUE, "page") BY <2>8 DEF dbmOpen
    <3>4. "page" \in MayHold("data") BY DEF MayHold
    <3> QED BY <1>0, <1>o, <3>2, <3>3, <3>4
  <2>9. CASE dbmClose(p)
    <3>1. top[p] = << >> \/ \E m \in {"r", "w"} : top[p] = One("data", m) BY <1>0, <2>9, FitAt DEF dbmClose
    <3>2. _dbmClose(p, "data") /\ pc'[p] = "page" BY <2>9 DEF dbmClose
    <3> QED BY <1>0, <1>c, <3>1, <3>2 DEF Holding
  <2>10. CASE EndPage(p)
    <3>1. top[p] = << >> \/ \E m \in {"r", "w"} : top[p] = One("data", m) BY <1>0, <2>10, FitAt DEF EndPage
    <3>2. UNCHANGED dbms BY <2>10 DEF EndPage
    <3>3. CASE Logging[p]
      <4>1. ~Found(p, "data") /\ Goes(p, "log") BY <2>10, <3>3 DEF EndPage
      <4>2. top[p] = << >> BY <3>1, <4>1, FoundFacts
      <4>3. Fit(top[p], "log")
        <5>1. "log" \notin Holding BY DEF Holding
        <5> QED BY <4>2, <5>1, FitFacts
      <4> QED BY <1>k, <3>2, <4>1, <4>3
    <3>4. CASE ~Logging[p]
      <4>1. Goes(p, "close") BY <2>10, <3>4 DEF EndPage
      <4>2. "close" \notin Holding /\ "close" \in MayHold("data") BY DEF Holding, MayHold
      <4>3. CASE top[p] = << >> BY <1>k, <3>2, <4>1, <4>2, <4>3, FitFacts
      <4>4. CASE \E m \in {"r", "w"} : top[p] = One("data", m)
        <5>1. Fit(top[p], "close") BY <1>0, <4>2, <4>4, FitFacts
        <5> QED BY <1>k, <3>2, <4>1, <5>1
      <4> QED BY <3>1, <4>3, <4>4
    <3> QED BY <3>3, <3>4
  <2>11. CASE CloseAll(p)
    <3>1. dbmCloseAll(p) /\ pc'[p] = "idle" BY <1>0, <2>11 DEF CloseAll
    <3>2. LockInv' /\ OthersKeep(p) /\ top'[p] = << >> BY <1>0, <3>1, TableAllClosed
    <3> QED BY <3>1, <3>2, FitFacts DEF Steps, Holding
  <2>12. CASE LogOpens(p)
    <3>1. top[p] = << >> BY <1>0, <2>12, FitAt DEF LogOpens, Holding
    <3>2. CASE Opens(p, "log", "w", log.there, "logread") BY <1>0, <1>o, <3>1, <3>2 DEF MayHold
    <3>3. CASE Refused(p, "log", "w", log.there, "lognew") BY <1>r, <3>1, <3>3 DEF Holding
    <3> QED BY <2>12, <3>2, <3>3 DEF LogOpens
  <2>13. CASE LogCreates(p)
    <3>1. top[p] = << >> BY <1>0, <2>13, FitAt DEF LogCreates, Holding
    <3>2. CASE Opens(p, "log", "n", TRUE, "logread") BY <1>0, <1>o, <3>1, <3>2 DEF MayHold
    <3>3. CASE Refused(p, "log", "n", TRUE, "close") BY <1>r, <3>1, <3>3 DEF Holding
    <3> QED BY <2>13, <3>2, <3>3 DEF LogCreates
  <2>14. CASE LogReads(p) \/ LogInserts(p) \/ LogCounts(p)
    <3>1. \E m \in {"r", "w"} : top[p] = One("log", m)
      BY <1>0, <2>14, FitAt DEF LogReads, LogInserts, LogCounts
    <3>2. UNCHANGED dbms /\ pc'[p] \in {"logentry", "loglast", "logclose"}
      BY <1>0, <2>14 DEF LogReads, LogInserts, LogCounts
    <3>3. pc'[p] \in MayHold("log") BY <3>2 DEF MayHold
    <3> QED BY <1>0, <3>1, <3>2, <3>3, TableKept, FitFacts DEF Steps
  <2>15. CASE LogCloses(p)
    <3>1. \E m \in {"r", "w"} : top[p] = One("log", m) BY <1>0, <2>15, FitAt DEF LogCloses
    <3>2. _dbmClose(p, "log") /\ pc'[p] = "close" BY <1>0, <2>15 DEF LogCloses
    <3> QED BY <1>0, <1>c, <3>1, <3>2 DEF Holding
  <2> QED BY <1>3, <2>1, <2>2, <2>3, <2>4, <2>5, <2>6, <2>7, <2>8, <2>9, <2>10, <2>11, <2>12, <2>13, <2>14, <2>15
          DEF Visit
<1>4. CASE Configures(p)
  <2>0. "form" \in MayHold("cfg") /\ "formwrite" \in MayHold("cfg") /\ "confinit" \in MayHold("cfg")
    BY DEF MayHold
  <2>1. CASE Configuration(p)
    <3>1. top[p] = << >> BY <1>0, <2>1, FitAt DEF Configuration, Holding
    <3>2. CASE Opens(p, "cfg", "r", cfg.there, "form") BY <1>0, <1>o, <2>0, <3>1, <3>2
    <3>3. CASE Refused(p, "cfg", "r", cfg.there, "confnew") BY <1>r, <3>1, <3>3 DEF Holding
    <3> QED BY <2>1, <3>2, <3>3 DEF Configuration
  <2>2. CASE ConfCreates(p)
    <3>1. top[p] = << >> BY <1>0, <2>2, FitAt DEF ConfCreates, Holding
    <3>2. CASE Opens(p, "cfg", "n", TRUE, "confinit") BY <1>0, <1>o, <2>0, <3>1, <3>2
    <3>3. CASE Refused(p, "cfg", "n", TRUE, "idle") BY <1>r, <3>1, <3>3 DEF Holding
    <3> QED BY <2>2, <3>2, <3>3 DEF ConfCreates
  <2>3. CASE ConfInserts(p)
    <3>1. \E m \in {"r", "w"} : top[p] = One("cfg", m) BY <1>0, <2>3, FitAt DEF ConfInserts
    <3>2. _dbmClose(p, "cfg") /\ pc'[p] = "confread" BY <1>0, <2>3 DEF ConfInserts
    <3> QED BY <1>0, <1>c, <3>1, <3>2 DEF Holding
  <2>4. CASE ConfReads(p)
    <3>1. top[p] = << >> BY <1>0, <2>4, FitAt DEF ConfReads, Holding
    <3>2. CASE Opens(p, "cfg", "r", TRUE, "form") BY <1>0, <1>o, <2>0, <3>1, <3>2
    <3>3. CASE Refused(p, "cfg", "r", TRUE, "idle") BY <1>r, <3>1, <3>3 DEF Holding
    <3> QED BY <2>4, <3>2, <3>3 DEF ConfReads
  <2>5. CASE Submits(p)
    <3>1. top[p] = << >> \/ \E m \in {"r", "w"} : top[p] = One("cfg", m) BY <1>0, <2>5, FitAt DEF Submits
    <3>2. _dbmClose(p, "cfg") /\ pc'[p] = "formopen" BY <1>0, <2>5 DEF Submits
    <3> QED BY <1>0, <1>c, <3>1, <3>2 DEF Holding
  <2>6. CASE FormOpens(p)
    <3>1. top[p] = << >> BY <1>0, <2>6, FitAt DEF FormOpens, Holding
    <3>2. CASE Opens(p, "cfg", "w", cfg.there, "formwrite") BY <1>0, <1>o, <2>0, <3>1, <3>2
    <3>3. CASE Refused(p, "cfg", "w", cfg.there, "form") BY <1>r, <3>1, <3>3 DEF Holding
    <3> QED BY <2>6, <3>2, <3>3 DEF FormOpens
  <2>7. CASE FormWrites(p)
    <3>1. \E m \in {"r", "w"} : top[p] = One("cfg", m) BY <1>0, <2>7, FitAt DEF FormWrites
    <3>2. \/ _dbmClose(p, "cfg") /\ pc'[p] = "formread"
          \/ Goes(p, "form") /\ UNCHANGED dbms
      BY <1>0, <2>7 DEF FormWrites
    <3>3. Fit(top[p], "form") BY <1>0, <2>0, <3>1, FitFacts
    <3> QED BY <1>0, <1>c, <1>k, <3>1, <3>2, <3>3 DEF Holding
  <2>8. CASE FormReads(p)
    <3>1. top[p] = << >> BY <1>0, <2>8, FitAt DEF FormReads, Holding
    <3>2. CASE Opens(p, "cfg", "r", TRUE, "form") BY <1>0, <1>o, <2>0, <3>1, <3>2
    <3>3. CASE Refused(p, "cfg", "r", TRUE, "form") BY <1>r, <3>1, <3>3 DEF Holding
    <3> QED BY <2>8, <3>2, <3>3 DEF FormReads
  <2>9. CASE ShowsForms(p)
    <3>1. top[p] = << >> \/ \E m \in {"r", "w"} : top[p] = One("cfg", m) BY <1>0, <2>9, FitAt DEF ShowsForms
    <3>2. pc'[p] = "idle" /\ (_dbmClose(p, "cfg") \/ ProcessEnds(p)) BY <1>0, <2>9 DEF ShowsForms
    <3>3. CASE _dbmClose(p, "cfg") BY <1>0, <1>c, <3>1, <3>2, <3>3 DEF Holding
    <3>4. CASE ProcessEnds(p)
      <4>1. LockInv' /\ OthersKeep(p) /\ top'[p] = << >> BY <1>0, <3>4, TableEnded
      <4> QED BY <3>2, <4>1, FitFacts DEF Steps, Holding
    <3> QED BY <3>2, <3>3, <3>4
  <2> QED BY <1>4, <2>1, <2>2, <2>3, <2>4, <2>5, <2>6, <2>7, <2>8, <2>9 DEF Configures
<1> QED BY <1>1, <1>2, <1>3, <1>4 DEF Works

LEMMA TableInit == Init => TableInv
<1> SUFFICES ASSUME Init PROVE TableInv OBVIOUS
<1>1. CountTypes BY CountInit DEF CountInv
<1>2. LockInv BY OneFacts, DbmAssumption DEF Init, DbmInit, LockInv, Tables
<1>3. \A p \in Proc : top[p] = << >> /\ pc[p] = "idle" BY DEF Init, DbmInit
<1> QED BY <1>1, <1>2, <1>3, FitFacts DEF TableInv, Holding

LEMMA TableInvKept ==
    ASSUME "left open" \in Avoided PROVE TableInv /\ [Next]_vars => TableInv'
<1> SUFFICES ASSUME TableInv, [Next]_vars PROVE TableInv' OBVIOUS
<1>1. CASE UNCHANGED vars
  BY <1>1 DEF vars, own, data, past, dbms, TableInv, CountTypes, LockInv
<1>2. CASE Next
  <2>1. PICK p \in Proc : Begins(p, "check") \/ Begins(p, "conf") \/ Works(p) \/ Killed(p)
    BY <1>2 DEF Next
  <2>2. CountsNothing(p) \/ IsDue(p) \/ IsCounted(p) BY <2>1, CountStep DEF TableInv
  <2>3. CountTypes' /\ Alone(pc, pc', p)
    BY <2>2, CountTypesStep DEF TableInv, CountsNothing, IsDue, IsCounted
  <2>4. Steps(p) BY <2>1, TableStep
  <2>5. ASSUME NEW q \in Proc PROVE Fit(top'[q], pc'[q])
    <3>1. CASE q = p BY <2>4, <3>1 DEF Steps
    <3>2. CASE q # p
      <4>1. top'[q] = top[q] /\ pc'[q] = pc[q]
        BY <2>3, <2>4, <3>2 DEF Steps, OthersKeep, Alone, TableInv, CountTypes
      <4> QED BY <4>1 DEF TableInv
    <3> QED BY <3>1, <3>2
  <2> QED BY <2>3, <2>4, <2>5 DEF TableInv, Steps
<1> QED BY <1>1, <1>2

LEMMA TableAtRest == TableInv => HoldsNoneAtRest
<1> SUFFICES ASSUME TableInv, NEW p \in Proc, pc[p] = "idle", NEW b \in Base PROVE ~Holds(p, b)
  BY DEF HoldsNoneAtRest, HoldsNone, At
<1>1. top[p] = << >> BY FitAt DEF TableInv, Place, Holding
<1>2. top[p] # One(b, "r") /\ top[p] # One(b, "w") BY <1>1, OneFacts
<1> QED BY <1>2 DEF TableInv, LockInv, Holds

(* Where a page has no database open when it opens another one, a process   *)
(* at rest holds no lock, whichever databases it found locked on its way    *)
(* and wherever a request of it was cut short.                              *)
THEOREM SiteHoldsNoneAtRest ==
    ASSUME "left open" \in Avoided PROVE Spec => []HoldsNoneAtRest
<1>1. TableInv /\ [Next]_vars => TableInv' BY TableInvKept
<1> QED BY <1>1, TableInit, TableAtRest, PTL DEF Spec

-----------------------------------------------------------------------------
(* The types of what is neither counted nor locked.                         *)
MoreTypes ==
    /\ part \in [Proc -> 0 .. 4] /\ Logging \in [Proc -> BOOLEAN]
    /\ todo \in [Proc -> Seq(Rule)] /\ allow \in [Proc -> Int]
    /\ log \in [there : BOOLEAN, entries : Nat, last : Int]
    /\ cfg \in [there : BOOLEAN, rules : Policies \cup {none}]
    /\ requests \in 0 .. MaxRequests /\ kills \in 0 .. MaxKills
    /\ before \in [Proc -> Int] /\ alone \in [Proc -> BOOLEAN]
    /\ policy \in [Proc -> Policies \cup {none}]
    /\ \A p \in Proc : pc[p] \in {"formopen", "formwrite"} => part[p] # 0

LEMMA PolicyFacts ==
    /\ Shown \in Policies
    /\ \A q \in Policies \cup {none} : q.rules \in Seq(Rule)
    /\ \A k \in 1 .. 4 : cfg.rules \in Policies \cup {none} => Written(k) \subseteq Policies \cup {none}
<1>1. Shown \in Policies BY SiteAssumption
<1>2. ASSUME NEW q \in Policies \cup {none} PROVE q.rules \in Seq(Rule)
  <2>1. CASE q = none BY <2>1 DEF none
  <2>2. CASE q \in Policies
    <3>1. q \in Policy BY <2>2, SiteAssumption
    <3> QED BY <3>1 DEF Policy
  <2> QED BY <2>1, <2>2
<1>3. ASSUME NEW k \in 1 .. 4, cfg.rules \in Policies \cup {none} PROVE Written(k) \subseteq Policies \cup {none}
  BY <1>1, <1>3 DEF Written, Longer
<1> QED BY <1>1, <1>2, <1>3

LEMMA MoreTypesStep ==
    ASSUME CountTypes, MoreTypes, NEW p \in Proc, Alone(pc, pc', p), Watches(p),
           Begins(p, "check") \/ Begins(p, "conf") \/ Works(p) \/ Killed(p)
    PROVE  MoreTypes'
<1> DEFINE FormPart == \A q \in Proc : pc[q] \in {"formopen", "formwrite"} => part[q] # 0
           Own  == Logging \in [Proc -> BOOLEAN] /\ todo \in [Proc -> Seq(Rule)] /\ allow \in [Proc -> Int]
           Data == /\ log \in [there : BOOLEAN, entries : Nat, last : Int]
                   /\ cfg \in [there : BOOLEAN, rules : Policies \cup {none}]
           Past == /\ requests \in 0 .. MaxRequests /\ kills \in 0 .. MaxKills
                   /\ before \in [Proc -> Int] /\ policy \in [Proc -> Policies \cup {none}]
           Part == part \in [Proc -> 0 .. 4] /\ FormPart
<1>0. Own /\ Data /\ Past /\ Part BY DEF MoreTypes
<1>1. alone' \in [Proc -> BOOLEAN]
  <2>1. \A q \in Proc : alone[q] \in BOOLEAN BY DEF MoreTypes
  <2> QED BY <2>1 DEF Watches, At, UsesLog
<1>2. log.last \in Int /\ MaxRequests \in Nat /\ MaxKills \in Nat BY SiteAssumption DEF CountTypes
<1>n. none \in Policies \cup {none} /\ << >> \in Seq(Rule) OBVIOUS
<1>3. SUFFICES Own' /\ Data' /\ Past' /\ Part' BY <1>1 DEF MoreTypes
<1>u. ASSUME UNCHANGED part, pc'[p] \notin {"formopen", "formwrite"} PROVE Part'
  BY <1>0, <1>u DEF Alone, CountTypes
<1> USE DEF At, Goes, own, data, past
<1>p. pc[p] \in Place /\ pc \in [Proc -> Place] BY DEF CountTypes
<1>4. CASE Begins(p, "check") \/ Begins(p, "conf")
  <2>1. Own' BY <1>0, <1>4 DEF Begins
  <2>2. Data' BY <1>0, <1>4 DEF Begins
  <2>3. Past' BY <1>0, <1>2, <1>4 DEF Begins
  <2>4. Part' BY <1>u, <1>p, <1>4 DEF Begins
  <2> QED BY <2>1, <2>2, <2>3, <2>4
<1>5. CASE Killed(p)
  <2>1. Own' BY <1>0, <1>5 DEF Killed, Returns
  <2>2. Data' BY <1>0, <1>5 DEF Killed
  <2>3. Past' BY <1>0, <1>2, <1>5 DEF Killed, Returns
  <2>4. pc'[p] = "idle" /\ part' = [part EXCEPT ![p] = 0] BY <1>p, <1>5 DEF Killed, Returns
  <2>5. Part' BY <1>0, <2>4 DEF Alone, CountTypes
  <2> QED BY <2>1, <2>2, <2>3, <2>5
<1>6. CASE Visit(p)
  <2>1. UNCHANGED part BY <1>6 DEF Visit, CheckAccess, ReadRules, ApplyRule, Admit, GetTotal, ShowOpens, Shows,
              dbmOpen, dbmClose, EndPage, CloseAll, LogOpens, LogCreates, LogReads, LogInserts, LogCounts, LogCloses
  <2>2. pc'[p] \notin {"formopen", "formwrite"}
    <3>1. CASE CheckAccess(p) \/ ReadRules(p) \/ ApplyRule(p) \/ Admit(p) \/ GetTotal(p) \/ ShowOpens(p) \/ Shows(p)
      BY <1>p, <3>1 DEF CheckAccess, ReadRules, ApplyRule, Admit, GetTotal, ShowOpens, Shows, Opens, Refused, Returns
    <3>2. CASE EndPage(p) BY <1>p, <3>2 DEF EndPage
    <3>3. CASE dbmOpen(p, "r") \/ dbmOpen(p, "c") \/ dbmClose(p) \/ CloseAll(p)
      BY <1>p, <3>3 DEF dbmOpen, dbmClose, CloseAll, Opens
    <3>4. CASE LogOpens(p) \/ LogCreates(p) \/ LogReads(p) \/ LogInserts(p) \/ LogCounts(p) \/ LogCloses(p)
      BY <1>p, <3>4 DEF LogOpens, LogCreates, LogReads, LogInserts, LogCounts, LogCloses, Opens, Refused
    <3> QED BY <1>6, <3>1, <3>2, <3>3, <3>4 DEF Visit
  <2>3. Part' BY <1>u, <2>1, <2>2
  <2>4. Own'
    <3>1. CASE ReadRules(p) BY <1>0, <3>1, PolicyFacts DEF ReadRules
    <3>2. CASE ApplyRule(p)
      <4>1. Tail(todo[p]) \in Seq(Rule) BY <1>0, <3>2 DEF ApplyRule
      <4>2. allow[p] \in Int /\ allow[p] + 1 \in Int /\ allow[p] - 1 \in Int BY <1>0
      <4>3. todo' \in [Proc -> Seq(Rule)] BY <1>0, <1>n, <3>2, <4>1 DEF ApplyRule, Returns
      <4>4. \E n \in {0, allow[p], allow[p] + 1, allow[p] - 1} : allow' = [allow EXCEPT ![p] = n]
        <5>1. allow = [allow EXCEPT ![p] = allow[p]] BY <1>0
        <5> QED BY <3>2, <5>1 DEF ApplyRule, Returns
      <4>5. Logging' \in [Proc -> BOOLEAN] BY <1>0, <3>2 DEF ApplyRule
      <4>6. allow' \in [Proc -> Int] BY <1>0, <4>2, <4>4
      <4> QED BY <4>3, <4>5, <4>6
    <3>3. CASE Admit(p) BY <1>0, <1>n, <3>3 DEF Admit, Returns
    <3>4. CASE ~(ReadRules(p) \/ ApplyRule(p) \/ Admit(p))
      <4>1. UNCHANGED <<Logging, todo, allow>>
        BY <1>6, <3>4 DEF Visit, CheckAccess, GetTotal, ShowOpens, Shows, dbmOpen, dbmClose, EndPage, CloseAll,
              LogOpens, LogCreates, LogReads, LogInserts, LogCounts, LogCloses
      <4> QED BY <1>0, <4>1
    <3> QED BY <3>1, <3>2, <3>3, <3>4
  <2>5. Data'
    <3>1. CASE LogCreates(p)
      <4>1. cfg' = cfg BY <3>1 DEF LogCreates
      <4>2. log' = log \/ log' = [there |-> TRUE, entries |-> 0, last |-> -1] BY <3>1 DEF LogCreates
      <4>3. [there |-> TRUE, entries |-> 0, last |-> -1] \in [there : BOOLEAN, entries : Nat, last : Int] OBVIOUS
      <4>4. log' \in [there : BOOLEAN, entries : Nat, last : Int] BY <1>0, <4>2, <4>3
      <4> QED BY <1>0, <4>1, <4>4
    <3>2. CASE LogInserts(p)
      <4>1. log.entries + 1 \in Nat BY <1>0
      <4> QED BY <1>0, <3>2, <4>1 DEF LogInserts
    <3>3. CASE LogCounts(p)
      <4>1. total[p] + 1 \in Int BY DEF CountTypes
      <4> QED BY <1>0, <3>3, <4>1 DEF LogCounts
    <3>4. CASE ~(LogCreates(p) \/ LogInserts(p) \/ LogCounts(p))
      <4>1. UNCHANGED <<log, cfg>>
        BY <1>6, <3>4 DEF Visit, CheckAccess, ReadRules, ApplyRule, Admit, GetTotal, ShowOpens, Shows, dbmOpen,
              dbmClose, EndPage, CloseAll, LogOpens, LogReads, LogCloses
      <4> QED BY <1>0, <4>1
    <3> QED BY <3>1, <3>2, <3>3, <3>4
  <2>6. Past'
    <3>1. CASE ReadRules(p) BY <1>0, <3>1 DEF ReadRules
    <3>2. CASE ApplyRule(p) BY <1>0, <1>n, <3>2 DEF ApplyRule, Returns
    <3>3. CASE Admit(p) BY <1>0, <1>n, <3>3 DEF Admit, Returns
    <3>4. CASE ~(ReadRules(p) \/ ApplyRule(p) \/ Admit(p))
      <4>1. UNCHANGED <<requests, kills, before, policy>>
        BY <1>6, <3>4 DEF Visit, CheckAccess, GetTotal, ShowOpens, Shows, dbmOpen, dbmClose, EndPage, CloseAll,
              LogOpens, LogCreates, LogReads, LogInserts, LogCounts, LogCloses
      <4> QED BY <1>0, <4>1
    <3> QED BY <3>1, <3>2, <3>3, <3>4
  <2> QED BY <2>3, <2>4, <2>5, <2>6
<1>7. CASE Configures(p)
  <2>1. UNCHANGED <<own, past>>
    BY <1>7 DEF Configures, Configuration, ConfCreates, ConfInserts, ConfReads, Submits, FormOpens, FormWrites,
                FormReads, ShowsForms
  <2>2. Own' /\ Past' BY <1>0, <2>1
  <2>3. Data'
    <3>1. CASE ConfCreates(p)
      <4>1. log' = log BY <3>1 DEF ConfCreates
      <4>2. cfg' = cfg \/ cfg' = [there |-> TRUE, rules |-> none] BY <3>1 DEF ConfCreates
      <4>3. [there |-> TRUE, rules |-> none] \in [there : BOOLEAN, rules : Policies \cup {none}] OBVIOUS
      <4>4. cfg' \in [there : BOOLEAN, rules : Policies \cup {none}] BY <1>0, <4>2, <4>3
      <4> QED BY <1>0, <4>1, <4>4
    <3>2. CASE ConfInserts(p) BY <1>0, <3>2, PolicyFacts DEF ConfInserts
    <3>3. CASE FormWrites(p)
      <4>1. part[p] \in 1 .. 4 BY <1>0, <3>3 DEF FormWrites
      <4>2. Written(part[p]) \subseteq Policies \cup {none} BY <1>0, <4>1, PolicyFacts
      <4>3. cfg' \in {[cfg EXCEPT !.rules = q] : q \in Written(part[p])} \/ cfg' = cfg BY <3>3 DEF FormWrites
      <4>4. log' = log BY <3>3 DEF FormWrites
      <4> QED BY <1>0, <4>2, <4>3, <4>4
    <3>4. CASE ~(ConfCreates(p) \/ ConfInserts(p) \/ FormWrites(p))
      <4>1. UNCHANGED <<log, cfg>>
        BY <1>7, <3>4 DEF Configures, Configuration, ConfReads, Submits, FormOpens, FormReads, ShowsForms
      <4> QED BY <1>0, <4>1
    <3> QED BY <3>1, <3>2, <3>3, <3>4
  <2>4. Part'
    <3>1. CASE Submits(p)
      <4>1. part'[p] \in 1 .. 4 /\ part' \in [Proc -> 0 .. 4] /\ \A q \in Proc \ {p} : part'[q] = part[q]
        BY <1>0, <3>1 DEF Submits
      <4>2. \A q \in Proc \ {p} : pc'[q] = pc[q] BY DEF Alone, CountTypes
      <4>3. part'[p] # 0 BY <4>1
      <4>4. FormPart' BY <1>0, <4>1, <4>2, <4>3
      <4> QED BY <4>1, <4>4
    <3>2. CASE ShowsForms(p)
      <4>1. pc'[p] = "idle" /\ part' = [part EXCEPT ![p] = 0] BY <1>p, <3>2 DEF ShowsForms
      <4>2. \A q \in Proc \ {p} : pc'[q] = pc[q] /\ part'[q] = part[q]
        BY <1>0, <4>1 DEF Alone, CountTypes
      <4>3. part' \in [Proc -> 0 .. 4] BY <1>0, <4>1
      <4> QED BY <1>0, <4>1, <4>2, <4>3
    <3>3. CASE FormOpens(p)
      <4>1. part' = part /\ part[p] # 0 BY <1>0, <3>3 DEF FormOpens
      <4>2. \A q \in Proc \ {p} : pc'[q] = pc[q] BY DEF Alone, CountTypes
      <4> QED BY <1>0, <4>1, <4>2
    <3>4. CASE ~(Submits(p) \/ ShowsForms(p) \/ FormOpens(p))
      <4>1. UNCHANGED part BY <1>7, <3>4 DEF Configures, Configuration, ConfCreates, ConfInserts, ConfReads, FormWrites, FormReads
      <4>2. pc'[p] \notin {"formopen", "formwrite"}
        BY <1>p, <1>7, <3>4 DEF Configures, Configuration, ConfCreates, ConfInserts, ConfReads, FormWrites, FormReads,
                          Opens, Refused
      <4> QED BY <1>u, <4>1, <4>2
    <3> QED BY <3>1, <3>2, <3>3, <3>4
  <2> QED BY <2>2, <2>3, <2>4
<1> QED BY <1>4, <1>5, <1>6, <1>7 DEF Works

LEMMA TypesInit == Init => MoreTypes
<1> SUFFICES ASSUME Init PROVE MoreTypes OBVIOUS
<1>1. [there |-> FALSE, entries |-> 0, last |-> 0] \in [there : BOOLEAN, entries : Nat, last : Int] OBVIOUS
<1>2. [there |-> FALSE, rules |-> none] \in [there : BOOLEAN, rules : Policies \cup {none}] OBVIOUS
<1>3. MaxRequests \in Nat /\ MaxKills \in Nat BY SiteAssumption
<1>5. << >> \in Seq(Rule) OBVIOUS
<1>4. \A p \in Proc : pc[p] = "idle" BY DEF Init
<1> QED BY <1>1, <1>2, <1>3, <1>4, <1>5 DEF Init, MoreTypes

LEMMA TypesKept ==
    ASSUME "left open" \in Avoided PROVE TableInv /\ MoreTypes /\ [Next]_vars => MoreTypes'
<1> SUFFICES ASSUME TableInv, MoreTypes, [Next]_vars PROVE MoreTypes' OBVIOUS
<1>1. CASE UNCHANGED vars
  BY <1>1 DEF vars, own, data, past, MoreTypes
<1>2. CASE Next
  <2>1. PICK p \in Proc : (Begins(p, "check") \/ Begins(p, "conf") \/ Works(p) \/ Killed(p)) /\ Watches(p)
    BY <1>2 DEF Next
  <2>2. CountTypes BY DEF TableInv
  <2>3. CountsNothing(p) \/ IsDue(p) \/ IsCounted(p) BY <2>1, <2>2, CountStep
  <2>4. Alone(pc, pc', p) BY <2>3 DEF CountsNothing, IsDue, IsCounted
  <2> QED BY <2>1, <2>2, <2>4, MoreTypesStep
<1> QED BY <1>1, <1>2

LEMMA TypesOfTables == TableInv /\ MoreTypes => TypeOK
<1> SUFFICES ASSUME TableInv, MoreTypes PROVE TypeOK OBVIOUS
<1>1. Tables \subseteq Seq(Entry)
  <2>1. << >> \in Seq(Entry) OBVIOUS
  <2>2. ASSUME NEW b \in Base, NEW m \in {"r", "w"} PROVE One(b, m) \in Seq(Entry)
    <3>1. [base |-> b, mode |-> m] \in Entry BY DEF Entry
    <3> QED BY <3>1 DEF One
  <2>3. ASSUME NEW t \in Tables, t # << >> PROVE t \in Seq(Entry)
    <3>1. PICK b \in Base, m \in {"r", "w"} : t = One(b, m) BY <2>3 DEF Tables
    <3> QED BY <2>2, <3>1
  <2> QED BY <2>1, <2>3
<1>2. DbmTypeOK BY <1>1 DEF TableInv, LockInv, DbmTypeOK
<1> QED BY <1>2 DEF TypeOK, TableInv, CountTypes, MoreTypes

(* Type correctness, where a page has no database open when it opens        *)
(* another: no lock is given back that is not held.                         *)
THEOREM SiteTypeOK ==
    ASSUME "left open" \in Avoided PROVE Spec => []TypeOK
<1>1. TableInv /\ [Next]_vars => TableInv' BY TableInvKept
<1>2. TableInv /\ MoreTypes /\ [Next]_vars => MoreTypes' BY TypesKept
<1> QED BY <1>1, <1>2, TableInit, TypesInit, TypesOfTables, PTL DEF Spec

-----------------------------------------------------------------------------
(* A request that is alone at the log: where it stands, what it has read.   *)
LogPlaces == AtLog \cup {"show", "showing"}

Quiet(p) ==
    /\ \A q \in Proc \ {p} : pc[q] \notin LogPlaces
    /\ pc[p] \notin {"logread", "logentry", "loglast", "logclose", "close"} =>
          log.last = before[p] /\ total[p] \in {-1, before[p]}
    /\ pc[p] = "lognew" => ~log.there
    /\ pc[p] = "logread" =>
          \/ log.last = before[p] /\ total[p] \in {-1, before[p]}
          \/ before[p] = 0 /\ total[p] = 0
    /\ pc[p] \in {"logentry", "loglast"} => total[p] = before[p]

LogThere ==
    /\ \A p \in Proc : pc[p] \in {"logread", "logentry", "loglast"} => log.there
    /\ ~log.there => log.last = 0

QuietInv ==
    /\ TableInv /\ MoreTypes /\ LogThere
    /\ \A p \in Proc : pc[p] # "idle" /\ alone[p] => Quiet(p)

Moved(p) == Begins(p, "check") \/ Begins(p, "conf") \/ Works(p) \/ Killed(p)

(* The process of a request that is alone finds the log unlocked.           *)
LEMMA LogUnlocked ==
    ASSUME TableInv, NEW p \in Proc, pc[p] \in {"show", "log", "lognew"},
           \A q \in Proc \ {p} : pc[q] \notin LogPlaces
    PROVE  writer["log"] = "nobody" /\ \A q \in Proc : readers[q]["log"] = 0
<1>0. "log" \in Base BY SiteAssumption
<1>1. ASSUME NEW q \in Proc, NEW m \in {"r", "w"} PROVE top[q] # One("log", m)
  <2>1. CASE q = p
    <3>1. top[p] = << >> BY FitAt DEF TableInv, CountTypes, Holding
    <3> QED BY <2>1, <3>1, OneFacts
  <2>2. CASE q # p
    <3>1. SUFFICES ASSUME top[q] = One("log", m) PROVE FALSE OBVIOUS
    <3>2. Fit(top[q], pc[q]) BY DEF TableInv
    <3>3. pc[q] \in MayHold("log") BY <3>1, <3>2, OneFacts DEF Fit
    <3> QED BY <2>2, <3>3 DEF MayHold, LogPlaces, AtLog
  <2> QED BY <2>1, <2>2
<1>2. \A q \in Proc : readers[q]["log"] = 0 /\ writer["log"] # q BY <1>0, <1>1 DEF TableInv, LockInv
<1>3. writer["log"] \in Proc \cup {"nobody"} BY <1>0 DEF TableInv, LockInv
<1> QED BY <1>2, <1>3

(* What a step leaves alone: the log, but in Log, and what belongs to the   *)
(* other processes.                                                        *)
LEMMA LogChanges ==
    ASSUME NEW p \in Proc, Moved(p)
    PROVE  /\ log' = log \/ pc[p] \in {"lognew", "logentry", "loglast"}
           /\ before' = before \/ before' = [before EXCEPT ![p] = log.last]
<1> USE DEF At, data, past
<1>1. CASE Begins(p, "check") \/ Begins(p, "conf") BY <1>1 DEF Begins
<1>2. CASE Killed(p) BY <1>2 DEF Killed
<1>3. CASE Visit(p)
  BY <1>3 DEF Visit, CheckAccess, ReadRules, ApplyRule, Admit, GetTotal, ShowOpens, Shows,
              dbmOpen, dbmClose, EndPage, CloseAll, LogOpens, LogCreates, LogReads, LogInserts, LogCounts, LogCloses
<1>4. CASE Configures(p)
  BY <1>4 DEF Configures, Configuration, ConfCreates, ConfInserts, ConfReads, Submits, FormOpens, FormWrites,
              FormReads, ShowsForms
<1> QED BY <1>1, <1>2, <1>3, <1>4 DEF Moved, Works

LEMMA LogThereKept ==
    ASSUME QuietInv, NEW p \in Proc, Moved(p), Alone(pc, pc', p)
    PROVE  LogThere'
<1> USE DEF At, Goes, own, data, past
<1>0. pc[p] \in Place /\ pc \in [Proc -> Place] /\ \A q \in Proc \ {p} : pc'[q] = pc[q]
  BY DEF QuietInv, TableInv, CountTypes, Alone
<1>1. LogThere BY DEF QuietInv
<1>2. CASE LogOpens(p)
  <2>1. log' = log BY <1>2 DEF LogOpens
  <2>2. pc'[p] = "logread" => log.there
    BY <1>0, <1>2 DEF LogOpens, Opens, Refused, _dbmOpen, Granted
  <2>3. pc'[p] \in {"logread", "lognew"} BY <1>0, <1>2 DEF LogOpens, Opens, Refused
  <2> QED BY <1>0, <1>1, <2>1, <2>2, <2>3 DEF LogThere
<1>3. CASE LogCreates(p)
  <2>1. \/ log' = [there |-> TRUE, entries |-> 0, last |-> -1]
        \/ log' = log /\ pc'[p] = "close"
    BY <1>0, <1>3 DEF LogCreates, Refused
  <2>2. CASE log' = [there |-> TRUE, entries |-> 0, last |-> -1] BY <2>2 DEF LogThere
  <2>3. CASE log' = log /\ pc'[p] = "close" BY <1>0, <1>1, <2>3 DEF LogThere
  <2> QED BY <2>1, <2>2, <2>3
<1>4. CASE LogReads(p) \/ LogInserts(p) \/ LogCounts(p)
  <2>1. log.there BY <1>1, <1>4 DEF LogReads, LogInserts, LogCounts, LogThere
  <2>2. log'.there = log.there BY <1>4 DEF LogReads, LogInserts, LogCounts, QuietInv, MoreTypes
  <2> QED BY <2>1, <2>2 DEF LogThere
<1>5. CASE ~(LogOpens(p) \/ LogCreates(p) \/ LogReads(p) \/ LogInserts(p) \/ LogCounts(p))
  <2>1. pc'[p] \notin {"logread", "logentry", "loglast"}
    <3>1. CASE Begins(p, "check") \/ Begins(p, "conf") \/ Killed(p)
      BY <1>0, <3>1 DEF Begins, Killed, Returns
    <3>2. CASE CheckAccess(p) \/ ReadRules(p) \/ ApplyRule(p) \/ Admit(p) \/ GetTotal(p) \/ ShowOpens(p) \/ Shows(p)
      BY <1>0, <3>2 DEF CheckAccess, ReadRules, ApplyRule, Admit, GetTotal, ShowOpens, Shows, Opens, Refused, Returns
    <3>3. CASE EndPage(p) BY <1>0, <3>3 DEF EndPage
    <3>4. CASE dbmOpen(p, "r") \/ dbmOpen(p, "c") \/ dbmClose(p) \/ CloseAll(p) \/ LogCloses(p)
      BY <1>0, <3>4 DEF dbmOpen, dbmClose, CloseAll, LogCloses, Opens
    <3>5. CASE Configures(p)
      BY <1>0, <3>5 DEF Configures, Configuration, ConfCreates, ConfInserts, ConfReads, Submits, FormOpens,
                        FormWrites, FormReads, ShowsForms, Opens, Refused
    <3> QED BY <1>5, <3>1, <3>2, <3>3, <3>4, <3>5 DEF Moved, Works, Visit
  <2>2. log' = log
    BY <1>5 DEF Moved, Works, Begins, Killed, Visit, CheckAccess, ReadRules, ApplyRule, Admit, GetTotal, ShowOpens,
                Shows, dbmOpen, dbmClose, EndPage, CloseAll, LogCloses, Configures, Configuration, ConfCreates,
                ConfInserts, ConfReads, Submits, FormOpens, FormWrites, FormReads, ShowsForms
  <2> QED BY <1>0, <1>1, <2>1, <2>2 DEF LogThere
<1> QED BY <1>2, <1>3, <1>4, <1>5

(* The request that moves stays quiet.                                     *)
LEMMA QuietMover ==
    ASSUME QuietInv, NEW p \in Proc, Moved(p), Alone(pc, pc', p), Watches(p), pc'[p] # "idle", alone'[p]
    PROVE  Quiet(p)'
<1> USE DEF At, Goes, own, data, past
<1>0. /\ pc[p] \in Place /\ pc \in [Proc -> Place] /\ \A q \in Proc \ {p} : pc'[q] = pc[q]
      /\ total \in [Proc -> Int] /\ before \in [Proc -> Int] /\ log.last \in Int /\ LogThere
  BY DEF QuietInv, TableInv, CountTypes, MoreTypes, Alone
<1>1. CASE pc[p] = "idle"
  <2>1. Begins(p, "check") \/ Begins(p, "conf")
    BY <1>1 DEF Moved, Works, Killed, Visit, CheckAccess, ReadRules, ApplyRule, Admit, GetTotal, ShowOpens,
                Shows, dbmOpen, dbmClose, EndPage, CloseAll, LogOpens, LogCreates, LogReads, LogInserts, LogCounts,
                LogCloses, Configures, Configuration, ConfCreates, ConfInserts, ConfReads, Submits, FormOpens,
                FormWrites, FormReads, ShowsForms
  <2>2. pc'[p] \in {"check", "conf"} /\ total'[p] = -1 /\ before'[p] = log.last /\ log' = log
    BY <1>0, <2>1 DEF Begins
  <2>3. \A q \in Proc \ {p} : ~UsesLog(q) BY <1>1 DEF Watches
  <2>4. \A q \in Proc \ {p} : pc'[q] \notin LogPlaces BY <2>3 DEF UsesLog, LogPlaces
  <2> QED BY <2>2, <2>4 DEF Quiet
<1>2. CASE pc[p] # "idle"
  <2>1. alone[p] BY <1>2 DEF Watches, QuietInv, MoreTypes
  <2>2. Quiet(p) BY <1>2, <2>1 DEF QuietInv
  <2>3. \A q \in Proc \ {p} : pc'[q] \notin LogPlaces BY <1>0, <2>2 DEF Quiet
  <2>4. ASSUME UNCHANGED <<log, total, before>>,
               pc[p] \notin {"logread", "logentry", "loglast", "logclose", "close"},
               pc'[p] \notin {"lognew", "logread", "logentry", "loglast"}
        PROVE  Quiet(p)'
    BY <2>2, <2>3, <2>4 DEF Quiet
  <2>5. ASSUME pc'[p] \in {"logclose", "close"} PROVE Quiet(p)' BY <2>3, <2>5 DEF Quiet
  <2>6. ASSUME log'.last = before[p], total'[p] \in {-1, before[p]}, before' = before,
               pc'[p] \notin {"lognew", "logread", "logentry", "loglast"}
        PROVE  Quiet(p)'
    BY <2>3, <2>6 DEF Quiet
  <2>7. CASE ShowOpens(p)
    <3>1. before' = before /\ log' = log /\ log.last = before[p] /\ total[p] \in {-1, before[p]}
      BY <2>2, <2>7 DEF ShowOpens, Quiet
    <3>2. CASE Opens(p, "log", "r", log.there, "showing") /\ total' = total
      BY <1>0, <2>6, <3>1, <3>2 DEF Opens
    <3>3. CASE Refused(p, "log", "r", log.there, "page") /\ total' = [total EXCEPT ![p] = 0]
      <4>1. writer["log"] = "nobody" BY <2>2, <2>7, LogUnlocked DEF ShowOpens, Quiet, QuietInv
      <4>2. ~log.there BY <3>3, <4>1 DEF Refused, _dbmOpenFails, Granted
      <4>3. before[p] = 0 /\ total'[p] = 0 BY <1>0, <3>1, <3>3, <4>2 DEF LogThere
      <4>4. pc'[p] = "page" BY <1>0, <3>3 DEF Refused
      <4> QED BY <2>6, <3>1, <4>3, <4>4
    <3> QED BY <2>7, <3>2, <3>3 DEF ShowOpens
  <2>8. CASE Shows(p)
    <3>1. before' = before /\ log' = log /\ log.last = before[p] /\ pc'[p] = "page" /\ total'[p] = log.last
      BY <1>0, <2>2, <2>8 DEF Shows, Quiet, loadlastinfo
    <3> QED BY <2>6, <3>1
  <2>9. CASE LogOpens(p)
    <3>1. /\ before' = before /\ log' = log /\ total' = total
          /\ log.last = before[p] /\ total[p] \in {-1, before[p]}
      BY <2>2, <2>9 DEF LogOpens, Quiet
    <3>2. CASE Opens(p, "log", "w", log.there, "logread")
      <4>1. pc'[p] = "logread" BY <1>0, <3>2 DEF Opens
      <4> QED BY <2>3, <3>1, <4>1 DEF Quiet
    <3>3. CASE Refused(p, "log", "w", log.there, "lognew")
      <4>1. writer["log"] = "nobody" /\ \A q \in Proc : readers[q]["log"] = 0
        BY <2>2, <2>9, LogUnlocked DEF LogOpens, Quiet, QuietInv
      <4>2. ~log.there BY <3>3, <4>1 DEF Refused, _dbmOpenFails, Granted
      <4>3. pc'[p] = "lognew" BY <1>0, <3>3 DEF Refused
      <4> QED BY <2>3, <3>1, <4>2, <4>3 DEF Quiet
    <3> QED BY <2>9, <3>2, <3>3 DEF LogOpens
  <2>10. CASE LogCreates(p)
    <3>1. before[p] = 0 BY <1>0, <2>2, <2>10 DEF LogCreates, Quiet, LogThere
    <3>2. CASE pc'[p] = "close" BY <2>5, <3>2
    <3>3. CASE pc'[p] = "logread" /\ total' = [total EXCEPT ![p] = 0]
      <4>1. total'[p] = 0 /\ before'[p] = 0 BY <1>0, <2>10, <3>1, <3>3 DEF LogCreates
      <4> QED BY <2>3, <3>3, <4>1 DEF Quiet
    <3> QED BY <1>0, <2>10, <3>2, <3>3 DEF LogCreates, Opens, Refused
  <2>11. CASE LogReads(p)
    <3>1. pc[p] = "logread" /\ pc'[p] = "logentry" /\ before' = before BY <1>0, <2>11 DEF LogReads
    <3>2. total'[p] = before[p]
      <4>1. CASE total[p] < 0
        <5>1. total'[p] = log.last BY <1>0, <2>11, <4>1 DEF LogReads, loadlastinfo
        <5>2. total[p] # 0 BY <1>0, <4>1
        <5> QED BY <2>2, <3>1, <5>1, <5>2 DEF Quiet
      <4>2. CASE ~(total[p] < 0)
        <5>1. total' = total BY <2>11, <4>2 DEF LogReads
        <5>2. total[p] # -1 BY <1>0, <4>2
        <5> QED BY <2>2, <3>1, <5>1, <5>2 DEF Quiet
      <4> QED BY <4>1, <4>2
    <3> QED BY <2>3, <3>1, <3>2 DEF Quiet
  <2>12. CASE LogInserts(p)
    <3>1. pc[p] = "logentry" /\ pc'[p] = "loglast" /\ before' = before /\ total' = total
      BY <1>0, <2>12 DEF LogInserts
    <3> QED BY <2>2, <2>3, <3>1 DEF Quiet
  <2>13. CASE LogCounts(p) \/ LogCloses(p)
    <3>1. pc'[p] \in {"logclose", "close"} BY <1>0, <2>13 DEF LogCounts, LogCloses
    <3> QED BY <2>5, <3>1
  <2>14. CASE \/ CheckAccess(p) \/ ReadRules(p) \/ ApplyRule(p) \/ Admit(p) \/ GetTotal(p) \/ EndPage(p)
              \/ dbmOpen(p, "r") \/ dbmOpen(p, "c") \/ dbmClose(p) \/ Configures(p)
    <3>1. UNCHANGED <<log, total, before>>
      BY <2>14 DEF CheckAccess, ReadRules, ApplyRule, Admit, GetTotal, EndPage, dbmOpen, dbmClose, Configures,
                   Configuration, ConfCreates, ConfInserts, ConfReads, Submits, FormOpens, FormWrites, FormReads,
                   ShowsForms
    <3>2. pc[p] \notin {"logread", "logentry", "loglast", "logclose", "close"}
      BY <2>14 DEF CheckAccess, ReadRules, ApplyRule, Admit, GetTotal, EndPage, dbmOpen, dbmClose, Configures,
                   Configuration, ConfCreates, ConfInserts, ConfReads, Submits, FormOpens, FormWrites, FormReads,
                   ShowsForms
    <3>3. pc'[p] \notin {"lognew", "logread", "logentry", "loglast"}
      <4>1. CASE CheckAccess(p) \/ ReadRules(p) \/ ApplyRule(p) \/ Admit(p) \/ GetTotal(p)
        BY <1>0, <4>1 DEF CheckAccess, ReadRules, ApplyRule, Admit, GetTotal, Opens, Refused, Returns
      <4>2. CASE EndPage(p) BY <1>0, <4>2 DEF EndPage
      <4>3. CASE dbmOpen(p, "r") \/ dbmOpen(p, "c") \/ dbmClose(p)
        BY <1>0, <4>3 DEF dbmOpen, dbmClose, Opens
      <4>4. CASE Configures(p)
        BY <1>0, <4>4 DEF Configures, Configuration, ConfCreates, ConfInserts, ConfReads, Submits, FormOpens,
                          FormWrites, FormReads, ShowsForms, Opens, Refused
      <4> QED BY <2>14, <4>1, <4>2, <4>3, <4>4
    <3> QED BY <2>4, <3>1, <3>2, <3>3
  <2>15. CASE Begins(p, "check") \/ Begins(p, "conf") BY <1>2, <2>15 DEF Begins
  <2>16. CASE CloseAll(p) \/ Killed(p)
    <3>1. pc'[p] = "idle" BY <1>0, <2>16 DEF CloseAll, Killed, Returns
    <3> QED BY <3>1
  <2> QED BY <2>7, <2>8, <2>9, <2>10, <2>11, <2>12, <2>13, <2>14, <2>15, <2>16 DEF Moved, Works, Visit
<1> QED BY <1>1, <1>2

(* A request that is alone at the log stays quiet while others move.        *)
LEMMA QuietOther ==
    ASSUME QuietInv, NEW p \in Proc, Moved(p), Alone(pc, pc', p), Alone(total, total', p), Watches(p),
           NEW q \in Proc, q # p, pc'[q] # "idle", alone'[q]
    PROVE  Quiet(q)'
<1>0. /\ pc \in [Proc -> Place] /\ \A r \in Proc \ {p} : pc'[r] = pc[r]
      /\ total \in [Proc -> Int] /\ before \in [Proc -> Int]
  BY DEF QuietInv, TableInv, CountTypes, MoreTypes, Alone
<1>1. alone[q] /\ ~UsesLog(p) BY DEF Watches, QuietInv, MoreTypes
<1>2. pc[p] \notin LogPlaces /\ pc'[p] \notin LogPlaces BY <1>1 DEF UsesLog, LogPlaces
<1>3. Quiet(q) BY <1>0, <1>1 DEF QuietInv
<1>4. \A r \in Proc \ {q} : pc'[r] \notin LogPlaces BY <1>0, <1>2, <1>3 DEF Quiet
<1>5. log' = log /\ before'[q] = before[q] BY <1>0, <1>2, LogChanges DEF LogPlaces, AtLog
<1>6. total'[q] = total[q] /\ pc'[q] = pc[q] BY <1>0 DEF Alone
<1> QED BY <1>3, <1>4, <1>5, <1>6 DEF Quiet

LEMMA QuietInit == Init => QuietInv
<1> SUFFICES ASSUME Init PROVE QuietInv OBVIOUS
<1>1. TableInv /\ MoreTypes BY TableInit, TypesInit
<1>2. \A p \in Proc : pc[p] = "idle" BY DEF Init
<1>3. log.last = 0 BY DEF Init
<1> QED BY <1>1, <1>2, <1>3 DEF QuietInv, LogThere

LEMMA QuietKept ==
    ASSUME "left open" \in Avoided PROVE QuietInv /\ [Next]_vars => QuietInv'
<1> SUFFICES ASSUME QuietInv, [Next]_vars PROVE QuietInv' OBVIOUS
<1>1. TableInv' /\ MoreTypes' BY TableInvKept, TypesKept DEF QuietInv
<1>2. CASE UNCHANGED vars
  <2>1. UNCHANGED <<pc, total, log, before, alone>> BY <1>2 DEF vars, own, data, past
  <2>2. LogThere' BY <2>1 DEF QuietInv, LogThere
  <2>3. \A p \in Proc : pc'[p] # "idle" /\ alone'[p] => Quiet(p)' BY <2>1 DEF QuietInv, Quiet
  <2> QED BY <1>1, <2>2, <2>3 DEF QuietInv
<1>3. CASE Next
  <2>1. PICK p \in Proc : Moved(p) /\ Watches(p) BY <1>3 DEF Next, Moved
  <2>2. CountTypes BY DEF QuietInv, TableInv
  <2>3. CountsNothing(p) \/ IsDue(p) \/ IsCounted(p) BY <2>1, <2>2, CountStep DEF Moved
  <2>4. Alone(pc, pc', p) BY <2>3 DEF CountsNothing, IsDue, IsCounted
  <2>5. Alone(total, total', p)
    <3>1. CASE IsDue(p) BY <2>2, <3>1 DEF IsDue, Alone, CountTypes
    <3> QED BY <2>3, <3>1 DEF CountsNothing, IsCounted
  <2>6. LogThere' BY <2>1, <2>4, LogThereKept
  <2>7. ASSUME NEW q \in Proc, pc'[q] # "idle", alone'[q] PROVE Quiet(q)'
    <3>1. CASE q = p BY <2>1, <2>4, <2>7, <3>1, QuietMover
    <3>2. CASE q # p BY <2>1, <2>4, <2>5, <2>7, <3>2, QuietOther
    <3> QED BY <3>1, <3>2
  <2> QED BY <1>1, <2>6, <2>7 DEF QuietInv
<1> QED BY <1>2, <1>3

LEMMA QuietCounts ==
    ASSUME QuietInv, [Next]_vars, NEW p \in Proc, At(p, "loglast"), pc'[p] = "logclose", alone[p]
    PROVE  log'.last = before[p] + 1
<1> USE DEF At, Goes
<1>1. ~UNCHANGED vars BY DEF vars
<1>2. PICK q \in Proc : Moved(q) BY <1>1 DEF Next, Moved
<1>3. CountTypes BY DEF QuietInv, TableInv
<1>4. CountsNothing(q) \/ IsDue(q) \/ IsCounted(q) BY <1>2, <1>3, CountStep DEF Moved
<1>5. Alone(pc, pc', q) BY <1>4 DEF CountsNothing, IsDue, IsCounted
<1>6. q = p BY <1>3, <1>5 DEF Alone, CountTypes
<1>7. LogCounts(p) \/ Killed(p)
  BY <1>2, <1>6 DEF Moved, Begins, Works, Visit, CheckAccess, ReadRules, ApplyRule, Admit, GetTotal, ShowOpens,
                Shows, dbmOpen, dbmClose, EndPage, CloseAll, LogOpens, LogCreates, LogReads, LogInserts, LogCounts,
                LogCloses, Configures, Configuration, ConfCreates, ConfInserts, ConfReads, Submits, FormOpens,
                FormWrites, FormReads, ShowsForms
<1>8. ~Killed(p) BY <1>3 DEF Killed, Returns, CountTypes
<1>9. Quiet(p) BY DEF QuietInv
<1>10. log'.last = total[p] + 1 BY <1>7, <1>8, <1>3 DEF LogCounts, CountTypes, QuietInv, MoreTypes
<1> QED BY <1>9, <1>10 DEF Quiet

(* A request that is alone at the log raises the total by one, for any      *)
(* processes and whatever was killed before: the total it counts from is    *)
(* the one it found when it began.                                         *)
THEOREM SiteQuietVisitCounts ==
    ASSUME "left open" \in Avoided PROVE Spec => QuietVisitCounts
<1>1. QuietInv /\ [Next]_vars => QuietInv' BY QuietKept
<1>2. QuietInv /\ [Next]_vars =>
        [\A p \in Proc :
            At(p, "loglast") /\ pc'[p] = "logclose" /\ alone[p] => log'.last = before[p] + 1]_vars
  BY QuietCounts
<1> QED BY <1>1, <1>2, QuietInit, PTL DEF Spec, QuietVisitCounts

-----------------------------------------------------------------------------
(* The rules a process has applied: the first n of list R.                  *)
UpTo(R, n, modes) == {i \in 1 .. n : R[i].matches = "all" /\ R[i].mode \in modes}

Switched(R, n, on) ==
    LET switches == UpTo(R, n, {"log", "nolog"})
    IN  \/ switches = {} /\ on
        \/ \E i \in switches : (\A j \in switches : j <= i) /\ (on <=> R[i].mode = "log")

(* What is left of the rules, the balance and the switch after n rules.     *)
Applied(R, n, left, balance, on) ==
    /\ Len(left) = Len(R) - n /\ \A i \in 1 .. Len(left) : left[i] = R[n + i]
    /\ balance = Cardinality(UpTo(R, n, {"allow"})) - Cardinality(UpTo(R, n, {"ban"}))
    /\ UpTo(R, n, {"email"}) = {}
    /\ Switched(R, n, on)

LEMMA UpToFinite ==
    ASSUME NEW R, NEW n \in Nat, NEW modes
    PROVE  IsFiniteSet(UpTo(R, n, modes)) /\ Cardinality(UpTo(R, n, modes)) \in Nat
<1>1. IsFiniteSet(1 .. n) BY FS_Interval
<1>2. UpTo(R, n, modes) \subseteq 1 .. n BY DEF UpTo
<1>3. IsFiniteSet(UpTo(R, n, modes)) BY <1>1, <1>2, FS_Subset
<1> QED BY <1>3, FS_CardinalityType

LEMMA UpToNext ==
    ASSUME NEW R, NEW n \in Nat, NEW modes
    PROVE  /\ (R[n + 1].matches = "all" /\ R[n + 1].mode \in modes) =>
                 /\ UpTo(R, n + 1, modes) = UpTo(R, n, modes) \cup {n + 1}
                 /\ Cardinality(UpTo(R, n + 1, modes)) = Cardinality(UpTo(R, n, modes)) + 1
           /\ ~(R[n + 1].matches = "all" /\ R[n + 1].mode \in modes) => UpTo(R, n + 1, modes) = UpTo(R, n, modes)
<1>1. ASSUME R[n + 1].matches = "all", R[n + 1].mode \in modes
      PROVE  /\ UpTo(R, n + 1, modes) = UpTo(R, n, modes) \cup {n + 1}
             /\ Cardinality(UpTo(R, n + 1, modes)) = Cardinality(UpTo(R, n, modes)) + 1
  <2>1. UpTo(R, n + 1, modes) = UpTo(R, n, modes) \cup {n + 1} BY <1>1 DEF UpTo
  <2>2. n + 1 \notin UpTo(R, n, modes) BY DEF UpTo
  <2>3. IsFiniteSet(UpTo(R, n, modes)) BY UpToFinite
  <2> QED BY <2>1, <2>2, <2>3, FS_AddElement
<1>2. ASSUME ~(R[n + 1].matches = "all" /\ R[n + 1].mode \in modes)
      PROVE  UpTo(R, n + 1, modes) = UpTo(R, n, modes)
  BY <1>2 DEF UpTo
<1> QED BY <1>1, <1>2

LEMMA AppliedNone ==
    ASSUME NEW R \in Seq(Rule) PROVE Applied(R, 0, R, 0, TRUE)
<1>1. \A modes : UpTo(R, 0, modes) = {} BY DEF UpTo
<1>2. Cardinality({}) = 0 BY FS_EmptySet
<1>3. Len(R) = Len(R) - 0 /\ \A i \in 1 .. Len(R) : R[i] = R[0 + i] OBVIOUS
<1>4. 0 = Cardinality(UpTo(R, 0, {"allow"})) - Cardinality(UpTo(R, 0, {"ban"}))
  <2>1. UpTo(R, 0, {"allow"}) = {} /\ UpTo(R, 0, {"ban"}) = {} BY <1>1
  <2>2. 0 = 0 - 0 OBVIOUS
  <2> QED BY <1>2, <2>1, <2>2
<1>5. UpTo(R, 0, {"email"}) = {} BY <1>1
<1>6. Switched(R, 0, TRUE) BY <1>1 DEF Switched
<1> QED BY <1>3, <1>4, <1>5, <1>6 DEF Applied

(* One more rule, as ApplyRule applies it.                                 *)
LEMMA AppliedNext ==
    ASSUME NEW R \in Seq(Rule), NEW n \in 0 .. Len(R), NEW left \in Seq(Rule), NEW balance \in Int, NEW on \in BOOLEAN,
           Applied(R, n, left, balance, on), left # << >>,
           NEW balance2, NEW on2 \in BOOLEAN,
           LET rule == Head(left) IN
             \/ /\ rule.matches = "none"
                /\ balance2 = balance /\ on2 = on
             \/ /\ rule.matches = "all" /\ rule.mode # "email"
                /\ balance2 = CASE rule.mode = "allow" -> balance + 1
                                [] rule.mode = "ban" -> balance - 1
                                [] OTHER -> balance
                /\ on2 = CASE rule.mode = "log" -> TRUE
                           [] rule.mode = "nolog" -> FALSE
                           [] OTHER -> on
    PROVE  n + 1 \in 0 .. Len(R) /\ Applied(R, n + 1, Tail(left), balance2, on2)
<1> DEFINE rule == Head(left)
<1>1. /\ Len(left) \in Nat /\ Len(left) > 0 /\ Len(R) \in Nat /\ n \in Nat
      /\ Len(left) = Len(R) - n
  BY DEF Applied
<1>2. n + 1 \in 0 .. Len(R) BY <1>1
<1>3. rule = R[n + 1] /\ rule \in Rule
  <2>1. left[1] = R[n + 1] BY <1>1 DEF Applied
  <2> QED BY <1>1, <2>1
<1>4. Len(Tail(left)) = Len(R) - (n + 1) /\ \A i \in 1 .. Len(Tail(left)) : Tail(left)[i] = R[n + 1 + i]
  <2>1. Len(Tail(left)) = Len(left) - 1 BY <1>1
  <2>2. ASSUME NEW i \in 1 .. Len(Tail(left)) PROVE Tail(left)[i] = R[n + 1 + i]
    <3>1. i + 1 \in 1 .. Len(left) /\ Tail(left)[i] = left[i + 1] BY <1>1, <2>1
    <3>2. left[i + 1] = R[n + (i + 1)] BY <3>1 DEF Applied
    <3> QED BY <1>1, <3>1, <3>2
  <2> QED BY <1>1, <2>1, <2>2
<1> DEFINE a == Cardinality(UpTo(R, n, {"allow"}))
           b == Cardinality(UpTo(R, n, {"ban"}))
           a2 == Cardinality(UpTo(R, n + 1, {"allow"}))
           b2 == Cardinality(UpTo(R, n + 1, {"ban"}))
<1>5. a \in Nat /\ b \in Nat /\ balance = a - b BY <1>1, UpToFinite DEF Applied
<1>6. a2 = IF rule.matches = "all" /\ rule.mode = "allow" THEN a + 1 ELSE a
  <2>1. CASE rule.matches = "all" /\ rule.mode = "allow" BY <1>1, <1>3, <2>1, UpToNext
  <2>2. CASE ~(rule.matches = "all" /\ rule.mode = "allow")
    <3>1. UpTo(R, n + 1, {"allow"}) = UpTo(R, n, {"allow"}) BY <1>1, <1>3, <2>2, UpToNext
    <3> QED BY <2>2, <3>1
  <2> QED BY <2>1, <2>2
<1>7. b2 = IF rule.matches = "all" /\ rule.mode = "ban" THEN b + 1 ELSE b
  <2>1. CASE rule.matches = "all" /\ rule.mode = "ban" BY <1>1, <1>3, <2>1, UpToNext
  <2>2. CASE ~(rule.matches = "all" /\ rule.mode = "ban")
    <3>1. UpTo(R, n + 1, {"ban"}) = UpTo(R, n, {"ban"}) BY <1>1, <1>3, <2>2, UpToNext
    <3> QED BY <2>2, <3>1
  <2> QED BY <2>1, <2>2
<1>8. balance2 = a2 - b2
  <2> HIDE DEF a, b, a2, b2
  <2>1. CASE rule.matches = "none"
    <3>1. a2 = a /\ b2 = b /\ balance2 = balance BY <1>6, <1>7, <2>1
    <3> QED BY <1>5, <3>1
  <2>2. CASE rule.matches = "all" /\ rule.mode = "allow"
    <3>1. a2 = a + 1 /\ b2 = b /\ balance2 = balance + 1 BY <1>6, <1>7, <2>2
    <3> QED BY <1>5, <3>1
  <2>3. CASE rule.matches = "all" /\ rule.mode = "ban"
    <3>1. a2 = a /\ b2 = b + 1 /\ balance2 = balance - 1 BY <1>6, <1>7, <2>3
    <3> QED BY <1>5, <3>1
  <2>4. CASE rule.matches = "all" /\ rule.mode \notin {"allow", "ban"}
    <3>1. a2 = a /\ b2 = b /\ balance2 = balance BY <1>6, <1>7, <2>4
    <3> QED BY <1>5, <3>1
  <2> QED BY <2>1, <2>2, <2>3, <2>4
<1>9. UpTo(R, n + 1, {"email"}) = {}
  <2>1. ~(R[n + 1].matches = "all" /\ R[n + 1].mode \in {"email"}) BY <1>3
  <2>2. UpTo(R, n + 1, {"email"}) = UpTo(R, n, {"email"}) BY <1>1, <2>1, UpToNext
  <2> QED BY <2>2 DEF Applied
<1>10. Switched(R, n + 1, on2)
  <2> DEFINE s == UpTo(R, n, {"log", "nolog"})
             s2 == UpTo(R, n + 1, {"log", "nolog"})
  <2>1. Switched(R, n, on) BY DEF Applied
  <2>2. CASE rule.matches = "all" /\ rule.mode \in {"log", "nolog"}
    <3>1. s2 = s \cup {n + 1} BY <1>1, <1>3, <2>2, UpToNext
    <3>2. \A j \in s2 : j <= n + 1 BY <1>1, <3>1 DEF UpTo
    <3>3. on2 <=> R[n + 1].mode = "log" BY <1>3, <2>2
    <3>4. n + 1 \in s2 BY <3>1
    <3> QED BY <3>2, <3>3, <3>4 DEF Switched
  <2>3. CASE ~(rule.matches = "all" /\ rule.mode \in {"log", "nolog"})
    <3>1. s2 = s BY <1>1, <1>3, <2>3, UpToNext
    <3>2. on2 = on BY <2>3
    <3> QED BY <2>1, <3>1, <3>2 DEF Switched
  <2> QED BY <2>2, <2>3
<1> QED BY <1>2, <1>4, <1>8, <1>9, <1>10 DEF Applied

-----------------------------------------------------------------------------
(* Where a process stands in its rules.                                     *)
Stands(p) ==
    /\ pc[p] # "apply" => allow[p] = 0
    /\ pc[p] \in {"check", "rules"} => Logging[p]
    /\ pc[p] = "apply" =>
          /\ policy[p] \in Policies
          /\ \E n \in 0 .. Len(policy[p].rules) : Applied(policy[p].rules, n, todo[p], allow[p], Logging[p])

AccessInv == CountTypes /\ MoreTypes /\ \A p \in Proc : Stands(p)

LEMMA StandsMover ==
    ASSUME AccessInv, NEW p \in Proc, Moved(p)
    PROVE  Stands(p)'
<1> USE DEF At, Goes, own, data, past
<1>0. /\ pc[p] \in Place /\ pc \in [Proc -> Place] /\ Stands(p)
      /\ allow \in [Proc -> Int] /\ Logging \in [Proc -> BOOLEAN] /\ todo \in [Proc -> Seq(Rule)]
      /\ policy \in [Proc -> Policies \cup {none}]
  BY DEF AccessInv, CountTypes, MoreTypes
<1>1. ASSUME pc'[p] \notin {"apply", "check", "rules"}, allow'[p] = 0 PROVE Stands(p)'
  BY <1>1 DEF Stands
<1>2. CASE Begins(p, "check") \/ Begins(p, "conf")
  <2>1. allow'[p] = 0 /\ Logging'[p] /\ pc'[p] \in {"check", "conf"}
    BY <1>0, <1>2 DEF Begins, Stands
  <2> QED BY <2>1 DEF Stands
<1>3. CASE Killed(p)
  <2>1. allow'[p] = 0 /\ pc'[p] = "idle" BY <1>0, <1>3 DEF Killed, Returns
  <2> QED BY <1>1, <2>1
<1>4. CASE CheckAccess(p)
  <2>1. allow'[p] = 0 /\ Logging'[p] /\ pc'[p] \in {"page", "rules"}
    BY <1>0, <1>4 DEF CheckAccess, Opens, Refused, Stands
  <2> QED BY <2>1 DEF Stands
<1>5. CASE ReadRules(p)
  <2>1. allow'[p] = 0 /\ Logging'[p] /\ allow[p] = 0 /\ Logging' = Logging BY <1>0, <1>5 DEF ReadRules, Stands
  <2>2. CASE cfg.rules = none
    <3>1. pc'[p] = "page" BY <1>0, <1>5, <2>2 DEF ReadRules
    <3> QED BY <1>1, <2>1, <3>1
  <2>3. CASE cfg.rules # none
    <3>1. pc'[p] = "apply" /\ todo'[p] = cfg.rules.rules /\ policy'[p] = cfg.rules
      BY <1>0, <1>5, <2>3 DEF ReadRules
    <3>2. cfg.rules \in Policies BY <2>3 DEF AccessInv, MoreTypes
    <3>3. cfg.rules.rules \in Seq(Rule) BY <3>2, PolicyFacts
    <3>4. Logging'[p] = TRUE BY <1>0, <2>1
    <3>5. Applied(policy'[p].rules, 0, todo'[p], allow'[p], Logging'[p])
      BY <2>1, <3>1, <3>3, <3>4, AppliedNone
    <3>6. 0 \in 0 .. Len(policy'[p].rules) BY <3>1, <3>3
    <3> QED BY <3>1, <3>2, <3>5, <3>6 DEF Stands
  <2> QED BY <2>2, <2>3
<1>6. CASE ApplyRule(p)
  <2>1. CASE Returns(p, "close")
    <3>1. allow'[p] = 0 /\ pc'[p] = "close" BY <1>0, <2>1 DEF Returns
    <3> QED BY <1>1, <3>1
  <2>2. CASE UNCHANGED <<pc, todo, allow, Logging, policy>> BY <1>0, <2>2 DEF Stands
  <2>3. CASE /\ UNCHANGED <<pc, policy>> /\ todo' = [todo EXCEPT ![p] = Tail(@)]
             /\ \/ Head(todo[p]).matches = "none" /\ UNCHANGED <<allow, Logging>>
                \/ /\ Head(todo[p]).matches = "all" /\ Head(todo[p]).mode # "email"
                   /\ allow' = [allow EXCEPT ![p] = CASE Head(todo[p]).mode = "allow" -> @ + 1
                                                      [] Head(todo[p]).mode = "ban" -> @ - 1
                                                      [] OTHER -> @]
                   /\ Logging' = [Logging EXCEPT ![p] = CASE Head(todo[p]).mode = "log" -> TRUE
                                                          [] Head(todo[p]).mode = "nolog" -> FALSE
                                                          [] OTHER -> @]
    <3>1. pc[p] = "apply" /\ todo[p] # << >> BY <1>6 DEF ApplyRule
    <3> DEFINE R == policy[p].rules
    <3>2. policy[p] \in Policies /\ R \in Seq(Rule) BY <1>0, <3>1, PolicyFacts DEF Stands
    <3>3. PICK n \in 0 .. Len(R) : Applied(R, n, todo[p], allow[p], Logging[p]) BY <1>0, <3>1 DEF Stands
    <3>4. todo'[p] = Tail(todo[p]) /\ policy'[p] = policy[p] /\ pc'[p] = "apply" BY <1>0, <2>3, <3>1
    <3>5. LET rule == Head(todo[p]) IN
            \/ /\ rule.matches = "none"
               /\ allow'[p] = allow[p] /\ Logging'[p] = Logging[p]
            \/ /\ rule.matches = "all" /\ rule.mode # "email"
               /\ allow'[p] = CASE rule.mode = "allow" -> allow[p] + 1
                                [] rule.mode = "ban" -> allow[p] - 1
                                [] OTHER -> allow[p]
               /\ Logging'[p] = CASE rule.mode = "log" -> TRUE
                                  [] rule.mode = "nolog" -> FALSE
                                  [] OTHER -> Logging[p]
      BY <1>0, <2>3
    <3>6. todo[p] \in Seq(Rule) /\ allow[p] \in Int /\ Logging[p] \in BOOLEAN BY <1>0
    <3>7. Logging'[p] \in BOOLEAN BY <3>5, <3>6
    <3> HIDE DEF R
    <3>8. n + 1 \in 0 .. Len(R) /\ Applied(R, n + 1, Tail(todo[p]), allow'[p], Logging'[p])
      BY <3>1, <3>2, <3>3, <3>5, <3>6, <3>7, AppliedNext
    <3> QED BY <3>2, <3>4, <3>8 DEF Stands, R
  <2> QED BY <1>6, <2>1, <2>2, <2>3 DEF ApplyRule
<1>7. CASE Admit(p)
  <2>1. allow'[p] = 0 /\ pc'[p] \in {"page", "close"} BY <1>0, <1>7 DEF Admit, Returns
  <2> QED BY <1>1, <2>1
<1>8. CASE GetTotal(p) \/ ShowOpens(p) \/ Shows(p)
  <2>1. allow'[p] = 0 /\ pc'[p] \in {"show", "showing", "page"}
    BY <1>0, <1>8 DEF GetTotal, ShowOpens, Shows, Opens, Refused, Stands
  <2> QED BY <1>1, <2>1
<1>9. CASE dbmOpen(p, "r") \/ dbmOpen(p, "c") \/ dbmClose(p) \/ CloseAll(p)
  <2>1. allow'[p] = 0 /\ pc'[p] \in {"page", "idle"}
    BY <1>0, <1>9 DEF dbmOpen, dbmClose, CloseAll, Opens, Stands
  <2> QED BY <1>1, <2>1
<1>10. CASE EndPage(p)
  <2>1. allow'[p] = 0 /\ pc'[p] \in {"log", "close"} BY <1>0, <1>10 DEF EndPage, Stands
  <2> QED BY <1>1, <2>1
<1>11. CASE LogOpens(p) \/ LogCreates(p) \/ LogReads(p) \/ LogInserts(p) \/ LogCounts(p) \/ LogCloses(p)
  <2>1. allow'[p] = 0 /\ pc'[p] \in AtLog \cup {"close"}
    BY <1>0, <1>11 DEF LogOpens, LogCreates, LogReads, LogInserts, LogCounts, LogCloses, Opens, Refused, Stands, AtLog
  <2> QED BY <1>1, <2>1 DEF AtLog
<1>12. CASE Configures(p)
  <2>1. allow' = allow /\ pc[p] # "apply"
    BY <1>12 DEF Configures, Configuration, ConfCreates, ConfInserts, ConfReads, Submits, FormOpens,
                 FormWrites, FormReads, ShowsForms
  <2>2. pc'[p] \in AtConf \cup {"idle"}
    BY <1>0, <1>12 DEF Configures, Configuration, ConfCreates, ConfInserts, ConfReads, Submits, FormOpens,
                 FormWrites, FormReads, ShowsForms, Opens, Refused, AtConf
  <2> QED BY <1>0, <1>1, <2>1, <2>2 DEF Stands, AtConf
<1> QED BY <1>2, <1>3, <1>4, <1>5, <1>6, <1>7, <1>8, <1>9, <1>10, <1>11, <1>12 DEF Moved, Works, Visit

(* A step of one process leaves the rules of the others alone.              *)
LEMMA StandsOther ==
    ASSUME AccessInv, NEW p \in Proc, Moved(p), Alone(pc, pc', p), NEW q \in Proc, q # p
    PROVE  Stands(q)'
<1> USE DEF own, past
<1>1. /\ allow \in [Proc -> Int] /\ Logging \in [Proc -> BOOLEAN] /\ todo \in [Proc -> Seq(Rule)]
      /\ policy \in [Proc -> Policies \cup {none}] /\ pc \in [Proc -> Place]
  BY DEF AccessInv, CountTypes, MoreTypes
<1>2. allow'[q] = allow[q] /\ Logging'[q] = Logging[q] /\ todo'[q] = todo[q] /\ policy'[q] = policy[q]
  <2>1. CASE Begins(p, "check") \/ Begins(p, "conf") BY <1>1, <2>1 DEF Begins
  <2>2. CASE Killed(p) BY <1>1, <2>2 DEF Killed, Returns
  <2>3. CASE ReadRules(p) BY <1>1, <2>3 DEF ReadRules
  <2>4. CASE ApplyRule(p) BY <1>1, <2>4 DEF ApplyRule, Returns
  <2>5. CASE Admit(p) BY <1>1, <2>5 DEF Admit, Returns
  <2>6. CASE Visit(p) /\ ~(ReadRules(p) \/ ApplyRule(p) \/ Admit(p))
    BY <2>6 DEF Visit, CheckAccess, GetTotal, ShowOpens, Shows, dbmOpen, dbmClose, EndPage, CloseAll,
                LogOpens, LogCreates, LogReads, LogInserts, LogCounts, LogCloses
  <2>7. CASE Configures(p)
    BY <2>7 DEF Configures, Configuration, ConfCreates, ConfInserts, ConfReads, Submits, FormOpens,
                FormWrites, FormReads, ShowsForms
  <2> QED BY <2>1, <2>2, <2>3, <2>4, <2>5, <2>6, <2>7 DEF Moved, Works, Visit
<1>3. pc'[q] = pc[q] BY <1>1 DEF Alone
<1>4. Stands(q) BY DEF AccessInv
<1> QED BY <1>2, <1>3, <1>4 DEF Stands

LEMMA AccessInit == Init => AccessInv
<1> SUFFICES ASSUME Init PROVE AccessInv OBVIOUS
<1>1. CountTypes /\ MoreTypes BY CountInit, TypesInit DEF CountInv
<1>2. \A p \in Proc : pc[p] = "idle" /\ allow[p] = 0 BY DEF Init
<1> QED BY <1>1, <1>2 DEF AccessInv, Stands

LEMMA AccessKept == AccessInv /\ [Next]_vars => AccessInv'
<1> SUFFICES ASSUME AccessInv, [Next]_vars PROVE AccessInv' OBVIOUS
<1>0. CountTypes /\ MoreTypes BY DEF AccessInv
<1>1. CASE UNCHANGED vars
  <2>1. UNCHANGED <<pc, total, log, made, part, Logging, todo, allow, cfg, requests, kills, before, alone, policy>>
    BY <1>1 DEF vars, own, data, past
  <2>2. CountTypes' BY <1>0, <2>1 DEF CountTypes
  <2>3. MoreTypes' BY <1>0, <2>1 DEF MoreTypes
  <2>4. \A p \in Proc : Stands(p)' BY <2>1 DEF AccessInv, Stands
  <2> QED BY <2>2, <2>3, <2>4 DEF AccessInv
<1>2. CASE Next
  <2>1. PICK p \in Proc : Moved(p) /\ Watches(p) BY <1>2 DEF Next, Moved
  <2>2. CountsNothing(p) \/ IsDue(p) \/ IsCounted(p) BY <1>0, <2>1, CountStep DEF Moved
  <2>3. CountTypes' BY <1>0, <2>2, CountTypesStep
  <2>4. Alone(pc, pc', p) BY <2>2 DEF CountsNothing, IsDue, IsCounted
  <2>5. MoreTypes' BY <1>0, <2>1, <2>4, MoreTypesStep DEF Moved
  <2>6. \A q \in Proc : Stands(q)' BY <2>1, <2>4, StandsMover, StandsOther
  <2> QED BY <2>3, <2>5, <2>6 DEF AccessInv
<1> QED BY <1>1, <1>2

(* After all rules, the balance says who is welcome and the switch whether  *)
(* the visit is logged.                                                    *)
LEMMA AppliedAll ==
    ASSUME NEW q \in Policies, NEW n \in 0 .. Len(q.rules), NEW balance \in Int, NEW on \in BOOLEAN,
           Applied(q.rules, n, << >>, balance, on)
    PROVE  /\ Welcome(q) <=> balance >= IF q.public THEN 0 ELSE 1
           /\ Matching(q, {"email"}) = {}
           /\ on = Logs(q)
<1>1. q.rules \in Seq(Rule) BY PolicyFacts
<1>2. n = Len(q.rules) /\ n \in Nat BY <1>1 DEF Applied
<1>3. \A modes : UpTo(q.rules, n, modes) = Matching(q, modes) BY <1>1, <1>2 DEF UpTo, Matching
<1> DEFINE a == Cardinality(Matching(q, {"allow"}))
           b == Cardinality(Matching(q, {"ban"}))
<1>4. a \in Nat /\ b \in Nat BY <1>2, <1>3, UpToFinite
<1>5. balance = a - b BY <1>3 DEF Applied
<1>6. Welcome(q) <=> a >= b + IF q.public THEN 0 ELSE 1 BY DEF Welcome
<1>7. Welcome(q) <=> balance >= IF q.public THEN 0 ELSE 1
  <2> HIDE DEF a, b
  <2> QED BY <1>4, <1>5, <1>6
<1>8. Matching(q, {"email"}) = {} BY <1>3 DEF Applied
<1>9. on = Logs(q)
  <2> DEFINE s == Matching(q, {"log", "nolog"})
  <2>1. Switched(q.rules, n, on) /\ UpTo(q.rules, n, {"log", "nolog"}) = s BY <1>3 DEF Applied
  <2>2. CASE s = {} BY <2>1, <2>2 DEF Switched, Logs
  <2>3. CASE s # {}
    <3>1. PICK i \in s : (\A j \in s : j <= i) /\ (on <=> q.rules[i].mode = "log") BY <2>1, <2>3 DEF Switched
    <3>2. s \subseteq Nat BY <1>1 DEF Matching
    <3>3. \A k \in s : (\A j \in s : j <= k) => k = i BY <3>1, <3>2
    <3>4. (CHOOSE k \in s : \A j \in s : j <= k) = i BY <3>1, <3>3
    <3> QED BY <2>3, <3>1, <3>4 DEF Logs
  <2> QED BY <2>2, <2>3
<1> QED BY <1>7, <1>8, <1>9

LEMMA AccessStep ==
    ASSUME AccessInv, [Next]_vars, NEW p \in Proc, At(p, "apply")
    PROVE  /\ pc'[p] = "page" =>
                 Welcome(policy[p]) /\ Matching(policy[p], {"email"}) = {} /\ Logging'[p] = Logs(policy[p])
           /\ pc'[p] = "close" =>
                 ~Welcome(policy[p]) \/ Matching(policy[p], {"email", "password"}) # {}
<1> USE DEF At, Goes
<1>0. /\ CountTypes /\ pc \in [Proc -> Place] /\ pc[p] = "apply" /\ Stands(p)
      /\ allow[p] \in Int /\ Logging[p] \in BOOLEAN /\ todo[p] \in Seq(Rule)
  BY DEF AccessInv, CountTypes, MoreTypes
<1>1. CASE UNCHANGED vars BY <1>0, <1>1 DEF vars
<1>2. CASE Next
  <2>1. PICK q \in Proc : Moved(q) BY <1>2 DEF Next, Moved
  <2>2. CountsNothing(q) \/ IsDue(q) \/ IsCounted(q) BY <1>0, <2>1, CountStep DEF Moved
  <2>3. Alone(pc, pc', q) BY <2>2 DEF CountsNothing, IsDue, IsCounted
  <2>4. CASE q # p
    <3>1. pc'[p] = "apply" BY <1>0, <2>3, <2>4 DEF Alone
    <3> QED BY <3>1
  <2>5. CASE q = p
    <3>1. ApplyRule(p) \/ Admit(p) \/ Killed(p)
      BY <1>0, <2>1, <2>5 DEF Moved, Begins, Works, Visit, CheckAccess, ReadRules, GetTotal, ShowOpens,
                Shows, dbmOpen, dbmClose, EndPage, CloseAll, LogOpens, LogCreates, LogReads, LogInserts, LogCounts,
                LogCloses, Configures, Configuration, ConfCreates, ConfInserts, ConfReads, Submits, FormOpens,
                FormWrites, FormReads, ShowsForms
    <3> DEFINE R == policy[p].rules
    <3>2. policy[p] \in Policies /\ R \in Seq(Rule) BY <1>0, PolicyFacts DEF Stands
    <3>3. PICK n \in 0 .. Len(R) : Applied(R, n, todo[p], allow[p], Logging[p]) BY <1>0 DEF Stands
    <3>4. CASE Killed(p)
      <4>1. pc'[p] = "idle" BY <1>0, <3>4 DEF Killed, Returns
      <4> QED BY <4>1
    <3>5. CASE ApplyRule(p)
      <4>1. CASE pc' = pc BY <1>0, <4>1
      <4>2. CASE pc' # pc
        <5>1. /\ todo[p] # << >> /\ Head(todo[p]).matches = "all" /\ Head(todo[p]).mode \in {"email", "password"}
              /\ pc'[p] = "close"
          BY <1>0, <3>5, <4>2 DEF ApplyRule, Returns
        <5>2. Len(todo[p]) = Len(R) - n /\ Len(todo[p]) > 0 /\ todo[p][1] = R[n + 1]
          BY <1>0, <3>2, <3>3, <5>1 DEF Applied
        <5>3. n + 1 \in DOMAIN R /\ Head(todo[p]) = R[n + 1] BY <1>0, <3>2, <5>1, <5>2
        <5>4. n + 1 \in Matching(policy[p], {"email", "password"}) BY <5>1, <5>3 DEF Matching
        <5> QED BY <5>1, <5>4
      <4> QED BY <4>1, <4>2
    <3>6. CASE Admit(p)
      <4>1. todo[p] = << >> /\ pc'[p] = (IF Balance(p) < 0 THEN "close" ELSE "page") /\ Logging' = Logging
        BY <1>0, <3>6 DEF Admit, Returns, own
      <4>2. Applied(policy[p].rules, n, << >>, allow[p], Logging[p]) BY <3>3, <4>1
      <4>3. /\ Welcome(policy[p]) <=> allow[p] >= IF policy[p].public THEN 0 ELSE 1
            /\ Matching(policy[p], {"email"}) = {}
            /\ Logging[p] = Logs(policy[p])
        BY <1>0, <3>2, <4>2, AppliedAll
      <4>4. Balance(p) < 0 <=> ~(allow[p] >= IF policy[p].public THEN 0 ELSE 1) BY <1>0 DEF Balance
      <4> QED BY <4>1, <4>3, <4>4
    <3> QED BY <3>1, <3>4, <3>5, <3>6
  <2> QED BY <2>4, <2>5
<1> QED BY <1>1, <1>2

(* The page is shown, and logged, as the rules say of the visitor, for any  *)
(* list of rules: the balance is that of the rules applied so far, and the  *)
(* switch that of the last of them.                                        *)
THEOREM SiteAccessFollowsRules == Spec => AccessFollowsRules
<1>1. AccessInv /\ [Next]_vars =>
        [\A p \in Proc : At(p, "apply") =>
            /\ pc'[p] = "page" =>
                  Welcome(policy[p]) /\ Matching(policy[p], {"email"}) = {} /\ Logging'[p] = Logs(policy[p])
            /\ pc'[p] = "close" =>
                  ~Welcome(policy[p]) \/ Matching(policy[p], {"email", "password"}) # {}]_<<pc, Logging>>
  BY AccessStep
<1> QED BY <1>1, AccessInit, AccessKept, PTL DEF Spec, AccessFollowsRules
=============================================================================
