------------------------------- MODULE HitLog -------------------------------
(***************************************************************************)
(* Counting visits in an mSQL database: MsqlLog of log.c, run at the end of *)
(* every request by a server process of its own.  mSQL has no transactions, *)
(* so MsqlLog guards the read and the update of the counters with a lock    *)
(* file, which it unlinks when done.  One page, so one row of last<uid> and *)
(* one lock file name.                                                      *)
(***************************************************************************)
EXTENDS Integers, FiniteSets

CONSTANTS
    Proc,           \* the server's processes
    MaxVisits,      \* bound on the requests
    MaxDay,         \* bound on the days, which start at 1
    MaxFaults,      \* bound on failed opens and queries and on killed processes
    Patient         \* TRUE: no lock file is made while an unlinked one is open

ASSUME HitLogAssumption ==
    /\ IsFiniteSet(Proc) /\ "nobody" \notin Proc
    /\ MaxVisits \in Nat /\ MaxDay \in Nat \ {0} /\ MaxFaults \in Nat /\ Patient \in BOOLEAN

VARIABLES
    row,            \* the page's counters in last<uid>, missing before the first visit
    lockfn,         \* the file the lock's name leads to, or none
    files,          \* the number of lock files made so far: they are 1 .. files
    owner,          \* the process that has each file locked
    pc, lockfd,     \* of each process: where it is, and the lock file it has open
    t, la,          \* its visit's day, and the day of the visit before
    total_count, today_count,
    day,            \* the clock
    visits, updates, faults     \* history: visits begun, updates sent, faults

logvars == <<row, lockfn, files, owner, pc, lockfd, t, la, total_count, today_count,
             day, visits, updates, faults>>

none == 0           \* no lock file
File == 1 .. MaxVisits
Day  == 1 .. MaxDay
Row  == [there : BOOLEAN, total : Nat, today : Nat, day : 0 .. MaxDay]

Stage == {"idle", "open", "lock", "select", "insert", "update", "unlock", "unlink"}
Inside == {p \in Proc : pc[p] \in {"select", "insert", "update", "unlock"}}
Opened == {p \in Proc : pc[p] = "lock"} \cup Inside

LogTypeOK ==
    /\ row \in Row
    /\ files \in 0 .. MaxVisits
    /\ lockfn \in 0 .. files
    /\ owner \in [File -> Proc \cup {"nobody"}]
    /\ pc \in [Proc -> Stage]
    /\ lockfd \in [Proc -> 0 .. files]
    /\ t \in [Proc -> 0 .. MaxDay] /\ la \in [Proc -> 0 .. MaxDay]
    /\ total_count \in [Proc -> Nat \cup {-1}]
    /\ today_count \in [Proc -> Nat \cup {-1}]
    /\ day \in Day
    /\ visits \in 0 .. MaxVisits /\ updates \in Nat /\ faults \in 0 .. MaxFaults
    /\ \A p \in Proc : /\ pc[p] = "lock" => lockfd[p] # none
                       /\ lockfd[p] # none => p \in Opened

LogInit ==
    /\ row = [there |-> FALSE, total |-> 0, today |-> 0, day |-> 0]
    /\ lockfn = none /\ files = 0
    /\ owner = [f \in File |-> "nobody"]
    /\ pc = [p \in Proc |-> "idle"]
    /\ lockfd = [p \in Proc |-> none]
    /\ t = [p \in Proc |-> 0] /\ la = [p \in Proc |-> 0]
    /\ total_count = [p \in Proc |-> -1]
    /\ today_count = [p \in Proc |-> -1]
    /\ day = 1
    /\ visits = 0 /\ updates = 0 /\ faults = 0

-----------------------------------------------------------------------------
Goto(p, from, to) == pc[p] = from /\ pc' = [pc EXCEPT ![p] = to]
Fail == faults < MaxFaults /\ faults' = faults + 1

(* A request: init_log, then the page, which may show the counters, read    *)
(* by msqlloadlastinfo; then MsqlLog takes the time.                        *)
Visit(p) ==
    /\ visits < MaxVisits
    /\ Goto(p, "idle", "open")
    /\ visits' = visits + 1
    /\ t' = [t EXCEPT ![p] = day]
    /\ \/ /\ total_count' = [total_count EXCEPT ![p] = -1]
          /\ today_count' = [today_count EXCEPT ![p] = -1]
       \/ /\ row.there
          /\ total_count' = [total_count EXCEPT ![p] = row.total]
          /\ today_count' = [today_count EXCEPT ![p] = IF row.day = day THEN row.today ELSE 0]
    /\ UNCHANGED <<row, lockfn, files, owner, lockfd, la, day, updates, faults>>

(* open with O_CREAT.  There are never more files than visits.  A failed    *)
(* open is not noticed: lockf fails too, and MsqlLog goes on.              *)
OpenLock(p) ==
    /\ \/ /\ Goto(p, "open", "lock")
          /\ lockfn # none
          /\ lockfd' = [lockfd EXCEPT ![p] = lockfn]
          /\ UNCHANGED <<lockfn, files, faults>>
       \/ /\ Goto(p, "open", "lock")
          /\ lockfn = none /\ files < MaxVisits
          /\ Patient => \A q \in Proc : lockfd[q] = none
          /\ files' = files + 1
          /\ lockfn' = files + 1
          /\ lockfd' = [lockfd EXCEPT ![p] = files + 1]
          /\ UNCHANGED faults
       \/ /\ Fail
          /\ Goto(p, "open", "select")
          /\ UNCHANGED <<lockfn, files, lockfd>>
    /\ UNCHANGED <<row, owner, t, la, total_count, today_count, day, visits, updates>>

(* A lock that is taken without waiting for it.                            *)
TakeLockAtOnce(p) ==
    /\ Goto(p, "lock", "select")
    /\ owner' = [owner EXCEPT ![lockfd[p]] = p]
    /\ UNCHANGED <<row, lockfn, files, lockfd, t, la, total_count, today_count, day,
                   visits, updates, faults>>

(* lockf waits until nobody has the file locked.                           *)
TakeLock(p) ==
    /\ Goto(p, "lock", "select")
    /\ owner[lockfd[p]] = "nobody"
    /\ owner' = [owner EXCEPT ![lockfd[p]] = p]
    /\ UNCHANGED <<row, lockfn, files, lockfd, t, la, total_count, today_count, day,
                   visits, updates, faults>>

(* Counts the page has shown already are not read again.                   *)
SelectTrustsPage(p) ==
    /\ Goto(p, "select", IF row.there THEN "update" ELSE "insert")
    /\ total_count' = [total_count EXCEPT ![p] = IF @ = -1 THEN row.total ELSE @]
    /\ today_count' = [today_count EXCEPT ![p] = IF @ = -1 THEN row.today ELSE @]
    /\ la' = [la EXCEPT ![p] = row.day]
    /\ UNCHANGED <<row, lockfn, files, owner, lockfd, t, day, visits, updates, faults>>

(* The query for the counters.  When it fails la is left uninitialized and  *)
(* the counts keep what the page left in them.                             *)
Select(p) ==
    /\ \/ /\ row.there
          /\ Goto(p, "select", "update")
          /\ total_count' = [total_count EXCEPT ![p] = row.total]
          /\ today_count' = [today_count EXCEPT ![p] = row.today]
          /\ la' = [la EXCEPT ![p] = row.day]
          /\ UNCHANGED faults
       \/ /\ ~row.there
          /\ Goto(p, "select", "insert")
          /\ total_count' = [total_count EXCEPT ![p] = 0]
          /\ today_count' = [today_count EXCEPT ![p] = 0]
          /\ la' = [la EXCEPT ![p] = 0]
          /\ UNCHANGED faults
       \/ /\ Fail
          /\ Goto(p, "select", "update")
          /\ \E d \in 0 .. MaxDay : la' = [la EXCEPT ![p] = d]
          /\ UNCHANGED <<total_count, today_count>>
    /\ UNCHANGED <<row, lockfn, files, owner, lockfd, t, day, visits, updates>>

(* A first row that counts the visit the update is going to count.         *)
InsertCountsVisit(p) ==
    /\ Goto(p, "insert", "update")
    /\ row' = IF row.there THEN row
              ELSE [there |-> TRUE, total |-> 1, today |-> 1, day |-> t[p]]
    /\ UNCHANGED <<lockfn, files, owner, lockfd, t, la, total_count, today_count, day,
                   visits, updates, faults>>

(* A row that another process has inserted meanwhile stays the first one.   *)
Insert(p) ==
    /\ Goto(p, "insert", "update")
    /\ \/ /\ row' = IF row.there THEN row
                    ELSE [there |-> TRUE, total |-> 0, today |-> 0, day |-> t[p]]
          /\ UNCHANGED faults
       \/ Fail /\ UNCHANGED row
    /\ UNCHANGED <<lockfn, files, owner, lockfd, t, la, total_count, today_count, day,
                   visits, updates>>

(* Today's count goes on after midnight.                                   *)
UpdateKeepsToday(p) ==
    /\ Goto(p, "update", "unlock")
    /\ total_count' = [total_count EXCEPT ![p] = @ + 1]
    /\ today_count' = [today_count EXCEPT ![p] = @ + 1]
    /\ updates' = updates + 1
    /\ row' = IF row.there
              THEN [there |-> TRUE, total |-> total_count'[p],
                    today |-> today_count'[p], day |-> t[p]]
              ELSE row
    /\ UNCHANGED <<lockfn, files, owner, lockfd, t, la, day, visits, faults>>

Update(p) ==
    /\ Goto(p, "update", "unlock")
    /\ total_count' = [total_count EXCEPT ![p] = @ + 1]
    /\ today_count' = [today_count EXCEPT ![p] = IF la[p] = t[p] THEN @ + 1 ELSE 1]
    /\ updates' = updates + 1
    /\ \/ /\ row' = IF row.there
                    THEN [there |-> TRUE, total |-> total_count'[p],
                          today |-> today_count'[p], day |-> t[p]]
                    ELSE row
          /\ UNCHANGED faults
       \/ Fail /\ UNCHANGED row
    /\ UNCHANGED <<lockfn, files, owner, lockfd, t, la, day, visits>>

(* The file is unlocked and left open.                                     *)
UnlockKeepsOpen(p) ==
    /\ Goto(p, "unlock", "unlink")
    /\ owner' = [owner EXCEPT ![lockfd[p]] = "nobody"]
    /\ UNCHANGED <<row, lockfn, files, lockfd, t, la, total_count, today_count, day,
                   visits, updates, faults>>

(* F_ULOCK and close.                                                      *)
Unlock(p) ==
    /\ Goto(p, "unlock", "unlink")
    /\ owner' = IF lockfd[p] = none THEN owner ELSE [owner EXCEPT ![lockfd[p]] = "nobody"]
    /\ lockfd' = [lockfd EXCEPT ![p] = none]
    /\ UNCHANGED <<row, lockfn, files, t, la, total_count, today_count, day,
                   visits, updates, faults>>

(* unlink removes the name, whichever file it leads to by now.             *)
Unlink(p) ==
    /\ Goto(p, "unlink", "idle")
    /\ lockfn' = none
    /\ UNCHANGED <<row, files, owner, lockfd, t, la, total_count, today_count, day,
                   visits, updates, faults>>

Step(p) == OpenLock(p) \/ TakeLock(p) \/ Select(p) \/ Insert(p) \/ Update(p)
           \/ Unlock(p) \/ Unlink(p)

(* A lock that outlives its process.                                       *)
KilledKeepsLock(p) ==
    /\ Fail
    /\ pc[p] # "idle"
    /\ pc' = [pc EXCEPT ![p] = "idle"]
    /\ lockfd' = [lockfd EXCEPT ![p] = none]
    /\ UNCHANGED <<row, lockfn, files, owner, t, la, total_count, today_count, day,
                   visits, updates>>

(* The server kills the process: its lock goes, the lock file stays.       *)
Killed(p) ==
    /\ Fail
    /\ pc[p] # "idle"
    /\ pc' = [pc EXCEPT ![p] = "idle"]
    /\ owner' = [f \in File |-> IF owner[f] = p THEN "nobody" ELSE owner[f]]
    /\ lockfd' = [lockfd EXCEPT ![p] = none]
    /\ UNCHANGED <<row, lockfn, files, t, la, total_count, today_count, day, visits, updates>>

Midnight ==
    /\ day < MaxDay
    /\ day' = day + 1
    /\ UNCHANGED <<row, lockfn, files, owner, pc, lockfd, t, la, total_count, today_count,
                   visits, updates, faults>>

LogNext ==
    \/ \E p \in Proc : Visit(p) \/ Step(p) \/ Killed(p)
    \/ Midnight

LogSpec == LogInit /\ [][LogNext]_logvars

(* Every process runs; a lock that is given back goes to who waits for it.  *)
FairSpec == LogSpec /\ \A p \in Proc : WF_logvars(Step(p))

-----------------------------------------------------------------------------
(* The lock file keeps the read and the update of the counters of two       *)
(* visits apart.                                                            *)
OneVisitCounts == \A p, q \in Inside : p = q

(* "Atomically read and increment total and today counters" (log.c:728):    *)
(* seen through the row, each visit counts in one step.                     *)
Counter == INSTANCE HitCounter WITH
    total <- row.total, today <- row.today,
    last <- IF row.total = 0 THEN 0 ELSE row.day
CountsAtomically == Counter!Spec

(* Whatever fails, dies or overlaps, the total is never more than the       *)
(* visits that were counted: a visit can be lost, none counts twice.        *)
NeverOvercounts == row.total <= updates /\ updates <= visits

(* With no fault, once no visit is being counted the total is the number of *)
(* visits: the update of one never overwrites that of another.             *)
NoVisitLost == faults = 0 /\ (\A p \in Proc : pc[p] = "idle") => row.total = visits

(* A killed process and a lock file it leaves behind hold nobody up: every  *)
(* request ends.                                                            *)
EveryRequestEnds == \A p \in Proc : pc[p] # "idle" ~> pc[p] = "idle"
=============================================================================
