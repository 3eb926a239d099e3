-------------------------------- MODULE Site --------------------------------
(***************************************************************************)
(* A site in the Apache build, with access control and the page log kept in *)
(* dbm files: what a visit and a visit of the configuration screen do to    *)
(* the two databases, in server processes that live from request to         *)
(* request and may be killed.  One page; its configuration is one entry,    *)
(* the entry of the page or that of all pages.                              *)
(*                                                                         *)
(* made, before, alone and policy are history: the visits that were to be   *)
(* logged, and of each process the last total when its request began,       *)
(* whether no other process used the log since, and the rules it applies.   *)
(***************************************************************************)
EXTENDS Integers, FiniteSets, SequencesExt, Dbm

CONSTANTS
    Policies,       \* the rule lists an owner may configure
    MaxRequests,    \* bound on the requests
    MaxKills,       \* bound on the processes killed
    Avoided         \* the pitfalls the site keeps clear of

Pitfall == {"left open", "bad pattern"}

Rule   == [mode : {"allow", "ban", "email", "password", "log", "nolog"}, matches : {"all", "none", "bad"}]
Policy == [public : BOOLEAN, rules : Seq(Rule)]
none   == [public |-> TRUE, rules |-> << >>]        \* an entry that is not there
Shown  == [public |-> TRUE, rules |-> <<[mode |-> "log", matches |-> "all"]>>]

Patterns(q) == {q.rules[i].matches : i \in DOMAIN q.rules}

ASSUME SiteAssumption ==
    /\ Base = {"log", "cfg", "data"}
    /\ Policies \subseteq {q \in Policy : q.rules # << >>} /\ Shown \in Policies
    /\ MaxRequests \in Nat /\ MaxKills \in Nat
    /\ Avoided \subseteq Pitfall
    /\ "bad pattern" \in Avoided => \A q \in Policies : "bad" \notin Patterns(q)

VARIABLES
    pc, part,                           \* where each process is, in its request and in the forms
    total, Logging, todo, allow,        \* its counter, its switch, the rules it has yet to apply, the balance
    log, cfg,                           \* what the two databases hold
    requests, kills, made, before, alone, policy

own   == <<total, Logging, todo, allow>>
data  == <<log, cfg>>
past  == <<requests, kills, made, before, policy>>
vars  == <<dbms, pc, part, own, data, past, alone>>

AtLog  == {"log", "lognew", "logread", "logentry", "loglast", "logclose"}
AtConf == {"conf", "confnew", "confinit", "confread", "form", "formopen", "formwrite", "formread"}
Place  == {"idle", "check", "rules", "apply", "page", "show", "showing", "close"} \cup AtLog \cup AtConf

TypeOK ==
    /\ DbmTypeOK
    /\ pc \in [Proc -> Place] /\ part \in [Proc -> 0 .. 4]
    /\ total \in [Proc -> Int] /\ Logging \in [Proc -> BOOLEAN]
    /\ todo \in [Proc -> Seq(Rule)] /\ allow \in [Proc -> Int]
    /\ log \in [there : BOOLEAN, entries : Nat, last : Int]
    /\ cfg \in [there : BOOLEAN, rules : Policies \cup {none}]
    /\ requests \in 0 .. MaxRequests /\ kills \in 0 .. MaxKills
    /\ made \in Nat /\ before \in [Proc -> Int] /\ alone \in [Proc -> BOOLEAN]
    /\ policy \in [Proc -> Policies \cup {none}]

Init ==
    /\ DbmInit
    /\ pc = [p \in Proc |-> "idle"] /\ part = [p \in Proc |-> 0]
    /\ total = [p \in Proc |-> -1] /\ Logging = [p \in Proc |-> TRUE]
    /\ todo = [p \in Proc |-> << >>] /\ allow = [p \in Proc |-> 0]
    /\ log = [there |-> FALSE, entries |-> 0, last |-> 0]
    /\ cfg = [there |-> FALSE, rules |-> none]
    /\ requests = 0 /\ kills = 0 /\ made = 0
    /\ before = [p \in Proc |-> 0] /\ alone = [p \in Proc |-> TRUE]
    /\ policy = [p \in Proc |-> none]

-----------------------------------------------------------------------------
At(p, place)   == pc[p] = place
Goes(p, place) == pc' = [pc EXCEPT ![p] = place]

(* A fault: a database that fails to open is entered in the table.          *)
RefusedIsEntered(p, b, mode, there, then) ==
    /\ ~Granted(b, mode, there) /\ dbmPush(p, [base |-> b, mode |-> "n"])
    /\ UNCHANGED <<readers, writer>> /\ Goes(p, then)

Opens(p, b, mode, there, then)   == _dbmOpen(p, b, mode, there) /\ Goes(p, then)
Refused(p, b, mode, there, then) == _dbmOpenFails(b, mode, there) /\ Goes(p, then)

(* A request begins: the init functions forget what the last one left.      *)
Begins(p, place) ==
    /\ At(p, "idle") /\ requests < MaxRequests
    /\ Goes(p, place)
    /\ init_db(p)
    /\ total' = [total EXCEPT ![p] = -1] /\ Logging' = [Logging EXCEPT ![p] = TRUE]
    /\ UNCHANGED <<todo, allow>>
    /\ requests' = requests + 1
    /\ before' = [before EXCEPT ![p] = log.last]
    /\ UNCHANGED <<part, data, kills, made, policy>>

-----------------------------------------------------------------------------
(* CheckAccess: the rules are read, whatever keeps them from being read lets *)
(* the visitor pass, and they are applied one after the other.              *)
CheckAccess(p) ==
    /\ At(p, "check")
    /\ Opens(p, "cfg", "r", cfg.there, "rules") \/ Refused(p, "cfg", "r", cfg.there, "page")
    /\ UNCHANGED <<part, own, data, past>>

(* A fault: a configuration without rules is not closed.                    *)
ReadRulesKeepsOpen(p) ==
    /\ At(p, "rules")
    /\ IF cfg.rules = none THEN Goes(p, "page") /\ UNCHANGED <<dbms, todo, policy>>
       ELSE /\ Goes(p, "apply")
            /\ _dbmClose(p, "cfg")
            /\ todo' = [todo EXCEPT ![p] = cfg.rules.rules]
            /\ policy' = [policy EXCEPT ![p] = cfg.rules]
    /\ UNCHANGED <<part, total, Logging, allow, data, requests, kills, made, before>>

ReadRules(p) ==
    /\ At(p, "rules")
    /\ _dbmClose(p, "cfg")
    /\ IF cfg.rules = none THEN Goes(p, "page") /\ UNCHANGED <<todo, policy>>
       ELSE /\ Goes(p, "apply")
            /\ todo' = [todo EXCEPT ![p] = cfg.rules.rules]
            /\ policy' = [policy EXCEPT ![p] = cfg.rules]
    /\ UNCHANGED <<part, total, Logging, allow, data, requests, kills, made, before>>

(* CheckAccess returns, and its rules are forgotten.                        *)
Returns(p, place) ==
    /\ Goes(p, place)
    /\ todo' = [todo EXCEPT ![p] = << >>] /\ allow' = [allow EXCEPT ![p] = 0]
    /\ policy' = [policy EXCEPT ![p] = none]

(* A fault: a rule that does not match is applied again.                    *)
ApplyRuleAgain(p) ==
    /\ At(p, "apply") /\ todo[p] # << >>
    /\ LET rule == Head(todo[p]) IN
        \/ rule.matches # "all" /\ UNCHANGED <<pc, todo>>
        \/ /\ rule.matches = "all"
           /\ todo' = [todo EXCEPT ![p] = Tail(@)]
           /\ UNCHANGED pc
    /\ UNCHANGED <<dbms, part, total, Logging, allow, data, past>>

(* A pattern that does not compile is reported again and again.  A visitor  *)
(* without an address, or with a wrong password, is shown a page to give    *)
(* it, and the request ends without being logged.                           *)
ApplyRule(p) ==
    /\ At(p, "apply") /\ todo[p] # << >>
    /\ LET rule == Head(todo[p]) IN
        \/ rule.matches = "bad" /\ UNCHANGED <<pc, todo, allow, Logging, policy>>
        \/ /\ rule.matches = "none"
           /\ todo' = [todo EXCEPT ![p] = Tail(@)]
           /\ UNCHANGED <<pc, allow, Logging, policy>>
        \/ /\ rule.matches = "all"
           /\ rule.mode # "email"
           /\ todo' = [todo EXCEPT ![p] = Tail(@)]
           /\ allow' = [allow EXCEPT ![p] = CASE rule.mode = "allow" -> @ + 1
                                              [] rule.mode = "ban" -> @ - 1
                                              [] OTHER -> @]
           /\ Logging' = [Logging EXCEPT ![p] = CASE rule.mode = "log" -> TRUE
                                                  [] rule.mode = "nolog" -> FALSE
                                                  [] OTHER -> @]
           /\ UNCHANGED <<pc, policy>>
        \/ /\ rule.matches = "all"
           /\ rule.mode \in {"email", "password"}
           /\ Returns(p, "close")
           /\ UNCHANGED Logging
    /\ UNCHANGED <<dbms, part, total, data, requests, kills, made, before>>

(* A fault: the default of the rules is left out.                           *)
BalanceOfRules(p) == allow[p]

Balance(p) == allow[p] - IF policy[p].public THEN 0 ELSE 1

Admit(p) ==
    /\ At(p, "apply") /\ todo[p] = << >>
    /\ Returns(p, IF Balance(p) < 0 THEN "close" ELSE "page")
    /\ UNCHANGED <<dbms, part, total, Logging, data, requests, kills, made, before>>

-----------------------------------------------------------------------------
(* The page: it may open and close a database of its own, and show the      *)
(* counters, as the footer does.                                            *)
dbmOpen(p, mode) ==
    /\ At(p, "page")
    /\ "left open" \in Avoided => ~Found(p, "data")
    /\ Opens(p, "data", mode, TRUE, "page")
    /\ UNCHANGED <<part, own, data, past>>

dbmClose(p) ==
    /\ At(p, "page") /\ Found(p, "data")
    /\ _dbmClose(p, "data")
    /\ UNCHANGED <<pc, part, own, data, past>>

(* GetTotal reads the counters unless they were read before.  A log that is *)
(* not there, or locked, shows none.                                        *)
GetTotal(p) ==
    /\ At(p, "page") /\ total[p] = -1
    /\ "left open" \in Avoided => ~Found(p, "data")
    /\ Goes(p, "show")
    /\ UNCHANGED <<dbms, part, own, data, past>>

ShowOpens(p) ==
    /\ At(p, "show")
    /\ \/ Opens(p, "log", "r", log.there, "showing") /\ UNCHANGED total
       \/ Refused(p, "log", "r", log.there, "page") /\ total' = [total EXCEPT ![p] = 0]
    /\ UNCHANGED <<part, Logging, todo, allow, data, past>>

loadlastinfo(p) == total' = [total EXCEPT ![p] = log.last]

Shows(p) ==
    /\ At(p, "showing")
    /\ loadlastinfo(p)
    /\ _dbmClose(p, "log")
    /\ Goes(p, "page")
    /\ UNCHANGED <<part, Logging, todo, allow, data, past>>

(* Exit at the end of the page.                                            *)
EndPage(p) ==
    /\ At(p, "page")
    /\ "left open" \in Avoided /\ Logging[p] => ~Found(p, "data")
    /\ Goes(p, IF Logging[p] THEN "log" ELSE "close")
    /\ made' = made + IF Logging[p] THEN 1 ELSE 0
    /\ UNCHANGED <<dbms, part, own, data, requests, kills, before, policy>>

CloseAll(p) ==
    /\ At(p, "close")
    /\ dbmCloseAll(p)
    /\ Goes(p, "idle")
    /\ UNCHANGED <<part, own, data, past>>

-----------------------------------------------------------------------------
(* Log.  What keeps it from writing the log, a lock included, makes it try  *)
(* to make a new one; by then the lock may be gone.                         *)
LogOpens(p) ==
    /\ At(p, "log")
    /\ Opens(p, "log", "w", log.there, "logread") \/ Refused(p, "log", "w", log.there, "lognew")
    /\ UNCHANGED <<part, own, data, past>>

LogCreates(p) ==
    /\ At(p, "lognew")
    /\ \/ /\ Opens(p, "log", "n", TRUE, "logread")
          /\ log' = [there |-> TRUE, entries |-> 0, last |-> -1]
          /\ total' = [total EXCEPT ![p] = 0]
       \/ Refused(p, "log", "n", TRUE, "close") /\ UNCHANGED <<log, total>>
    /\ UNCHANGED <<part, Logging, todo, allow, cfg, past>>

(* A fault: the counters are not read before the visit is counted.          *)
LogReadsNothing(p) ==
    At(p, "logread") /\ Goes(p, "logentry") /\ UNCHANGED <<dbms, part, own, data, past>>

(* Counters the page has shown are not read again.                         *)
LogReads(p) ==
    /\ At(p, "logread")
    /\ Goes(p, "logentry")
    /\ IF total[p] < 0 THEN loadlastinfo(p) ELSE UNCHANGED total
    /\ UNCHANGED <<dbms, part, Logging, todo, allow, data, past>>

LogInserts(p) ==
    /\ At(p, "logentry")
    /\ Goes(p, "loglast")
    /\ log' = [log EXCEPT !.entries = @ + 1]
    /\ UNCHANGED <<dbms, part, own, cfg, past>>

(* A fault: the count the page has shown is raised twice.                   *)
LogCountsTwice(p) ==
    /\ At(p, "loglast") /\ Goes(p, "logclose")
    /\ log' = [log EXCEPT !.last = total[p] + 2]
    /\ UNCHANGED <<dbms, part, own, cfg, past>>

LogCounts(p) ==
    /\ At(p, "loglast")
    /\ Goes(p, "logclose")
    /\ total' = [total EXCEPT ![p] = @ + 1]
    /\ log' = [log EXCEPT !.last = total[p] + 1]
    /\ UNCHANGED <<dbms, part, Logging, todo, allow, cfg, past>>

LogCloses(p) ==
    /\ At(p, "logclose")
    /\ _dbmClose(p, "log")
    /\ Goes(p, "close")
    /\ UNCHANGED <<part, own, data, past>>

-----------------------------------------------------------------------------
(* The configuration screen.  A configuration that is not read, for a lock  *)
(* too, is made anew.                                                       *)
Configuration(p) ==
    /\ At(p, "conf")
    /\ Opens(p, "cfg", "r", cfg.there, "form") \/ Refused(p, "cfg", "r", cfg.there, "confnew")
    /\ UNCHANGED <<part, own, data, past>>

ConfCreates(p) ==
    /\ At(p, "confnew")
    /\ \/ Opens(p, "cfg", "n", TRUE, "confinit") /\ cfg' = [there |-> TRUE, rules |-> none]
       \/ Refused(p, "cfg", "n", TRUE, "idle") /\ UNCHANGED cfg
    /\ UNCHANGED <<part, own, log, past>>

ConfInserts(p) ==
    /\ At(p, "confinit")
    /\ cfg' = [cfg EXCEPT !.rules = Shown]
    /\ _dbmClose(p, "cfg")
    /\ Goes(p, "confread")
    /\ UNCHANGED <<part, own, log, past>>

ConfReads(p) ==
    /\ At(p, "confread")
    /\ Opens(p, "cfg", "r", TRUE, "form") \/ Refused(p, "cfg", "r", TRUE, "idle")
    /\ UNCHANGED <<part, own, data, past>>

(* AddFile, ChkPostVars, AddRule and PostToAccessStr, in this order, those  *)
(* the visitor asked for: each closes the database, opens it for writing,   *)
(* writes, closes it and opens it for reading, or gives up where it fails.  *)
Submits(p) ==
    /\ At(p, "form")
    /\ \E k \in 1 .. 4 : k > part[p] /\ part' = [part EXCEPT ![p] = k]
    /\ _dbmClose(p, "cfg")
    /\ Goes(p, "formopen")
    /\ UNCHANGED <<own, data, past>>

FormOpens(p) ==
    /\ At(p, "formopen")
    /\ Opens(p, "cfg", "w", cfg.there, "formwrite") \/ Refused(p, "cfg", "w", cfg.there, "form")
    /\ UNCHANGED <<part, own, data, past>>

(* AddFile gives the page an entry where it has none, ChkPostVars writes    *)
(* the addresses of pages and the password, AddRule makes the list longer,  *)
(* and PostToAccessStr replaces it or, without any rule, deletes it.        *)
Longer(q) == {r \in Policies : r.public = q.public /\ Len(r.rules) > Len(q.rules)}
Written(k) == CASE k = 1 -> {IF cfg.rules = none THEN Shown ELSE cfg.rules}
                [] k = 2 -> {cfg.rules}
                [] k = 3 -> {cfg.rules} \cup Longer(cfg.rules)
                [] k = 4 -> Policies \cup {none}

(* A form without a default (part 4) leaves the database open for writing.  *)
FormWrites(p) ==
    /\ At(p, "formwrite")
    /\ \/ /\ cfg' \in {[cfg EXCEPT !.rules = q] : q \in Written(part[p])}
          /\ _dbmClose(p, "cfg") /\ Goes(p, "formread")
       \/ part[p] = 4 /\ Goes(p, "form") /\ UNCHANGED <<dbms, cfg>>
    /\ UNCHANGED <<part, own, log, past>>

FormReads(p) ==
    /\ At(p, "formread")
    /\ Opens(p, "cfg", "r", TRUE, "form") \/ Refused(p, "cfg", "r", TRUE, "form")
    /\ UNCHANGED <<part, own, data, past>>

(* The forms are shown, from a database that has to be open: the process    *)
(* ends where it is not.                                                    *)
ShowsForms(p) ==
    /\ At(p, "form")
    /\ IF Found(p, "cfg") THEN _dbmClose(p, "cfg") ELSE ProcessEnds(p)
    /\ Goes(p, "idle")
    /\ part' = [part EXCEPT ![p] = 0]
    /\ UNCHANGED <<own, data, past>>

-----------------------------------------------------------------------------
Killed(p) ==
    /\ ~At(p, "idle") /\ kills < MaxKills
    /\ ProcessEnds(p)
    /\ kills' = kills + 1
    /\ Returns(p, "idle")
    /\ part' = [part EXCEPT ![p] = 0]
    /\ UNCHANGED <<total, Logging, data, requests, made, before>>

Visit(p) ==
    \/ CheckAccess(p) \/ ReadRules(p) \/ ApplyRule(p) \/ Admit(p)
    \/ GetTotal(p) \/ ShowOpens(p) \/ Shows(p)
    \/ dbmOpen(p, "r") \/ dbmOpen(p, "c") \/ dbmClose(p) \/ EndPage(p) \/ CloseAll(p)
    \/ LogOpens(p) \/ LogCreates(p) \/ LogReads(p) \/ LogInserts(p) \/ LogCounts(p) \/ LogCloses(p)

Configures(p) ==
    \/ Configuration(p) \/ ConfCreates(p) \/ ConfInserts(p) \/ ConfReads(p)
    \/ Submits(p) \/ FormOpens(p) \/ FormWrites(p) \/ FormReads(p) \/ ShowsForms(p)

Works(p) == Visit(p) \/ Configures(p)

(* What the log had and who held it, for the history of the others.         *)
UsesLog(p) == pc[p] \in AtLog \cup {"show", "showing"} \/ pc'[p] \in AtLog \cup {"show", "showing"}
Watches(p) ==
    alone' = [q \in Proc |-> IF q = p THEN (IF At(p, "idle") THEN \A r \in Proc \ {p} : ~UsesLog(r) ELSE alone[p])
                             ELSE alone[q] /\ ~UsesLog(p)]

Next == \E p \in Proc :
    /\ Begins(p, "check") \/ Begins(p, "conf") \/ Works(p) \/ Killed(p)
    /\ Watches(p)

Spec == Init /\ [][Next]_vars

(* The system runs every process, and a page has an end.                    *)
FairSpec ==
    /\ Spec
    /\ \A p \in Proc : WF_vars(Works(p) /\ Watches(p)) /\ SF_vars(EndPage(p) /\ Watches(p))

-----------------------------------------------------------------------------
(* Between two requests a process has no database open, whatever the page   *)
(* and the screen opened, found locked, or left.                            *)
HoldsNoneAtRest == \A p \in Proc : At(p, "idle") => HoldsNone(p)

(* The total never exceeds the visits that were to be logged, however stale *)
(* the counters a page has shown, and though a log that could not be opened *)
(* is made anew.                                                            *)
TotalWithinVisits == log.last <= made

(* A request during which no other process used the log raises the total by *)
(* one, whether it showed the counters or not, whatever was killed before.  *)
(* (The total of a log whose maker was killed is -1, as total_count says.)  *)
QuietVisitCounts ==
    [][\A p \in Proc :
          At(p, "loglast") /\ pc'[p] = "logclose" /\ alone[p] => log'.last = before[p] + 1]_vars

(* What the rules say of a visitor.                                         *)
Matching(q, modes) == {i \in DOMAIN q.rules : q.rules[i].matches = "all" /\ q.rules[i].mode \in modes}

Welcome(q) ==
    Cardinality(Matching(q, {"allow"})) >= Cardinality(Matching(q, {"ban"})) + IF q.public THEN 0 ELSE 1

Logs(q) ==
    LET switches == Matching(q, {"log", "nolog"})
    IN  switches = {} \/ q.rules[CHOOSE i \in switches : \A j \in switches : j <= i].mode = "log"

(* The page is shown to whom the rules let pass, logged if they say so; who *)
(* is not welcome or lacks an address is never shown it.                    *)
AccessFollowsRules ==
    [][\A p \in Proc : At(p, "apply") =>
          /\ pc'[p] = "page" =>
                Welcome(policy[p]) /\ Matching(policy[p], {"email"}) = {} /\ Logging'[p] = Logs(policy[p])
          /\ pc'[p] = "close" =>
                ~Welcome(policy[p]) \/ Matching(policy[p], {"email", "password"}) # {}]_<<pc, Logging>>

(* Every request ends: no lock is waited for, and no rule is applied twice. *)
EveryRequestEnds == \A p \in Proc : ~At(p, "idle") ~> At(p, "idle")
=============================================================================
