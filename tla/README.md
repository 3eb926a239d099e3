# GOOMBAServer in TLA+

GOOMBAServer is an interpreter of scripted web pages: a C program that a web
server starts for every request (CGI), keeps running (FastCGI) or links (Apache
module). It reads a page, copies its text to the browser and executes the
statements between markers. This directory holds TLA+ models of its core, the
TLC runs that check them on small instances, and proofs that TLAPS checks for
every instance. Every definition is translated from the sources under
`src/src/`; `PROJECT.json` gives, for each, the lines it stands for.

## 1. The system

### How a request runs

`main` (main.c:42-113) initialises every component, takes POST and then GET
variables (post.c), opens the page (file.c), maps it and calls the parser. The
lexer (lex.c) reads the text under `pa`; the grammar (parse.raw) calls a handler
for every statement. Everything is a global of one process and one thread, so
within a request the difficulty is not concurrency but *long sequences of legal
statements over stacks that several files share*. Between requests there is
concurrency: a server runs many processes, which meet in the log, in dbm files
and in their lock files.

### Components

| Component | State | Operations | Talks to | Hard behaviour | Correct when |
|---|---|---|---|---|---|
| Blocks: cond.c, switch.c, while.c | CondStack, MatchStack, EndBraceStack, SwitchStack, WhileStack, iterwhile | if, elseif, else, endif, switch, case, default, break, endswitch, while, endwhile, `}` | called by the grammar, which first asks `GetCurrentState` and `GetCurrentActive`; the lexer pushes the record of a loop and turns `}` into a closing token | five stacks that must stay in step, in suppressed text too | exactly the selected text is executed; nothing stays behind; no empty stack is followed |
| Scopes: var.c | trees var_main, one per call, one of statics per function; var_top | assign, global, static, unset, call, return, read | `RunFunc` and `FilePop` of lex.c | placeholders that send a search to another tree; recursion; empty trees | a name reads and writes the variable its declarations speak of |
| Texts and calls: lex.c, file.c | pa, gsize, gfd, file stack, cur_func, eval_mode, marks, function list | include, eval, define, call, return, exit, end of text | pushes frames in var.c and marks in cond.c | two globals decide what kind of text ended; return from within a block; exit from within a text | what was entered is left as it was found; exit ends the page; nothing stays open |
| Visit log (mSQL): log.c | row of last<uid>, lock file, cached counts | show counters, count a visit | other server processes through the database and the lock file | overlapping lock files, failing queries, killed processes, midnight | every visit counts once |
| Page log (dbm): log.c | dbm files, cached counts | Log, loadlastinfo, the log pages | db.c | cached counts; several processes | every visit counts once |
| dbm databases: db.c | table of open files, lock files, records of a flat file, a cursor | open, close, insert, replace, fetch, exists, delete, firstkey, nextkey | log.c, acc.c, page | table of open files, locks given back at once, two-step replacement | a key has one value; what was opened can be found and is closed |
| Arrays: var.c, sort.c | the list behind a tree node, cursor lacc, lastnode | assign with index, count, next, prev, end, reset, sort, unset | expression stack | cursor into a changing list | the cursor is inside the list |
| Expression stack: stack.c | list of values, list for re-use | Push, Pop, ClearStack | every handler | a handler that pops less than was pushed | balanced after each statement |
| Request: main.c, post.c, head.c, mod_GOOMBAServer.c, error.c | header flags, ExitCalled | init, TreatData, Header, header, Exit, Error | all | Exit re-entered through Error and Log; GET must not replace POST | one header, before any output; one log entry |
| Access: acc.c, conf.c | list of rules, configuration in a dbm file | CheckAccess, the pages to edit it | db.c, reg.c, Exit | early returns with the file open | the first rule that applies decides; the check ends |
| Pools: pool.c | three arenas and their sizes | alloc, strdup, clear, free | Exit | the limit is met inside an allocation | the limit ends the page once |
| Files and pipes: file.c | table of FILE pointers by descriptor | fopen, popen, fclose, pclose, fgets, fputs, ... | OS | numbers are reused | a number finds the file it was given for |
| mSQL, Postgres95: msql.c, pg95.c, mysql.c | lists of results and connections | connect, query, result, free, close | libraries | results outlive a connection | a handle is freed once |
| gd.c | table of images | create, draw, destroy | gd library | as files | as files |
| Pure functions: calc.c, string.c, date.c, reg.c, type.c, ... | none | one C call each | expression stack | conversions | |
| Output and system: echo.c, info.c, exec.c, fsock.c, dir.c, dns.c, ... | none or one handle | one call each | OS | | |
| regexpr.c, hash.c, parse.c, goombdb.c, goombcrypt.c, cremove.c | vendored, generated, separate tools | | | | |

### Hazards

`PROJECT.json` lists every place where this code is hard to test, with the
properties that watch it, or a note where none does (two: positions of loops in
the text, and the flat file build of db.c; see section 5).

## 2. Modules

| Module | Stands for | Extends |
|---|---|---|
| `Script` | the text of a page as its author nests it: the yardstick, no code | |
| `Blocks` | handlers of cond.c, switch.c, while.c with their grammar rules and the lexer's share | `Script` |
| `PageLanguage` | abstract specification: which text is executed | `Script` |
| `Scopes` | the variable trees of var.c | |
| `ScopeLanguage` | abstract specification: what global, static and local mean | |
| `Calls` | file stack, calls, evals, includes and exit of lex.c with the marks of cond.c | |
| `ExprStack` | the stack of stack.c, values reduced to their kind | |
| `PageFunctions`, `ServiceFunctions` | what each function a page may call pops, when it gives up, and what it pushes | `ExprStack` |
| `Expressions` | the grammar's reductions, calls, evals and the lexer, which empties the stack | the two above |
| `Arrays` | lists behind variables: linked nodes, cursor, last node, copies (var.c, sort.c) | |
| `ArrayLanguage` | abstract specification: an ordered list of indices and values with a cursor | |
| `Request` | one process from request to request: post.c, head.c, error.c, Exit, pool.c | |
| `Handles` | numbers of mSQL and Postgres95 connections and results, and of files and pipes | |
| `Dbm` | table of open databases and locks of db.c (gdbm) | |
| `Site` | access control, the page log and the configuration screen, in concurrent processes over `Dbm` | `Dbm` |
| `HitLog` | MsqlLog of log.c in concurrent processes | |
| `HitCounter` | abstract specification: a counter of visits, total and of the day | |
| `BlocksProofs`, `ScopesProofs`, `CallsProofs`, `ExpressionsProofs`, `RequestProofs`, `HandlesProofs`, `SiteProofs`, `ArraysProofs` | theorems (those on `HitLog` are the second part of `RequestProofs`) | their module, TLAPS |
| `MC...` | constants for TLC | |

`Dbm` is a part of `Site`, which composes acc.c, log.c and db.c as they meet in a
server: through the table of open databases of a process, and through the locks
between processes. `Expressions` composes the two function modules with the
lexer and the calls.

A model keeps every change of state of the code it stands for. Where a program
is able to take the interpreter into a state nothing in the code provides for,
the state is reachable in the model too, behind a name in `Avoided` (`Careful` in
Scopes): a *pitfall*. The runs keep clear of those named in their cfg; section 5
says what each one does.

### Blocks

Variables `cond`, `match`, `brace`, `switches` are the four linked stacks,
innermost last; `whiles` is the length of the loop stack; `again` says that
iterwhile equals SeekPos, i.e. that the lexer is back at the head of the
innermost loop. `If`, `ElseIf`, `Else`, `Switch`, `Case`, `Default`, `Break`,
`While` are the handlers with the condition under which the grammar calls them;
`EndIf`, `EndSwitch`, `EndWhile` what the closing tokens do; `Close` chooses the
token: a keyword names its block, a `}` is whatever is on top of the brace stack
(lex.c:814-828). A condition or the match of a case is a Boolean.

`nest` and `resume` (from `Script`) follow the author's text beside it, and
`astray` notes that the text did what the interpreter is unable to follow: a `}`
taken for another token, a label inside an unfinished dead case (or default
inside any unfinished live one), or endswitch inside an unfinished live case.
Reading stops there.

### Scopes

A tree is a function from its names to nodes; a node is a value or a
placeholder for a global or a static variable. `on_main` is `var_top ==
var_main` inside a call, which is true in the window the code opens for a write
through a global placeholder, and stays true after some calls. `overrun` marks a
`SetVar` that calls itself without end. `program` is chosen once and says which
names, functions and values the page uses and how deep it calls, so that one run
explores several small state spaces instead of their product. `said` is history:
the statement executed last; the refinement to `ScopeLanguage` reads it, so an
effect the code drops is a step the language does not allow. `Careful` restricts
the program to the statements the code handles: it keeps clear of assigning to a
name after unset in the same call, of the first variable of an empty page
assigned through global, of static on the page, and of calls from a function
without variables. The violation run drops it.

### Calls

`top` is the file stack; `frames`, `cond` and `mark` are what RunFunc and Eval
push in var.c and cond.c, `brace` the brace stack, `open` and `maps` what the
process holds of the operating system, `gsb` the file stat found last. `ctx` is
history: the texts entered as the author nests them, with a snapshot of
everything that must be found again. `state` is the lexer's: reading, at the end
of a text (99), page over. After `exit` no text is read, so what its enclosing
texts find is not asked.

### Expressions

A value is its kind: integer, double, text, empty text, or an integer that still
points to the variable it was read from; these decide every path of the
functions. A function is an operator from the stack it meets to the stacks it may
leave, so a path that reports an error and pushes nothing is one of the outcomes.
`Reduces` is a grammar rule or function of n values; `Ends` the end of a
statement, which sets `ClearIt`; the next token the lexer reads empties the stack
(`Lexed`) unless it is inside a function or an eval, or `LastToken` is return.
`here` and `texts` are history: what the statement being read, and those that
wait for a function or eval to return, have pushed and not used.

### Arrays

Every node of a list is a record in a heap of its variable: `next`, `prev`, key
and value; the first is the node of the symbol tree and holds `lacc` (the
cursor), `count` and `lastnode`. Index 9 is never the number of an appended
element, index 1 may be. `Elements` and `Cursor` are the refinement mapping to
`ArrayLanguage`. The addresses are those of the order of allocation, which no
operation looks at.

### Request

`s` is the state a request's functions share: the three pools with their blocks,
units left and sizes, the free list, what has been sent, the flags of head.c and
lex.c, the open databases and the mapping of the text. An allocation that
crosses the limit calls Error and Exit before it goes on, and both allocate; so
every function is an operator from `s` to `s` (`Alloc`, `Error`, `Exit`,
`pool_clear`, `pool_free`) and an action is what a step of main or a statement
does to `s` from beginning to end. `form` says by which method each variable
came. One unit is one allocation; a block holds `PerBlock`.

### Handles

Numbers are what a page holds. `msql` has the socket, the database and port the
code believes in, the one the server has (`selected`), and the list of results;
`pg` connections and results; `fp` the table of files. What a library opens is
an object that is never used again: `freed` counts how often each was given
back, `given` what each number was given for, `used` what the last call used.

### Site

A process is idle, checks access (`check`, `rules`, `apply`), shows the page
(which may open a database of its own and show the counters), logs (`log` to
`logclose`), closes all; or it is on the configuration screen (`conf` to
`formread`). Every open, read, write and close of a database is a step of its
own, since another process may take the lock between two of them; gdbm refuses a
lock at once, and then the code takes its error path. A kill gives the locks
back and may come at any step.

### HitLog

A process goes from idle (waiting for a request) through open, lock, select,
insert, update, unlock and unlink of `MsqlLog`. `row` is the database's,
`lockfn` the file the lock's name leads to, `files` and `owner` the lock files
made and who holds each. A fault is a failed open or query, or a killed process.
`Patient` is the assumption that no lock file is made while an unlinked one is
still open; hitlog_overlap drops it. The specification is `LogSpec`, from
`LogInit` and `LogNext`.

## 3. Runs

| Run | Shows | Bounds |
|---|---|---|
| blocks | `TypeOK`, `LiveIffTaken`, `StacksDrain`, `RecordsPresent` for every text, and `KeepsPromise`: the interpreter implements `PageLanguage` | blocks 4 deep: an if in a case in a switch in a loop, dead or live; brace stack 6, more than the depth, so that left-over braces occur |
| scopes | `TypeOK`, `ReadsWhatItDenotes`, and `KeepsLanguage`: the trees implement `ScopeLanguage` | three programs: two names and both functions two deep; two values and recursion of one; one name, both functions, three deep |
| scopes_new_nodes | violation of `NewNodesAreLocal` (var.c:45) | two calls |
| calls | `TypeOK`, `AllClosed`, `EachTextResumes`, `ExitEndsPage` | four texts deep, three definitions of two names, two blocks in a text, three braces, four descriptors |
| expressions | `TypeOK`, `OperandsStay`, `CallGivesOneValue` | two values on the stack, two texts that wait, two functions named and not yet applied |
| arrays | `TypeOK`, `ListWhole`, and `KeepsArrays`: linked nodes implement `ArrayLanguage` | two variables of up to three and two elements, an index appends give too and one they do not |
| request | `TypeOK`, `HeaderFirst`, `ServedOnce`, `BlocksApart`, `PostStays` | two variables, two units to a block, a limit of three, eight blocks, four pairs and four statements |
| handles | `TypeOK`, `FreedOnce`, `NumbersKeepMeaning`, `SelectedAsThought`, `UsesOpen` | six calls, two databases, two ports |
| site | `TypeOK`, `HoldsNoneAtRest`, `TotalWithinVisits`, `QuietVisitCounts`, `AccessFollowsRules`, `EveryRequestEnds` | two processes, three requests, one kill, four lists of rules |
| hitlog | `LogTypeOK`, `OneVisitCounts`, `NoVisitLost`, `CountsAtomically` | three processes, four visits, two days, no fault, `Patient` |
| hitlog_faults | `NeverOvercounts`, `EveryRequestEnds` | three processes, three visits, two faults, lock files that overlap |
| hitlog_overlap | violation of `NoVisitLost` (log.c:728) | three processes, three visits |

Why the bounds are enough: the handlers of Blocks look at the top two entries of
a stack, so depth four has a block around and inside each pair; the trees of
Scopes meet in a call, its caller and the page; a text of Calls restores what
one file stack entry holds, and four texts put a call under a call under an
include; a function of Expressions is applied to whatever lies on the stack, so
two values and literals beside them meet every path, and a function in a function
has a caller and a caller's caller; a list of three has a first, a middle and a
last node; a limit of three is crossed by each of the allocations of a request in
some history, with blocks that are full, half full and on the free list; six
calls open, lose, close and use two connections and two results; two processes
and a kill between any two steps are what a lock of db.c can be raced by; a race
of the lock file of HitLog needs one process that holds the unlinked file, one
that holds the new one and one that removes it.

Two runs have a VIEW. `Trees` (scopes) leaves out `said` and `Lists` (arrays)
leaves out `out`: no action reads either, so two states that differ in them have
the same steps, and TLC checks the step properties on every step it generates.

Deadlock is not checked where the system may stop: a page ends, visits and the
bounds run out.

Fairness. In HitLog each process step is weakly fair: the operating system runs
every process and hands a released lock on; requests, faults and midnight are
not fair. A kill is a fault, so the liveness does not rest on the absence of
faults. In Site each process is weakly fair too, and the end of the page is
strongly fair: a page may open and close databases and show counters for a
while, but it has an end; rules, forms and the log get no such help. In Calls
only the end of a text and of the page is fair, being the parser's own loop; the
statements of a page are not.

### What the violations say

- scopes_new_nodes: after a call returned to a function without variables,
  var_top stays at the page's tree (var.c:1481) and the next new variable is the
  page's.
- hitlog_overlap: the lock file is unlinked after it is unlocked (log.c:805-816),
  so a waiting process takes the lock of a removed file while the next one
  creates another.

## 4. Proofs

### Blocks, for every depth and every text (BlocksProofs)

`StacksUnfold` is the invariant: the stacks are what unfolding the open blocks
of the text, outermost first, gives (`Unfolds`). `After` says what one open
block adds to the stacks below it: a dead block adds an entry only under some
active flags, which is why `LiveIffTaken` alone is not inductive; what a closing
token uncovers must be known. Each action is shown to open, change or close the
innermost block of the unfolding (`OpenStep`, `ChangeStep` and their kind).
From it follow

- `TypeCorrect`, `ExecutesIffTaken`, `StacksDrained`, `RecordsFound`;
- `InterpreterKeepsPromise`: each step is one of `PageLanguage` under the
  mapping `live <- Shown`, which is `GetCurrentState` until the text goes astray.

No theorem needs an assumption beyond those on the constants.

### Scopes, for any names, functions, values and depth (ScopesProofs)

`ScopesTypeOK` holds for any program. The others assume `Careful` and follow
from `ScopeInv`: var_top is never astray while a call is active, the page's own
nodes are no placeholders, a placeholder is not deleted, and no caller's tree is
empty. None of this is a property of its own; each part is what one of the four
kinds of careless statement breaks, and with one missing the next write goes to
another tree. `Writes` and `Unsets` say, by what the name means in the call,
which tree SetVar and UnSet change: one lemma walks the code's search once, and
everything after it reads the result. `Seen`, `Shown` and `PageVars` are the
variables of the language as the trees hold them.

- `ScopesReadsWhatItDenotes`: reading follows the declarations made.
- `ScopesKeepsLanguage`: each step is one of `ScopeLanguage`, statement by
  statement, so the trees implement it.
- `ScopesNeverOverruns`: SetVar, which calls itself for a global, comes to an end.

### Calls, for any files, names, depths and descriptors (CallsProofs)

`CallInv` reads the file stack off the texts that are entered: what FilePush
saved of a text is what the interpreter stood at when it entered the next one
(`Saved`), and what it stands at within a text is decided by that text, its open
blocks, and what it found at its start (`Fit`, `Enters`). `NestedIn` says so for
every depth at once, which is what makes it inductive: FilePop uncovers an entry
and the invariant has kept what it must hold. `Within` and `OnDisk` are about
what is left after exit: the text may be gone already, but the descriptors and
maps that are open are those of entries still on the stack and of the current
file.

- `CallsTypeOK` and `CallsExitReadsNoMore` assume nothing.
- `CallsAllClosed` and `CallsEachTextResumes` assume that four pitfalls are
  avoided (mixing, unfinished text, missing file, redefinition). The fifth, a
  function that returns from within its blocks, is covered.

### Expressions, for any bounds and depth of calls (ExpressionsProofs)

The stack of `here` has nothing hidden under it. `ExprInv` says what is under
the operands at each level: what the caller left (`Tops`, `Waits`), which only
grows from call to call (`Nested`), and nothing on a page whose stack was
emptied; that the next token does not empty it under an expression (`Unemptied`);
and that functions wait for functions only (`Modes`). `OperandsStay` alone says
neither what the stack was when a caller was left nor that a clear is not
pending, so the step that returns to the caller, and the next token after it,
would break it.

A rule is reduced to what all functions share (`Fits`): it takes no more than
its n values and leaves the rest as it was. One lemma for each group of commands
(`StringsFit`, `FilesFit`, `PostgresFit`, ...) shows it of all of the about 190
functions from the shapes they are written in, on every path, errors included.
mktime does not fit, it pops one more; it is proved apart, for an empty stack.

- `ExpressionsTypeOK` assumes nothing.
- `ExpressionsOperandsStay` and `ExpressionsCallGivesOneValue` assume that all
  six pitfalls are avoided, as the run does; section 5 shows what each one does.

### Visit log, for every number of processes, visits, days (RequestProofs)

- `TypeCorrect` and `NothingCountsTwice` hold with any faults. The second
  needs `CountInv`: the visits not counted yet (`Pending`) and the updates sent
  never exceed the visits made, and no process carries a count above the updates.
- `OneVisitAtATime`, `CountingIsAtomic` and `EveryVisitCounts` assume `Patient`
  and no fault. `SoleInv`: whoever is inside holds the one lock file there is,
  and what it has read is what the row still says. The refinement of
  `HitCounter` follows action by action: `Update` is the visit, all others
  stutter.

### Requests, for every form, limit, block size and page (RequestProofs)

The inductive invariant `Serving` says of the shared state `s` that it is
`Whole`, three things that every function of the request keeps:

- `Memory`: the free list and the chains of the pools hold blocks that were
  malloc'd, each once and in one place, and a pool that has counted an allocation
  has a block. The last part is not asked for by any property: `clear_pool` and
  `destroy_pool` follow the first block of a chain and are called by the size
  alone, so without it they would lose track of the blocks.
- `Talk`: the flag HeaderPrinted and what was sent agree.
- `Served`: Exit has logged once and printed the header, or has not been called.

An allocation that crosses the limit is Report, Exit and the allocation itself
on a state where the pool's size is ahead of its chain; so `Memory(t, X)` exempts
the pools of X, and each lemma says which exemptions it lifts (`Palloc`,
`AllocKeeps`). The lemmas on lists of blocks (`Added`, `Shortened`, `Joined`) say
what adding, taking and joining do to lists that share no block. From it follow
`RequestTypeOK`, `RequestHeaderFirst`, `RequestBlocksApart` and
`RequestPostStays` with no assumption, and `RequestServedOnce` for requests whose
limit is not crossed by the form or inside dbmopen (section 5).

### Handles, for any databases, ports and number of calls (HandlesProofs)

`HoldInv` has a part for each library: what its lists and sockets name is open
and named once, no other list names it, and the numbers given are behind the
counter (`MsqlHeld`, `PgHeld`, `FpHeld`); every object that was opened is in one
of them or was given back. `FreedOnce` does not say that lists are disjoint, and
without it one call could give back what another list still names. The calls
work on records step by step (select, send, add a result); each step has a lemma
that carries its part through, and those of the others stay because their
objects are apart (`MsqlBeside` and its kind). `Bounded` shows that no call runs
out of objects, so the bound of the model hides nothing.

- `HandlesTypeOK`, `HandlesNumbersKeepMeaning` and `HandlesNeverFreedTwice`
  (nothing is given back twice and nothing given back stays listed) assume
  nothing.
- `HandlesFreedOnce` adds that at the end everything was given back: it assumes
  that connections succeed and the list of types is answered;
  `HandlesSelectedAsThought` and `HandlesUsesOpen` each assume the one pitfall
  that breaks them avoided.

### Sites, for any processes, requests, kills and rules (SiteProofs)

Every safety property of the site run, from four inductive invariants:

- `CountInv` for `SiteTotalWithinVisits`: neither the log nor any counter a
  process carries reaches into the visits that are due (`Pending`), however stale
  it is; each step counts nothing, makes a visit due or counts one (`CountStep`).
- `TableInv` for `SiteHoldsNoneAtRest`: `Fit` says which database a process has
  open at each place of its request, and `LockInv` that the locks the library
  keeps are exactly those of the entries in the tables. One lemma for each
  operation of db.c (`TableOpened`, `TableClosed`, ...) carries `LockInv` through
  it. With `MoreTypes` it gives `SiteTypeOK`.
- `QuietInv` for `SiteQuietVisitCounts`: no other process is at the log while a
  request is alone, so an open that is refused means that there is no log
  (`LogUnlocked`), and what the request has read is what it found at its start.
- `AccessInv` for `SiteAccessFollowsRules`: while rules are applied, the balance
  and the switch are those of the first n rules and the rest of the list is still
  to do (`Applied`); the configuration may change meanwhile, the list that is
  applied does not.

The first and the last need no assumption; the others assume that the page has
no database open when another one is opened (section 5, left open).

### Arrays, for any variables, indices and lengths (ArraysProofs)

The order of a list is read off its nodes by a function that walks them (`Path`),
so nothing can be said of a list before it is known that the walk ends. What
makes it end is in no property: a node leads only to one made after it
(`Onward`), whatever pitfalls a page walks into. The walk is then a function
with the equations it was written with (`OneMore`, `AWalk`, `PathStep`, which
take the least node for which they would fail), and `Heap`, that links, last
node and cursor stay within the nodes, is inductive through every call.

- `ArraysTypeOK` follows from it and assumes nothing.

For pages that keep clear of the pitfalls, `Flat` says that a list is its nodes
in the order they were made: node i leads to i + 1 and back to i - 1, count and
last node are the number of nodes, no index is there twice, and what is unset
has one node. `ListWhole` alone is not inductive: it says nothing of nodes a
list no longer reaches, which an append would lead to, nor of what a variable
keeps behind while it is unset, which the next assignment revives. `FlatPath`
reads the walk off `Flat` once; after it the calls are about sequences
(`FlatCreated`, `FlatLinked`, `FlatRevalued`, `FlatCopied`, `FlatUnSet`,
`FlatSorted`). Each call is shown to keep `Flat` and to be the call of the same
name in `ArrayLanguage` (`AssignSaid` ... `ReadSaid`); for sort this includes that
an order exists (`Orders`) and keeps each value as often as it was there.

- `ArraysListWhole` and `ArraysKeepsArrays` (the refinement) assume that all five
  pitfalls are avoided, as the run does.

### Model-checked only

Every safety and step property the passing runs check is stated by a theorem.

Liveness under fairness and ENABLED are outside what the prover does:
`EveryRequestEnds` of HitLog and of Site, and `ExitEndsPage` of Calls. Of the
last, `CallsExitReadsNoMore` is the part about each state: once exit was called
no text is read; that the page then ends stays with TLC.

## 5. Where the code and its language part

The pitfalls the runs keep clear of. Each is a state the code reaches and does
not provide for; the model has it, and a run without the name in `Avoided` shows
what follows.

- *Blocks, `astray`.* In suppressed text `while (x) { }` pushes a brace and its
  `}` is dropped by the grammar with the brace still there (parse.raw:255-263), so
  the `}` of the block around it is read as endwhile and the rest of the page
  stays suppressed (ChangeLog:83-84 says otherwise).
- *Calls, early return.* `PopCondMatchMarks` (cond.c:250-272) cuts conditions and
  matches back to their marks, but never the braces, though a mark for them is
  pushed (ChangeLog:73-74). The run allows the return and compares the rest.
- *Calls, mixing.* `FilePop` decides from `cur_func` and `eval_mode`
  (lex.c:415-438) what kind of text ended: an include called from a function, or
  a call made in an eval, ends as the wrong one.
- *Calls, missing file; redefinition; unfinished text.* A failed include takes
  over the size stat found last (file.c:138-139); a function that is redefined
  while it runs is found by name afterwards (lex.c:424); a file or string that
  ends inside a block of its own leaves it open.
- *Scopes, `Careful`.* The first assignment through a global placeholder to a
  page without variables goes into a node nothing points at (var.c:135-141,
  751-757; comment var.c:59); the rest is listed under Scopes above.
- *Expressions, late clear and lost value.* The stack is emptied by the next token
  after a statement unless the last name looked up was return (lex.c:676-686;
  ChangeLog:158); after a call that ended without one, the value it left, or the
  caller's, is emptied under the expression. *Discarded value*: a function whose
  statements are bare expressions leaves their values to its caller.
  *Argument count*: RunFunc takes as many values as the function declares. *Nested
  eval*: eval_mode is reset by the inner one.
- *Expressions, mktime.* `MkTime` pops one value more than its rule pushed
  (date.c:163). `msql_dropdb` pops one of two; `Neg` and `CalcInc` leave no value
  for a number read from a variable, but the grammar reads one; these are in the
  model and hurt no property by themselves.
- *Arrays.* `$a[] = x` numbers by count, so an index taken by hand is given twice
  (taken number, var.c:470-497); a copy over an array of several elements leaves
  them linked behind the copy (copy over array); a list copied behind an element
  of itself is a loop (array in array, var.c:1521); an element written after
  unset revives the old list (write after unset); `&=` and `|=` on an element do
  nothing (mask element).
- *Request, limit in form and limit in open.* When the limit is crossed while the
  form is read, Exit has logged and closed before the page starts, which is then
  mapped and read; inside dbmopen the database is opened and entered after Exit
  closed them all (db.c:192-216).
- *Handles.* A port set after the first connection is compared with NULL (late
  port, msql.c:191); listing tables selects another database behind CurrentDB
  (tables listed); the type of a field is asked of a connection closed since
  (closed connection, pg95.c:478); a connection that fails stays in the list
  (failed connection, pg95.c:672); an answer without types is never cleared (no
  type list, pg95.c:240). Files are not closed by Exit.
- *Site, left open and bad pattern.* dbmPush never sets the link to the entry
  before (db.c:81), so of two open databases the first is not found again; a rule
  whose pattern does not compile is applied for ever (acc.c:421).

Pool 0 is never cleared or freed (pool.c:129-149, against the comment at
pool.c:225), and `init_pool` forgets the chains of the request before: in a
FastCGI process their blocks are on no list. `BlocksApart` holds because nothing
refers to them; that they come back is not claimed.

## 6. Not modelled

- The flat file build of db.c: a fetch that finds its key hands memory of a pool
  to free (db.c:981), so nothing after it is defined.
- Positions in the text (a loop is recognised by its line: lex.c:880), keywords
  and the generated tables of the parser. The typed comparison of conditions is
  a Boolean in Blocks; its stack discipline is in Expressions.
- The values functions compute (calc.c, string.c, date.c), images and their
  table (gd.c), regular expressions (regexpr.c, vendored), the password hash, the
  Apache module's configuration directives, and the tools, which are programs of
  their own. What functions do to the expression stack is in `PageFunctions` and
  `ServiceFunctions`.
- Formatting, wording and debugging output.

## 7. What the plan has left

1. `Loops`: positions, inWhile, iterwhile.
2. Arrays of functions' frames and increments through Push in `Arrays`, with
   `Scopes`.
