-------------------------------- MODULE Calls --------------------------------
(***************************************************************************)
(* How lex.c moves from one text to another and back: include, eval and the *)
(* call of a function push what is being read on the file stack and start a *)
(* parser of their own; the end of a text pops it.  Each text may open      *)
(* blocks, of which the stacks of cond.c keep entries and the brace stack   *)
(* the closers.  ctx is history: the texts entered as the author nests      *)
(* them, and what the interpreter stood at when it entered each.            *)
(***************************************************************************)
EXTENDS Integers, SequencesExt, FiniteSetsExt

CONSTANTS
    File, Page,     \* the files, and the one requested
    Name,           \* names of functions
    Block,          \* the kinds of blocks a text opens
    MaxDepth,       \* bound on the texts entered at one time
    MaxDefs,        \* bound on the functions defined
    MaxBlocks,      \* bound on the blocks open in one text
    MaxBraces,      \* bound on the brace stack
    MaxFd,          \* bound on the descriptors and on the mappings
    Avoided         \* the pitfalls the program keeps clear of

Pitfall == {"mixing", "early return", "unfinished text", "missing file", "redefinition"}

ASSUME CallsAssumption ==
    /\ Page \in File
    /\ MaxDepth \in Nat \ {0} /\ MaxDefs \in Nat /\ MaxBlocks \in Nat /\ MaxBraces \in Nat
    /\ MaxFd \in Nat \ {0}
    /\ Avoided \subseteq Pitfall

(* A text: a mapping of a file, the body of a definition, a string.         *)
Mapped(f, n) == [kind |-> "file", id |-> f, map |-> n]
Body(d)      == [kind |-> "function", id |-> d, map |-> 0]
String       == [kind |-> "eval", id |-> 0, map |-> 0]
NULL         == [kind |-> "none", id |-> 0, map |-> 0]
NoFd == 0
Fd   == 1 .. MaxFd
Def  == 1 .. MaxDefs

VARIABLES
    pa, gsize, gfd, \* the text being read, its size, the descriptor
    CurrentFilename, CurrentFileSize,
    gsb,            \* the file stat found last, of which OpenFile takes the size
    cur_func,       \* the function being executed: a definition, or 0
    eval_mode,
    top,            \* the file stack, innermost last
    functop,        \* the names of the functions, in the order of definition
    frames,         \* fs_top: the functions whose frames are on the stack
    cond, mark,     \* the length of the condition stack, and its marks
    brace,          \* the brace stack: the kinds of block a } would end
    state,          \* of the lexer: within a text, at its end, after the page
    ExitCalled,
    open, maps,     \* open descriptors, and mappings not unmapped
    ctx             \* history

texts == <<pa, gsize, gfd, CurrentFilename, CurrentFileSize, gsb>>
call  == <<cur_func, eval_mode, frames>>
block == <<cond, mark, brace>>
disk  == <<open, maps>>
vars  == <<texts, call, block, disk, top, functop, state, ExitCalled, ctx>>

(* What must be as it was when a text that was entered is left.             *)
Now == [pa |-> pa, gsize |-> gsize, name |-> CurrentFilename, size |-> CurrentFileSize,
        fn |-> cur_func, eval |-> eval_mode, frames |-> frames, cond |-> cond, marks |-> mark]

Text  == [kind : {"file"}, id : File, map : Fd]
         \cup [kind : {"function"}, id : Def, map : {0}] \cup {String, NULL}
Entry == [pa : Text, size : File \cup 0 .. MaxDefs, fd : Fd \cup {NoFd}, filename : File \cup Name]
This  == Last(ctx)

TypeOK ==
    /\ pa \in Text /\ gsize \in File \cup 0 .. MaxDefs /\ gfd \in Fd \cup {NoFd}
    /\ CurrentFilename \in File \cup Name /\ CurrentFileSize \in File \cup 0 .. MaxDefs
    /\ gsb \in File
    /\ cur_func \in 0 .. Len(functop) /\ eval_mode \in BOOLEAN
    /\ top \in Seq(Entry) /\ functop \in Seq(Name) /\ Len(functop) <= MaxDefs
    /\ frames \in Seq(Def) /\ cond \in Nat /\ mark \in Seq(Nat) /\ brace \in Seq(Block)
    /\ state \in {"reading", "end", "over"} /\ ExitCalled \in BOOLEAN
    /\ open \subseteq Fd /\ maps \subseteq Fd
    /\ Len(ctx) = IF state = "over" THEN 0 ELSE Len(top) + 1

Context(kind, fn, text) == [kind |-> kind, fn |-> fn, text |-> text, blocks |-> << >>, seen |-> Now]

Init ==
    /\ pa = Mapped(Page, 1) /\ gsize = Page /\ gfd = 1
    /\ CurrentFilename = Page /\ CurrentFileSize = Page /\ gsb = Page
    /\ cur_func = 0 /\ eval_mode = FALSE
    /\ top = << >> /\ functop = << >> /\ frames = << >>
    /\ cond = 0 /\ mark = << >> /\ brace = << >>
    /\ state = "reading" /\ ExitCalled = FALSE
    /\ open = {1} /\ maps = {1}
    /\ ctx = << Context("page", 0, Mapped(Page, 1)) >>

-----------------------------------------------------------------------------
(* Where the program is, and what it keeps clear of.                        *)
Reading == state = "reading"
OnlyFiles == \A i \in DOMAIN ctx : ctx[i].kind \in {"page", "include"}
Calling   == {i \in DOMAIN ctx : ctx[i].kind = "call"}

(* Faults a property below must catch: no link to the rest of the stack, or *)
(* the file's name for a function's.                                        *)
FilePushAlone(name, size, fd) ==
    /\ Len(ctx) < MaxDepth
    /\ top' = << [pa |-> pa, size |-> size, fd |-> fd, filename |-> name] >>

FilePushFile(name, size, fd) ==
    /\ Len(ctx) < MaxDepth
    /\ top' = Append(top, [pa |-> pa, size |-> size, fd |-> fd, filename |-> CurrentFilename])

FilePush(name, size, fd) ==
    /\ Len(ctx) < MaxDepth
    /\ top' = Append(top, [pa |-> pa, size |-> size, fd |-> fd, filename |-> name])

PushCondMatchMarks == mark' = Append(mark, cond)

(* CondPop until the marked entry is on top: of the entries, of the marks.  *)
Cut(length, marks) == IF marks = << >> THEN length
                      ELSE IF Last(marks) <= length THEN Last(marks) ELSE 0
Drop(s) == IF s = << >> THEN s ELSE Front(s)

FindFunc(name) == LET found == {d \in DOMAIN functop : functop[d] = name}
                  IN  IF found = {} THEN 0 ELSE Max(found)

Fresh(used) == CHOOSE n \in Fd \ used : \A m \in Fd \ used : n <= m

(* A block is opened, or the innermost one closed by endif, endwhile or a } *)
(* that is read as its end.                                                 *)
OpenBlock(b) ==
    /\ Reading
    /\ Len(This.blocks) < MaxBlocks /\ Len(brace) < MaxBraces
    /\ cond' = cond + 1
    /\ brace' = Append(brace, b)
    /\ ctx' = Append(Front(ctx), [This EXCEPT !.blocks = Append(@, b)])
    /\ UNCHANGED <<texts, call, disk, mark, top, functop, state, ExitCalled>>

CloseBlock ==
    /\ Reading
    /\ This.blocks # << >> /\ brace # << >> /\ Last(brace) = Last(This.blocks)
    /\ cond' = IF cond = 0 THEN 0 ELSE cond - 1
    /\ brace' = Front(brace)
    /\ ctx' = Append(Front(ctx), [This EXCEPT !.blocks = Front(@)])
    /\ UNCHANGED <<texts, call, disk, mark, top, functop, state, ExitCalled>>

DefineFunc(name) ==
    /\ Reading
    /\ Len(functop) < MaxDefs
    /\ "redefinition" \in Avoided => \A i \in Calling : functop[ctx[i].fn] # name
    /\ functop' = Append(functop, name)
    /\ UNCHANGED <<texts, call, block, disk, top, state, ExitCalled, ctx>>

Include(f) ==
    /\ Reading
    /\ "mixing" \in Avoided => OnlyFiles
    /\ FilePush(CurrentFilename, CurrentFileSize, gfd)
    /\ Fd \ open # {} /\ Fd \ maps # {}
    /\ pa' = Mapped(f, Fresh(maps)) /\ gsize' = f
    /\ gfd' = Fresh(open)
    /\ open' = open \cup {gfd'} /\ maps' = maps \cup {pa'.map}
    /\ CurrentFilename' = f /\ CurrentFileSize' = f /\ gsb' = f
    /\ ctx' = Append(ctx, Context("include", cur_func, pa'))
    /\ UNCHANGED <<call, block, functop, state, ExitCalled>>

(* Of a file that is not there OpenFile takes the size stat found last: that *)
(* of the file being read, unless another one was opened since.             *)
IncludeMissing ==
    /\ Reading
    /\ "missing file" \in Avoided => gsb = CurrentFileSize
    /\ CurrentFileSize' = gsb
    /\ UNCHANGED <<pa, gsize, gfd, CurrentFilename, gsb, call, block, disk, top, functop, state,
                   ExitCalled, ctx>>

Eval ==
    /\ Reading
    /\ "mixing" \in Avoided => OnlyFiles
    /\ FilePush(CurrentFilename, CurrentFileSize, gfd)
    /\ eval_mode' = TRUE
    /\ pa' = String /\ gsize' = 0
    /\ PushCondMatchMarks
    /\ ctx' = Append(ctx, Context("eval", cur_func, String))
    /\ UNCHANGED <<gfd, CurrentFilename, CurrentFileSize, gsb, cur_func, frames, cond, brace,
                   disk, functop, state, ExitCalled>>

(* Without a function of that name RunFunc does nothing.                    *)
RunFunc(name) ==
    /\ Reading
    /\ FindFunc(name) # 0
    /\ "mixing" \in Avoided => \A i \in DOMAIN ctx : ctx[i].kind # "eval"
    /\ IF cur_func # 0 THEN FilePush(functop[cur_func], gsize, NoFd)
       ELSE FilePush(CurrentFilename, CurrentFileSize, gfd)
    /\ cur_func' = FindFunc(name)
    /\ pa' = Body(cur_func') /\ gsize' = cur_func'
    /\ frames' = Append(frames, cur_func')
    /\ PushCondMatchMarks
    /\ ctx' = Append(ctx, Context("call", cur_func', pa'))
    /\ UNCHANGED <<gfd, CurrentFilename, CurrentFileSize, gsb, eval_mode, cond, brace, disk,
                   functop, state, ExitCalled>>

(* return, or nothing left to read.                                         *)
EndText ==
    /\ Reading
    /\ (IF This.kind = "call" THEN "early return" ELSE "unfinished text") \in Avoided
           => This.blocks = << >>
    /\ state' = "end"
    /\ UNCHANGED <<texts, call, block, disk, top, functop, ExitCalled, ctx>>

(* Faults: the descriptor stays open; the text that included is read on.    *)
UnmapOnly == maps' = maps \ {pa.map} /\ open' = open

Continue == "reading"

(* if(ExitCalled) state=99, the statement after every yyparse().            *)
Resume == IF ExitCalled THEN "end" ELSE "reading"

(* munmap of a text that is no mapping fails; gfd is closed all the same.   *)
Unmap == maps' = maps \ {pa.map} /\ open' = open \ {gfd}

Exit ==
    /\ Reading
    /\ ExitCalled' = TRUE
    /\ Unmap
    /\ pa' = NULL
    /\ state' = "end"
    /\ UNCHANGED <<gsize, gfd, CurrentFilename, CurrentFileSize, gsb, call, block, top, functop, ctx>>

(* The end of a text that another one entered: FilePop, and what follows    *)
(* yyparse in Include, Eval and RunFunc.                                    *)
FilePop ==
    LET s == Last(top)
        marks == IF cur_func # 0 THEN Drop(mark) ELSE mark
        length == IF cur_func # 0 THEN Cut(cond, mark) ELSE cond
    IN  /\ state = "end" /\ top # << >>
        /\ IF s.fd # NoFd /\ pa # NULL /\ cur_func = 0 /\ ~eval_mode THEN Unmap ELSE UNCHANGED disk
        /\ pa' = s.pa /\ gfd' = s.fd
        /\ frames' = IF cur_func # 0 THEN Drop(frames) ELSE frames
        /\ \/ /\ ~eval_mode /\ s.fd = NoFd
              /\ cur_func' = FindFunc(s.filename)
              /\ gsize' = IF cur_func' # 0 THEN cur_func' ELSE s.size
              /\ UNCHANGED <<CurrentFilename, CurrentFileSize>>
           \/ /\ ~eval_mode /\ s.fd # NoFd
              /\ cur_func' = 0
              /\ gsize' = s.size
              /\ CurrentFilename' = s.filename /\ CurrentFileSize' = s.size
           \/ /\ eval_mode
              /\ gsize' = s.size
              /\ UNCHANGED <<cur_func, CurrentFilename, CurrentFileSize>>
        /\ eval_mode' = FALSE
        /\ cond' = IF eval_mode THEN Cut(length, marks) ELSE length
        /\ mark' = IF eval_mode THEN Drop(marks) ELSE marks
        /\ top' = Front(top)
        /\ state' = Resume
        /\ ctx' = Front(ctx)
        /\ UNCHANGED <<gsb, brace, functop, ExitCalled>>

(* The end of the page; main calls Exit, which finds nothing left to do.    *)
EndPage ==
    /\ state = "end" /\ top = << >>
    /\ IF pa # NULL /\ cur_func = 0 /\ ~eval_mode THEN Unmap ELSE UNCHANGED disk
    /\ pa' = NULL
    /\ state' = "over" /\ ExitCalled' = TRUE
    /\ ctx' = << >>
    /\ UNCHANGED <<gsize, gfd, CurrentFilename, CurrentFileSize, gsb, call, block, top, functop>>

Statement ==
    \/ \E b \in Block : OpenBlock(b)
    \/ CloseBlock
    \/ \E n \in Name : DefineFunc(n) \/ RunFunc(n)
    \/ \E f \in File : Include(f)
    \/ IncludeMissing \/ Eval \/ EndText \/ Exit

Next == Statement \/ FilePop \/ EndPage

Spec == Init /\ [][Next]_vars

(* The parser goes on at the end of a text.                                 *)
FairSpec == Spec /\ WF_vars(FilePop \/ EndPage)

-----------------------------------------------------------------------------
(* A text that is left leaves everything as it was where it was entered,    *)
(* whatever it included, evaluated, called or defined, and though it        *)
(* returned from within a block (after exit nothing is read any more).      *)
EachTextResumes == [][Len(ctx') < Len(ctx) /\ ~ExitCalled' => Now' = This.seen]_vars

(* When the page is over, however it ended, no file is left open or mapped. *)
AllClosed == state = "over" => open = {} /\ maps = {}

(* "Fixed Exit bug - it didn't exit when called from an included file"      *)
(* (ChangeLog:88): after exit no text is read on, and the page ends.        *)
ExitEndsPage == [](ExitCalled => ~Reading) /\ (ExitCalled ~> state = "over")

=============================================================================
