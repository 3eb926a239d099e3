----------------------------- MODULE Expressions -----------------------------
(***************************************************************************)
(* How the rules of the grammar, the functions of a page and the lexer share *)
(* the expression stack.  A rule is reduced when its values are on the      *)
(* stack; a function the page defines, or a string it evaluates, is run     *)
(* while the caller's values wait below; and the lexer empties the stack at *)
(* the first token it reads after a statement, unless it is in a function,  *)
(* in an evaluated string, or the last name it looked up was return.        *)
(*                                                                         *)
(* here and texts are history: the values that the statement being read has *)
(* pushed and not used yet, what it is still to apply, and the same of the  *)
(* texts that wait, with the stack each of them left.  The texts in a page  *)
(* are functions or evaluated strings; Calls has the mixtures.              *)
(***************************************************************************)
EXTENDS Naturals, SequencesExt, PageFunctions, ServiceFunctions

CONSTANTS
    MaxStack,       \* bound on the values on the stack
    MaxTexts,       \* bound on the texts that wait
    MaxNamed,       \* bound on the functions named and not yet applied
    Avoided         \* the pitfalls the page keeps clear of

Pitfall == {"late clear", "lost value", "discarded value", "nested eval", "argument count", "mktime"}

ASSUME ExpressionsAssumption ==
    /\ MaxStack \in Nat /\ MaxTexts \in Nat /\ MaxNamed \in Nat \ {0}
    /\ Avoided \subseteq Pitfall

VARIABLES stack, ClearIt, LastToken, eval_mode, here, texts
vars == <<stack, ClearIt, LastToken, eval_mode, here, texts>>

Statement == [operands : Seq(Value), named : 0 .. MaxNamed, returns : BOOLEAN]
Fresh     == [operands |-> << >>, named |-> 0, returns |-> FALSE]

TypeOK ==
    /\ stack \in Seq(Value)
    /\ ClearIt \in BOOLEAN /\ eval_mode \in BOOLEAN
    /\ LastToken \in {"return", "another"}
    /\ here \in Statement
    /\ texts \in Seq([kind : {"function", "eval"}, kept : Seq(Value), here : Statement])

Init ==
    /\ stack = << >> /\ texts = << >> /\ here = Fresh
    /\ ClearIt = FALSE /\ LastToken = "another" /\ eval_mode = FALSE

-----------------------------------------------------------------------------
cur_func   == \E i \in DOMAIN texts : texts[i].kind = "function"
Clears(last) == ClearIt /\ last # "return" /\ ~cur_func /\ ~eval_mode

(* The stack once the tokens of what is reduced next have been read.       *)
Lexed      == IF Clears(LastToken) THEN ClearStack ELSE stack
LexedFlag  == ClearIt /\ ~Clears(LastToken)

Above(s, n) == SubSeq(s, IF n < 0 THEN 1 ELSE n + 1, Len(s))
Numbers(n)  == [i \in 1 .. n |-> "number"]
Operands(n) == 0 .. Min({n, Len(here.operands)})

(* Reduces a rule of n values: some are those pushed last, the others are   *)
(* literals read with it.                                                   *)
Reduces(n, F(_), named) ==
    \E k \in Operands(n) : \E s \in F(Lexed \o Numbers(n - k)) :
        /\ Len(s) <= MaxStack
        /\ stack' = s
        /\ here' = [here EXCEPT !.named = named,
                                !.operands = SubSeq(@, 1, Len(@) - k) \o Above(s, Len(Lexed) - k)]
        /\ ClearIt' = LexedFlag
        /\ UNCHANGED <<LastToken, eval_mode, texts>>

Rule(n, F(_))  == Reduces(n, F, here.named)
Calls(n, F(_)) == here.named > 0 /\ Reduces(n, F, here.named - 1)

(* The name of a built-in is looked up, and the token after it is read.     *)
LooksUp(name) ==
    /\ "late clear" \in Avoided => (Clears("another") => here.operands = << >>)
    /\ LastToken' = name
    /\ LET clears == Clears(LastToken) \/ Clears(name)
       IN  stack' = (IF clears THEN ClearStack ELSE stack) /\ ClearIt' = (ClearIt /\ ~clears)
    /\ UNCHANGED <<eval_mode, texts>>

CommandLookup ==
    /\ here.named < MaxNamed
    /\ LooksUp("another")
    /\ here' = [here EXCEPT !.named = @ + 1]

ReturnLookup ==
    /\ here = Fresh
    /\ LooksUp("return")
    /\ here' = [here EXCEPT !.returns = TRUE]

-----------------------------------------------------------------------------
(* Values and operators: the rules of the grammar that call no function.    *)
Add(s)      == Calc(s, "+")
Subtract(s) == Calc(s, "-")
Times(s)    == Calc(s, "*")
Divide(s)   == Calc(s, "/")

Literal   == Rule(0, PushLiteral) \/ Rule(0, PushVar) \/ Rule(0, PushNext) \/ Rule(1, PushIndexed)
Condition == Rule(1, Not) \/ Rule(2, Logic) \/ Rule(2, Compare)
Operator  ==
    \/ Rule(2, Add) \/ Rule(2, Subtract) \/ Rule(2, Times) \/ Rule(2, Divide)
    \/ Rule(1, CalcInc) \/ Rule(1, Neg)

(* The functions of the command table, and those with a rule of their own.  *)
Tokenizes(s) == StrTok(s, TRUE)
GoesOn(s)    == StrTok(s, FALSE)
CryptSalt(s) == Crypt(s, TRUE)
CryptNew(s)  == Crypt(s, FALSE)
DateOf(s)    == Date(s, TRUE)
DateNow(s)   == Date(s, FALSE)

StringCall ==
    \/ Calls(1, StrLen) \/ Calls(1, StrVal) \/ Calls(1, GetType) \/ Calls(2, SetType)
    \/ Calls(1, IntVal) \/ Calls(1, DoubleVal) \/ Calls(1, GoesOn) \/ Calls(2, Tokenizes)
    \/ Calls(1, StrToUpper) \/ Calls(1, StrToLower) \/ Calls(2, StrStr) \/ Calls(2, StrrChr)
    \/ Calls(3, SubStr) \/ Calls(1, UrlEncode) \/ Calls(1, QuoteMeta) \/ Calls(1, Ord)
    \/ Calls(1, UcFirst) \/ Calls(2, Sprintf) \/ Calls(1, Chr) \/ Calls(1, HtmlSpecialChars)
    \/ Calls(1, CryptNew) \/ Calls(2, CryptSalt) \/ Calls(1, Md5) \/ Calls(1, goombencrypt)
    \/ Calls(2, RegMatch) \/ Calls(2, RegSearch) \/ Calls(3, RegReplace)

NumberCall ==
    \/ Calls(1, BinDec) \/ Calls(1, DecBin) \/ Calls(1, DecHex) \/ Calls(1, HexDec)
    \/ Calls(1, OctDec) \/ Calls(1, DecOct) \/ Calls(1, Abs) \/ Calls(1, Exp)
    \/ Calls(1, mathLog) \/ Calls(1, mathLog10) \/ Calls(1, Sin) \/ Calls(1, Cos)
    \/ Calls(1, Tan) \/ Calls(1, Sqrt) \/ Calls(1, Srand) \/ Calls(0, Rand)
    \/ Calls(0, GetRandMax) \/ Calls(0, MicroTime) \/ Calls(0, UnixTime)
    \/ Calls(1, DateNow) \/ Calls(2, DateOf)

VariableCall ==
    \/ Calls(0, IsSet) \/ Calls(0, Reset) \/ Calls(0, End) \/ Calls(0, Key)
    \/ Calls(0, NextItem) \/ Calls(0, Prev) \/ Calls(1, Count) \/ Calls(1, ArrayMax)
    \/ Calls(1, ArrayMin) \/ Calls(1, Sort) \/ Calls(1, SecureVar) \/ Calls(1, PutEnv)
    \/ Calls(1, GetEnv)

FileCall ==
    \/ Calls(1, FileFunc) \/ Calls(2, TempNam) \/ Calls(1, Unlink) \/ Calls(2, Rename)
    \/ Calls(1, Sleep) \/ Calls(1, USleep) \/ Calls(2, Fopen) \/ Calls(2, Popen)
    \/ Calls(1, Fclose) \/ Calls(1, Pclose) \/ Calls(1, Feof) \/ Calls(2, Fgets)
    \/ Calls(2, Fgetss) \/ Calls(2, Fputs) \/ Calls(1, Rewind) \/ Calls(1, Ftell)
    \/ Calls(2, Fseek) \/ Calls(2, ChMod) \/ Calls(2, ChOwn) \/ Calls(2, ChGrp)
    \/ Calls(2, MkDir) \/ Calls(1, File) \/ Calls(2, FSockOpen) \/ Calls(1, cremove)
    \/ Calls(1, OpenDir) \/ Calls(0, CloseDir) \/ Calls(1, ChDir) \/ Calls(0, RewindDir)
    \/ Calls(0, ReadDir)

SystemCall ==
    \/ Calls(1, Exec) \/ Calls(1, EscapeShellCmd) \/ Calls(1, GetHostByAddr)
    \/ Calls(1, GetHostByName) \/ Calls(0, Info) \/ Calls(1, SetErrorReporting)
    \/ Calls(1, SetLogging) \/ Calls(1, SetShowInfo) \/ Calls(0, GetAccDir)
    \/ Calls(0, GetLogDir) \/ Calls(0, GetLogFile) \/ Calls(0, GetLastHost)
    \/ Calls(0, GetLastRef) \/ Calls(0, GetLastEmail) \/ Calls(0, GetLastBrowser)
    \/ Calls(0, GetLastAccess) \/ Calls(0, GetStartLogging) \/ Calls(0, GetLastMod)
    \/ Calls(0, GetTotal) \/ Calls(0, GetToday) \/ Calls(0, GetMyUid) \/ Calls(0, GetMyInode)
    \/ Calls(0, GetMyPid) \/ Calls(0, goombaver)

(* Its rules take one to six values; it pops one more.                     *)
MkTime1(s) == MkTime(s, 1)
MkTime2(s) == MkTime(s, 2)
MkTime6(s) == MkTime(s, 6)
MkTimeCall ==
    /\ "mktime" \in Avoided => Lexed = << >>
    /\ Calls(1, MkTime1) \/ Calls(2, MkTime2) \/ Calls(6, MkTime6)

GifToPage(s) == ImageGif(s, 1)
GifToFile(s) == ImageGif(s, 2)

ImageCall ==
    \/ Calls(2, ImageCreate) \/ Calls(1, ImageCreateFromGif) \/ Calls(1, ImageDestroy)
    \/ Calls(4, ImageColorAllocate) \/ Calls(1, GifToPage) \/ Calls(2, GifToFile)
    \/ Calls(4, ImageSetPixel) \/ Calls(6, ImageLine) \/ Calls(6, ImageRectangle)
    \/ Calls(6, ImageFilledRectangle) \/ Calls(8, ImageArc) \/ Calls(5, ImageFillToBorder)
    \/ Calls(4, ImageFill) \/ Calls(2, ImageColorTransparent) \/ Calls(2, ImageInterlace)
    \/ Calls(6, ImageChar) \/ Calls(4, ImagePolygon) \/ Calls(10, ImageCopyResized)

MsqlCall ==
    \/ Calls(2, Msql) \/ Calls(1, MsqlConnect) \/ Calls(3, MsqlResult)
    \/ Calls(1, MsqlFreeResult) \/ Calls(1, MsqlNumRows) \/ Calls(1, MsqlNumFields)
    \/ Calls(2, MsqlField) \/ Calls(1, MsqlRegCase) \/ Calls(2, MsqlTableName)
    \/ Calls(2, MsqlDBName) \/ Calls(1, MsqlListTables) \/ Calls(0, MsqlListDBs)
    \/ Calls(1, MsqlCreateDB) \/ Calls(2, MsqlDropDB) \/ Calls(1, MySqlQuery)

PostgresCall ==
    \/ Calls(2, PGexec) \/ Calls(3, PG_result) \/ Calls(1, PGfreeResult) \/ Calls(5, PGconnect)
    \/ Calls(1, PGclose) \/ Calls(1, PGnumRows) \/ Calls(1, PGnumFields)
    \/ Calls(2, PGfieldName) \/ Calls(2, PGfieldType) \/ Calls(2, PGfieldNum)
    \/ Calls(3, PGfieldPrtLen) \/ Calls(2, PGfieldSize) \/ Calls(1, PGhost) \/ Calls(1, PGdbName)
    \/ Calls(1, PGoptions) \/ Calls(1, PGport) \/ Calls(1, PGtty) \/ Calls(0, PGgetlastoid)

DbmCall ==
    \/ Calls(2, dbmOpen) \/ Calls(1, dbmClose) \/ Calls(3, dbmInsert) \/ Calls(3, dbmReplace)
    \/ Calls(2, dbmFetch) \/ Calls(2, dbmExists) \/ Calls(2, dbmDelete) \/ Calls(1, dbmFirstKey)
    \/ Calls(2, dbmNextKey) \/ Calls(0, ListSupportedDBs)
    \/ Calls(1, SelectGDB) \/ Calls(1, InsertGDB) \/ Calls(1, PutGDB)

cmd_table ==
    \/ StringCall \/ NumberCall \/ VariableCall \/ FileCall \/ SystemCall \/ MkTimeCall
    \/ ImageCall \/ MsqlCall \/ PostgresCall \/ DbmCall

-----------------------------------------------------------------------------
(* A statement ends: the token that ends it marks the stack to be emptied,  *)
(* and its rule takes the values it is given.                               *)
Ends(n, F(_)) ==
    /\ ~here.returns /\ here.named = 0 /\ Len(here.operands) <= n
    /\ stack' \in F(Lexed \o Numbers(n - Len(here.operands)))
    /\ here' = Fresh
    /\ ClearIt' = TRUE
    /\ UNCHANGED <<LastToken, eval_mode, texts>>

Assigns(s)     == SetVar(s, FALSE)
AssignsItem(s) == SetVar(s, TRUE)
Echo1(s) == Echo(s, 1)
Echo2(s) == Echo(s, 2)
Echo5(s) == Echo(s, 5)

StatementEnds ==
    \/ Ends(1, Assigns) \/ Ends(2, AssignsItem)
    \/ Ends(1, Echo1) \/ Ends(2, Echo2) \/ Ends(5, Echo5)
    \/ Ends(1, Include) \/ Ends(1, Header)

(* An expression alone: its value stays, unless it left none.               *)
ExpressionEnds ==
    /\ ~here.returns /\ here.named = 0 /\ here.operands # << >>
    /\ "discarded value" \in Avoided => texts = << >>
    /\ stack' = Lexed
    /\ here' = Fresh
    /\ ClearIt' = TRUE
    /\ UNCHANGED <<LastToken, eval_mode, texts>>

(* Text that is not live, a definition among it: its names are looked up    *)
(* and its statements end all the same, and nothing is emptied.             *)
SkipsText ==
    /\ here = Fresh
    /\ LastToken' \in {"return", "another"}
    /\ ClearIt' = TRUE
    /\ UNCHANGED <<stack, eval_mode, here, texts>>

-----------------------------------------------------------------------------
(* Another text is entered with n values of the stack, of which it takes m. *)
Enters(kind, n, m, rest) ==
    \E k \in Operands(n) :
        LET given == Lexed \o Numbers(n - k)
        IN  /\ Len(texts) < MaxTexts /\ Len(given) <= MaxStack
            /\ stack' = Rest(given, m)
            /\ texts' = Append(texts, [kind |-> kind, kept |-> Rest(Lexed, k),
                                       here |-> [rest EXCEPT !.operands = SubSeq(@, 1, Len(@) - k)]])
            /\ here' = Fresh
            /\ ClearIt' = LexedFlag
            /\ UNCHANGED LastToken

(* Each parameter the function declares is assigned the value on top.      *)
RunFunc(arguments, params) ==
    /\ "argument count" \in Avoided => arguments = params
    /\ ~eval_mode
    /\ Enters("function", arguments, params, here)
    /\ UNCHANGED eval_mode

EvalText ==
    /\ ~cur_func
    /\ "nested eval" \in Avoided => ~eval_mode
    /\ here.named > 0
    /\ Enters("eval", 1, 1, [here EXCEPT !.named = @ - 1])
    /\ eval_mode' = TRUE

(* Return pushes the end of the text back for the lexer to read, which pops *)
(* the file stack; without one the text ends by itself.  The caller finds   *)
(* whatever was left above its values.                                      *)
FilePop ==
    LET t == Last(texts)
        values == t.here.operands \o Above(stack, Len(t.kept))
        inPage == Len(texts) = 1
    IN  /\ texts # << >> /\ here.named = 0
        /\ Len(here.operands) = IF here.returns THEN 1 ELSE 0
        /\ "lost value" \in Avoided =>
               (inPage /\ LastToken # "return" /\ (ClearIt \/ here.returns) => values = << >>)
        /\ ClearIt' = (ClearIt \/ here.returns)
        /\ eval_mode' = FALSE
        /\ here' = [t.here EXCEPT !.operands = values]
        /\ texts' = Front(texts)
        /\ UNCHANGED <<stack, LastToken>>

Next ==
    \/ Literal \/ Condition \/ Operator \/ CommandLookup \/ ReturnLookup \/ cmd_table
    \/ StatementEnds \/ ExpressionEnds \/ SkipsText
    \/ \E a, p \in 0 .. 2 : RunFunc(a, p)
    \/ EvalText \/ FilePop

Spec == Init /\ [][Next]_vars

-----------------------------------------------------------------------------
(* The values a statement has pushed and not used are on top of the stack,  *)
(* those of the callers are where they left them, and a page's stack, once  *)
(* emptied, has no others: whatever was called, failed or evaluated, no     *)
(* function takes more than it is given, and the stack is not emptied under *)
(* an expression.                                                          *)
OperandsStay ==
    /\ IsSuffix(here.operands, stack)
    /\ \A i \in DOMAIN texts : IsPrefix(texts[i].kept, stack)
    /\ texts = << >> /\ ~ClearIt => stack = here.operands

(* A function that is called puts one value on what its caller had there,   *)
(* or none.                                                                 *)
CallGivesOneValue ==
    [][Len(texts') < Len(texts) =>
           LET kept == Last(texts).kept
           IN  stack' = kept \/ (stack' # << >> /\ Front(stack') = kept)]_vars

=============================================================================
