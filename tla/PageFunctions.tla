---------------------------- MODULE PageFunctions ----------------------------
(***************************************************************************)
(* The functions a page calls on values, files and the system: what each of *)
(* them pops and pushes on every path of its code.                          *)
(***************************************************************************)
EXTENDS ExprStack

-----------------------------------------------------------------------------
(* calc.c                                                                  *)
(* A string takes + and - only: any other operator leaves nothing.         *)
Calc(s, op) ==
    IF ~Has(s, 2) THEN Drops(s, 2)
    ELSE CASE Arg(s, 2) \in Number \cup Read -> Gives(s, 2, Number \cup IF op = "/" THEN {"text"} ELSE {})
           [] Arg(s, 2) \in Double -> Gives(s, 2, Double \cup IF op = "/" THEN {"text"} ELSE {})
           [] op = "+" -> Gives(s, 2, IF Blank(s, 1) /\ Blank(s, 2) THEN {"empty"} ELSE {"text"})
           [] op = "-" -> Gives(s, 2, Number \cup Text)
           [] OTHER -> Drops(s, 2)

(* The result goes to the variable the value was read from, else to the     *)
(* stack; a double or a text may be one of a variable too.                  *)
ToVariableOr(s, v) ==
    IF Is(s, 1, Number) THEN Gives(s, 1, {v})
    ELSE IF Is(s, 1, Read) THEN Drops(s, 1) ELSE MayGive(s, 1, {v})
CalcInc(s) == ToVariableOr(s, IF Is(s, 1, Double) THEN "double" ELSE "number")
Neg(s)     == ToVariableOr(s, "number")

BinDec(s) == Gives(s, 1, Number)
DecBin(s) == Gives(s, 1, Text)
DecHex(s) == Gives(s, 1, Text)
HexDec(s) == Gives(s, 1, Number)
OctDec(s) == Gives(s, 1, Number)
DecOct(s) == Gives(s, 1, Text)
Abs(s)    == Gives(s, 1, IF Is(s, 1, Double) THEN Double ELSE IF Is(s, 1, Text) THEN {"text"} ELSE Number)
Exp(s)       == Gives(s, 1, Double)
mathLog(s)   == Gives(s, 1, Double)
mathLog10(s) == Gives(s, 1, Double)
Sin(s)       == Gives(s, 1, Double)
Cos(s)       == Gives(s, 1, Double)
Tan(s)       == Gives(s, 1, Double)
Sqrt(s)      == Gives(s, 1, Double)

(* cond.c: conditions leave a number.                                      *)
Logic(s)   == Gives(s, 2, Number)
Compare(s) == Gives(s, 2, Number)
Not(s)     == Gives(s, 1, Number)

-----------------------------------------------------------------------------
(* string.c                                                                *)
StrLen(s)    == Gives(s, 1, Number)
StrVal(s)    == Gives(s, 1, IF Blank(s, 1) THEN {"empty"} ELSE {"text"})
GetType(s)   == Gives(s, 1, {"text"})
SetType(s)   == Drops(s, 2)
IntVal(s)    == Gives(s, 1, Number)
DoubleVal(s) == Gives(s, 1, Double)
StrTok(s, init) == Gives(s, IF init THEN 2 ELSE 1, Text)
StrToUpper(s) == Gives(s, 1, Text)
StrToLower(s) == Gives(s, 1, Text)
(* A fault: one value too many is popped.                                  *)
StrStrTakesThree(s) == Gives(s, 3, Text)
StrStr(s)     == Gives(s, 2, Text)
StrrChr(s)    == Gives(s, 2, Text)
SubStr(s)     == Gives(s, 3, Text)
UrlEncode(s)  == Gives(s, 1, Text)
QuoteMeta(s)  == Gives(s, 1, Text)
Ord(s)        == Gives(s, 1, Number)
UcFirst(s)    == Gives(s, 1, IF Is(s, 1, Text \cup Double) THEN {Arg(s, 1)} ELSE Number)
Sprintf(s)    == Gives(s, 2, Text)
Chr(s)        == Gives(s, 1, Number \cup Text)
HtmlSpecialChars(s) == Gives(s, 1, Text)
Crypt(s, mode)  == Gives(s, IF mode THEN 2 ELSE 1, Text)
Md5(s)          == Gives(s, 1, {"text"})
goombencrypt(s) == Gives(s, 1, Text)

(* reg.c: the registers go to an array, one push and one SetVar of two      *)
(* values each.                                                             *)
RegMatch(s)   == Gives(s, 2, Number)
RegSearch(s)  == Gives(s, 2, Number \cup Text)
RegReplace(s) == Gives(s, 3, Number \cup Text)

(* date.c.  MkTime pops once before its loop and once in every round of it. *)
Date(s, arg)    == Gives(s, IF arg THEN 2 ELSE 1, Text)
UnixTime(s)     == Answers(s, 0, Number)
MkTime(s, args) == Answers(s, args + 1, Number)

Srand(s)      == Drops(s, 1)
Rand(s)       == Answers(s, 0, Number)
GetRandMax(s) == Answers(s, 0, Number)
MicroTime(s)  == Answers(s, 0, {"text"})
goombaver(s)  == Answers(s, 0, {"text"})

-----------------------------------------------------------------------------
(* var.c: the functions that look at a variable.                           *)
IsSet(s)    == Answers(s, 0, Number)
Reset(s)    == Answers(s, 0, Value \ Read)
End(s)      == Answers(s, 0, Value \ Read)
Key(s)      == Answers(s, 0, Text)
NextItem(s) == Answers(s, 0, Value \ Read)
Prev(s)     == Answers(s, 0, Value \ Read)
Count(s)    == Gives(s, 1, Number)
(* Of an array the largest, else the value itself, a double as a number.    *)
ArrayMax(s) == Gives(s, 1, IF Is(s, 1, Number) THEN Number ELSE Value \ Read)
ArrayMin(s) == Gives(s, 1, IF Is(s, 1, Number) THEN Number ELSE Value \ Read)
PutEnv(s)   == Drops(s, 1)
GetEnv(s)   == IF Blank(s, 1) THEN Drops(s, 1) ELSE MayGive(s, 1, Text)
SecureVar(s) == Drops(s, 1)
Sort(s)      == Drops(s, 1)

(* SetVar takes the value, and the index first pushed under it; the name of *)
(* a variable variable is looked up only then.                              *)
(* A fault: the index stays.                                              *)
SetVarKeepsIndex(s, indexed) == Drops(s, 1)

SetVar(s, indexed) == Drops(s, IF indexed THEN 2 ELSE 1)
Echo(s, args)      == Drops(s, args)

-----------------------------------------------------------------------------
(* file.c.  A name, mode or text that is empty ends the function before it  *)
(* has popped its other values.                                             *)
FileFunc(s) == Gives(s, 1, Number)
TempNam(s)  == MayGive(s, 2, {"text"})
Unlink(s)   == Drops(s, 1)
Rename(s)   == IF Blank(s, 1) THEN Drops(s, 1)
               ELSE IF Blank(s, 2) THEN Drops(s, 2) ELSE Gives(s, 2, Number)
Sleep(s)    == Drops(s, 1)
USleep(s)   == Drops(s, 1)
Fopen(s)    == Gives(s, IF Blank(s, 1) THEN 1 ELSE 2, Number)
Popen(s)    == Gives(s, IF Blank(s, 1) THEN 1 ELSE 2, Number)
Fclose(s)   == Drops(s, 1)
Pclose(s)   == Drops(s, 1)
Feof(s)     == MayGive(s, 1, Number)
Fgets(s)    == MayGive(s, 2, Text)
Fgetss(s)   == MayGive(s, 2, Text)
Fputs(s)    == IF Blank(s, 1) THEN Drops(s, 1) ELSE MayGive(s, 2, {"text"})
Rewind(s)   == Drops(s, 1)
Ftell(s)    == MayGive(s, 1, Number)
Fseek(s)    == MayGive(s, 2, Number)
ChMod(s)    == Gives(s, 2, Number)
ChOwn(s)    == Drops(s, 1) \cup Gives(s, 2, Number)
ChGrp(s)    == Drops(s, 1) \cup Gives(s, 2, Number)
MkDir(s)    == Gives(s, 2, Number)
File(s)     == IF Blank(s, 1) THEN Gives(s, 1, Number) ELSE Gives(s, 1, Number \cup Read \cup Text)
FSockOpen(s) == Gives(s, 2, Number)
cremove(s)   == Drops(s, 1)

(* exec.c: without a process nothing is pushed.                            *)
Exec(s)           == MayGive(s, 1, Text)
EscapeShellCmd(s) == Gives(s, 1, IF Is(s, 1, Text \cup Double) THEN {Arg(s, 1)} ELSE Number)

(* dir.c, dns.c                                                            *)
OpenDir(s)   == Drops(s, 1)
CloseDir(s)  == Drops(s, 0)
ChDir(s)     == Gives(s, 1, Number)
RewindDir(s) == Drops(s, 0)
ReadDir(s)   == MayGive(s, 0, Text)
GetHostByAddr(s) == Gives(s, 1, Text)
GetHostByName(s) == Gives(s, 1, Text)

-----------------------------------------------------------------------------
(* The server's own settings and the page's log.                           *)
Info(s)              == Drops(s, 0)
SetErrorReporting(s) == Gives(s, 1, Number)
SetLogging(s)        == Drops(s, 1)
SetShowInfo(s)       == Drops(s, 1)
GetAccDir(s)      == Answers(s, 0, Text)
GetLogDir(s)      == Answers(s, 0, Text)
GetLogFile(s)     == Answers(s, 0, Text)
GetLastHost(s)    == Answers(s, 0, Text)
GetLastRef(s)     == Answers(s, 0, Text)
GetLastEmail(s)   == Answers(s, 0, Text)
GetLastBrowser(s) == Answers(s, 0, Text)
GetLastAccess(s)   == Answers(s, 0, {"text"})
GetStartLogging(s) == Answers(s, 0, {"text"})
GetLastMod(s)      == Answers(s, 0, {"text"})
GetTotal(s)        == Answers(s, 0, {"text"})
GetToday(s)        == Answers(s, 0, {"text"})
GetMyUid(s)   == MayGive(s, 0, Number)
GetMyInode(s) == MayGive(s, 0, Number)
GetMyPid(s)   == Answers(s, 0, Number)
Include(s)    == Drops(s, 1)
Eval(s)       == Drops(s, 1)
Header(s)     == Drops(s, 1)
=============================================================================
