--------------------------- MODULE ServiceFunctions ---------------------------
(***************************************************************************)
(* The functions a page calls on images, dbm files and database servers, in *)
(* the build that has gd, gdbm, mSQL and Postgres95: what each pops and     *)
(* pushes on every path of its code.                                        *)
(***************************************************************************)
EXTENDS ExprStack

-----------------------------------------------------------------------------
(* gd.c: only what makes an image or a colour gives a number, none when the *)
(* file or the image is not there.                                          *)
ImageCreate(s)           == Gives(s, 2, Number)
ImageCreateFromGif(s)    == MayGive(s, 1, Number)
ImageDestroy(s)          == Drops(s, 1)
ImageColorAllocate(s)    == MayGive(s, 4, Number)
ImageGif(s, args)        == Drops(s, args)
ImageSetPixel(s)         == Drops(s, 4)
ImageLine(s)             == Drops(s, 6)
ImageRectangle(s)        == Drops(s, 6)
ImageFilledRectangle(s)  == Drops(s, 6)
ImageArc(s)              == Drops(s, 8)
ImageFillToBorder(s)     == Drops(s, 5)
ImageFill(s)             == Drops(s, 4)
ImageColorTransparent(s) == Drops(s, 2)
ImageInterlace(s)        == Drops(s, 2)
ImageChar(s)             == Drops(s, 6)

(* Without an array of enough points the image stays on the stack.         *)
ImagePolygon(s) ==
    IF Is(s, 3, Number) THEN Drops(s, 3) ELSE Drops(s, 3) \cup Drops(s, 4)

(* So does the image to copy to when there is none to copy from.           *)
ImageCopyResized(s) == Drops(s, 9) \cup Drops(s, 10)

-----------------------------------------------------------------------------
(* msql.c                                                                  *)
Msql(s)           == Answers(s, 2, Number)
MsqlConnect(s)    == IF Has(s, 1) THEN Drops(s, 1) ELSE Answers(s, 1, Number)
MsqlResult(s)     == MayGive(s, 3, Value \ Read)
MsqlFreeResult(s) == Drops(s, 1)
MsqlNumRows(s)    == MayGive(s, 1, Number)
MsqlNumFields(s)  == MayGive(s, 1, Number)
MsqlField(s)      == MayGive(s, 2, Number \cup Text)
MsqlRegCase(s)    == Gives(s, 1, IF Blank(s, 1) THEN {"empty"} ELSE {"text"})
MsqlTableName(s)  == Gives(s, 2, Text)
MsqlDBName(s)     == Gives(s, 2, Text)
MsqlListTables(s) == MayGive(s, 1, Number)
MsqlListDBs(s)    == MayGive(s, 0, Number)
MsqlCreateDB(s)   == Drops(s, 1)

(* Declared with two arguments, it takes the last one only.                *)
MsqlDropDB(s) == Drops(s, 1)

-----------------------------------------------------------------------------
(* pg95.c: every function that has a value pushes one in any case, but for  *)
(* pg_fieldprtlen of a result that is not there.                            *)
PGexec(s)       == Answers(s, 2, Number)
PG_result(s)    == Answers(s, 3, Value \ Read)
PGfreeResult(s) == Drops(s, 1)
PGconnect(s)    == Answers(s, 5, Number)
PGclose(s)      == Drops(s, 1)
PGnumRows(s)    == Answers(s, 1, Number)
PGnumFields(s)  == Answers(s, 1, Number)
PGfieldName(s)  == Answers(s, 2, Text)
PGfieldType(s)  == Answers(s, 2, Text)
PGfieldNum(s)   == Answers(s, 2, Number)
PGfieldPrtLen(s) == Answers(s, 3, Number) \cup Drops(s, 3)
PGfieldSize(s)  == Answers(s, 2, Number)
PGhost(s)       == Answers(s, 1, Text)
PGdbName(s)     == Answers(s, 1, Text)
PGoptions(s)    == Answers(s, 1, Text)
PGport(s)       == Answers(s, 1, Text)
PGtty(s)        == Answers(s, 1, Text)
PGgetlastoid(s) == Answers(s, 0, Number)

(* mysql.c: the text of an error.  A query that runs ends the server        *)
(* process, since after the loop over its rows row[0] is read of no row.    *)
MySqlQuery(s) == Gives(s, 1, {"text"})

(* goombdb.c: each leaves a text whatever it finds.                        *)
SelectGDB(s) == Gives(s, 1, Text)
InsertGDB(s) == Gives(s, 1, {"text"})
PutGDB(s)    == Gives(s, 1, {"text"})

-----------------------------------------------------------------------------
(* db.c.  What is NULL is not pushed: a fetch from a file that is not open. *)
ListSupportedDBs(s) == Answers(s, 0, {"text"})
dbmOpen(s)     == Gives(s, 2, Number)
dbmClose(s)    == Gives(s, 1, Number)
dbmInsert(s)   == Gives(s, 3, Number)
dbmReplace(s)  == Gives(s, 3, Number)
(* A fault: the NULL of a file that is not open is pushed.                 *)
dbmFetchPushesNull(s) == Gives(s, 2, Text \cup {"null"})
dbmFetch(s)    == MayGive(s, 2, Text)
dbmExists(s)   == Gives(s, 2, Number)
dbmDelete(s)   == Gives(s, 2, Number)
dbmFirstKey(s) == Gives(s, 1, Text)
dbmNextKey(s)  == Gives(s, 2, Text)
=============================================================================
