------------------------------- MODULE Scopes -------------------------------
(***************************************************************************)
(* How var.c keeps variables: one tree for the page, one for each active    *)
(* call, one of static variables for each function.  var_top points at the  *)
(* tree being searched; a node of a call's tree may be a placeholder that   *)
(* sends the search to the page's tree or to the function's static one.     *)
(* Values are atoms, names are not those of environment variables, and a    *)
(* tree is the function from its names to its nodes.                        *)
(***************************************************************************)
EXTENDS Naturals, SequencesExt

CONSTANTS Name, Function,
          Value, Zero,  \* what a node may hold; Zero is the text "0"
          NoValue,      \* what a deleted node holds
          Params,       \* Params[f] names the parameters of f
          MaxCalls,     \* bound on the calls active at one time
          Programs,     \* the names, functions and values each uses, and how
                        \* deep it calls: a state space each, not their product
          Careful       \* TRUE: only programs that keep clear of Pitfalls

ASSUME ScopesAssumption ==
    /\ Zero \in Value /\ NoValue \notin Value
    /\ Params \in [Function -> SUBSET Name]
    /\ MaxCalls \in Nat
    /\ Programs \subseteq [names : SUBSET Name, functions : SUBSET Function, values : SUBSET Value, calls : 0 .. MaxCalls]
    /\ Careful \in BOOLEAN

Node == [scope : {"local", "global", "static"}, val : Value \cup {NoValue}]
Tree == UNION {[D -> Node] : D \in SUBSET Name}

VARIABLES
    program,        \* which of Programs is running
    var_main,       \* the page's tree
    frames,         \* fs_top: the trees of the active calls, innermost last
    on_main,        \* in a call, var_top = var_main
    running,        \* the functions of the active calls: the last is cur_func
    static,         \* the static tree of every function
    overrun,        \* SetVar called itself without end
    said            \* history: the statement executed last, and the parity of
                    \* its number, so that one that loses its effect is a step

vars == <<program, var_main, frames, on_main, running, static, overrun, said>>

Empty == [x \in {} |-> [scope |-> "local", val |-> Zero]]

TypeOK ==
    /\ program \in Programs
    /\ var_main \in Tree
    /\ frames \in Seq(Tree)
    /\ on_main \in BOOLEAN
    /\ running \in Seq(Function) /\ Len(running) = Len(frames)
    /\ static \in [Function -> Tree]
    /\ overrun \in BOOLEAN
    /\ said.turn \in {0, 1}

Init ==
    /\ program \in Programs
    /\ var_main = Empty /\ frames = << >> /\ on_main = FALSE
    /\ running = << >> /\ static = [f \in Function |-> Empty]
    /\ overrun = FALSE
    /\ said = [does |-> "nothing", of |-> << >>, turn |-> 0]

-----------------------------------------------------------------------------
InCall   == frames # << >>
Frame    == Last(frames)
cur_func == Last(running)
OnPage   == ~InCall \/ on_main
var_top  == IF OnPage THEN var_main ELSE Frame

Find(tree, x) == IF x \in DOMAIN tree THEN tree[x].val ELSE NoValue

(* A node that exists is given the value and keeps its scope, also when it  *)
(* was deleted.                                                             *)
Put(tree, x, v, scope) ==
    [y \in DOMAIN tree \cup {x} |->
        IF y # x THEN tree[y]
        ELSE [scope |-> IF x \in DOMAIN tree THEN tree[x].scope ELSE scope, val |-> v]]

Refers(x, scope) == x \in DOMAIN var_top /\ var_top[x].scope = scope

GetVarSkipsStatics(x) ==
    IF ~OnPage /\ Refers(x, "global") /\ Frame[x].val # NoValue THEN Find(var_main, x)
    ELSE Find(var_top, x)

GetVar(x) ==
    IF ~OnPage /\ Refers(x, "global") /\ Frame[x].val # NoValue THEN Find(var_main, x)
    ELSE IF ~OnPage /\ Refers(x, "static") /\ Frame[x].val # NoValue THEN Find(static[cur_func], x)
    ELSE Find(var_top, x)

SetFrame(tree)  == frames' = Append(Front(frames), tree)
SetStatic(x, v) == static' = [static EXCEPT ![cur_func] = Put(@, x, v, "local")]

(* A node the tree var_top points at does not have: the first node of a     *)
(* call becomes its frame.                                                  *)
Create(x, v, scope) ==
    IF InCall /\ var_top = Empty
    THEN SetFrame(Put(Empty, x, v, scope)) /\ UNCHANGED var_main
    ELSE IF OnPage
    THEN var_main' = Put(var_main, x, v, scope) /\ UNCHANGED frames
    ELSE SetFrame(Put(Frame, x, v, scope)) /\ UNCHANGED var_main

Replace(x, v) ==
    IF OnPage THEN var_main' = Put(var_main, x, v, "local") /\ UNCHANGED frames
              ELSE SetFrame(Put(Frame, x, v, "local")) /\ UNCHANGED var_main

(* Through a placeholder into the page's tree: var_top is set back to the   *)
(* frame afterwards, so the first node of an empty page is lost.            *)
SetThroughGlobal(x, v, scope) ==
    LET known == x \in DOMAIN var_main
    IN  /\ IF known /\ var_main[x].scope = "global" /\ scope # "global"
           THEN overrun' = TRUE /\ UNCHANGED <<var_main, static>>
           ELSE /\ UNCHANGED overrun
                /\ IF known /\ var_main[x].scope = "static" /\ scope # "static"
                   THEN SetStatic(x, v) /\ UNCHANGED var_main
                   ELSE /\ var_main' = IF var_main = Empty THEN var_main
                                       ELSE Put(var_main, x, v, scope)
                        /\ IF scope = "static" /\ ~known /\ Find(static[cur_func], x) = NoValue
                           THEN SetStatic(x, v) ELSE UNCHANGED static
        /\ on_main' = FALSE
        /\ UNCHANGED frames

(* scope is what the mode argument asks for: "local" for an assignment.    *)
SetVar(x, v, scope) ==
    \/ /\ InCall /\ Refers(x, "global") /\ scope # "global"
       /\ SetThroughGlobal(x, v, scope)
    \/ /\ InCall /\ Refers(x, "static") /\ scope # "static"
       /\ SetStatic(x, v)
       /\ on_main' = FALSE
       /\ UNCHANGED <<var_main, frames, overrun>>
    \/ /\ x \in DOMAIN var_top
       /\ ~(InCall /\ Refers(x, "global") /\ scope # "global")
       /\ ~(InCall /\ Refers(x, "static") /\ scope # "static")
       /\ Replace(x, v)
       /\ UNCHANGED <<on_main, static, overrun>>
    \/ /\ x \notin DOMAIN var_top
       /\ Create(x, v, scope)
       /\ IF InCall /\ scope = "static"
          THEN /\ IF Find(static[cur_func], x) = NoValue
                  THEN SetStatic(x, v) ELSE UNCHANGED static
               /\ on_main' = FALSE
          ELSE /\ on_main' = (on_main /\ var_top # Empty)
               /\ UNCHANGED static
       /\ UNCHANGED overrun

-----------------------------------------------------------------------------
(* What a careful program keeps clear of.                                  *)
DeletedHere(x)   == InCall /\ x \in DOMAIN Frame
                    /\ \/ Frame[x].val = NoValue
                       \/ Frame[x].scope = "static" /\ Find(static[cur_func], x) = NoValue
LostOnPage(x)    == InCall /\ Refers(x, "global") /\ var_main = Empty
StaticOnPage(x)  == x \notin DOMAIN var_main /\ (~InCall \/ Refers(x, "global"))
EmptyCaller      == InCall /\ Frame = Empty

Assign(x, v) ==
    /\ Careful => ~LostOnPage(x)
    /\ SetVar(x, v, "local")
    /\ UNCHANGED running

(* Not modelled: a name whose page node, made by a static statement and     *)
(* deleted since, is declared global with var_top astray.                  *)
DeclareGlobal(x) ==
    /\ InCall
    /\ ~(on_main /\ Refers(x, "static"))
    /\ Careful => ~DeletedHere(x)
    /\ IF GetVar(x) = NoValue THEN SetVar(x, Zero, "global")
       ELSE UNCHANGED <<var_main, frames, on_main, static, overrun>>
    /\ UNCHANGED running

DeclareStatic(x, v) ==
    /\ Careful => ~DeletedHere(x) /\ ~StaticOnPage(x)
    /\ SetVar(x, v, "static")
    /\ UNCHANGED running

(* deletearray marks the node GetVar returned.                             *)
UnSet(x) ==
    /\ GetVar(x) # NoValue
    /\ IF ~OnPage /\ Refers(x, "static")
       THEN SetStatic(x, NoValue) /\ UNCHANGED <<var_main, frames>>
       ELSE /\ IF OnPage \/ Refers(x, "global")
               THEN var_main' = Put(var_main, x, NoValue, "local") /\ UNCHANGED frames
               ELSE SetFrame(Put(Frame, x, NoValue, "local")) /\ UNCHANGED var_main
            /\ UNCHANGED static
    /\ UNCHANGED <<on_main, running, overrun>>

(* RunFunc: PushStackFrame, then SetVar for every parameter.               *)
RunFunc(f, args) ==
    /\ Len(frames) < program.calls
    /\ Careful => ~EmptyCaller
    /\ frames' = Append(frames, [x \in Params[f] |-> [scope |-> "local", val |-> args[x]]])
    /\ running' = Append(running, f)
    /\ on_main' = FALSE
    /\ UNCHANGED <<var_main, static, overrun>>

PopKeepsFunction ==
    /\ InCall
    /\ frames' = Front(frames)
    /\ on_main' = (Len(frames) > 1 /\ Last(Front(frames)) = Empty)
    /\ UNCHANGED <<var_main, static, overrun, running>>
PopToPage ==
    /\ InCall
    /\ frames' = Front(frames)
    /\ running' = Front(running)
    /\ on_main' = (Len(frames) > 1)
    /\ UNCHANGED <<var_main, static, overrun>>

(* FilePop of a function: PopStackFrame.                                   *)
PopStackFrame ==
    /\ InCall
    /\ frames' = Front(frames)
    /\ running' = Front(running)
    /\ on_main' = (Len(frames) > 1 /\ Last(Front(frames)) = Empty)
    /\ UNCHANGED <<var_main, static, overrun>>

Says(does, of) == said' = [does |-> does, of |-> of, turn |-> 1 - said.turn]

Next ==
    /\ ~overrun
    /\ UNCHANGED program
    /\ \/ \E x \in program.names, v \in program.values :
              \/ Assign(x, v) /\ Says("assign", <<x, v>>)
              \/ DeclareStatic(x, v) /\ Says("static", <<x, v>>)
       \/ \E x \in program.names :
              \/ DeclareGlobal(x) /\ Says("global", <<x>>)
              \/ UnSet(x) /\ Says("unset", <<x>>)
       \/ \E f \in program.functions : \E args \in [Params[f] -> program.values] :
              RunFunc(f, args) /\ Says("call", <<f, args>>)
       \/ PopStackFrame /\ Says("return", << >>)

Spec == Init /\ [][Next]_vars

-----------------------------------------------------------------------------
(* Every step of a careful program does to its variables what the language  *)
(* says: a call's names are its own, a global one is the page's, a static   *)
(* one is kept between the calls of its function.                           *)
Meaning(tree, x) == IF x \in DOMAIN tree THEN tree[x].scope ELSE "local"

Visible(i) ==
    [fn     |-> running[i],
     means  |-> [x \in Name |-> Meaning(frames[i], x)],
     locals |-> [x \in Name |-> IF Meaning(frames[i], x) = "local"
                                THEN Find(frames[i], x) ELSE NoValue]]

Language == INSTANCE ScopeLanguage WITH
    page  <- [x \in Name |-> Find(var_main, x)],
    calls <- [i \in DOMAIN frames |-> Visible(i)],
    kept  <- [f \in Function |-> [x \in Name |-> Find(static[f], x)]]

(* The trees implement the language, step by step: a careful program's      *)
(* statement, call and return does what that statement of the language      *)
(* does, whichever tree and placeholder it goes through.  A refinement      *)
(* alone would let a write that gets lost pass for a stutter.               *)
KeepsLanguage ==
    /\ Language!LangInit
    /\ [][LET of == said'.of
          IN  \/ said'.does = "assign" /\ Language!Assign(of[1], of[2])
              \/ said'.does = "static" /\ Language!DeclareStatic(of[1], of[2])
              \/ said'.does = "global" /\ Language!DeclareGlobal(of[1])
              \/ said'.does = "unset"  /\ Language!Unset(of[1])
              \/ said'.does = "call"   /\ Language!Call(of[1], of[2])
              \/ said'.does = "return" /\ Language!Return]_vars

(* What is read is what the language says a name denotes: the tree search   *)
(* through placeholders finds the variable the declarations speak of.      *)
ReadsWhatItDenotes == \A x \in Name : GetVar(x) = Language!Denotes(x)

(* var.c:45 says of SetVar: "New nodes are automatically assigned a scope   *)
(* local to the current frame".  So in a call only a name declared global   *)
(* gets a new node among the page's variables.                             *)
NewNodesAreLocal ==
    [][InCall /\ Len(frames') = Len(frames)
        => \A x \in DOMAIN var_main' \ DOMAIN var_main : Meaning(Frame, x) = "global"]_vars

=============================================================================
