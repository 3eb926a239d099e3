------------------------------ MODULE MCScopes ------------------------------
(* Two functions, one with a parameter and one without, and two names: all  *)
(* of them with one value, one function with two, one name three deep.      *)
EXTENDS Scopes

CONSTANTS f, g, x, y

ParamsOfBoth == [fn \in Function |-> IF fn = f THEN {x} ELSE {}]

Uses(names, functions, values, calls) ==
    [names |-> names, functions |-> functions, values |-> values, calls |-> calls]

Three == {Uses(Name, Function, {0}, 2), Uses(Name, {f}, {0, 1}, 2), Uses({x}, Function, {0, 1}, 3)}
Short == {Uses(Name, Function, {0}, 2)}

(* Statements do not ask whose turn it is: a state is explored once.        *)
Trees == <<program, var_main, frames, on_main, static, running, overrun>>
=============================================================================
