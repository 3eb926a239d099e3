------------------------------- MODULE MCSite -------------------------------
(* Two processes, and owners who configure four lists of rules.             *)
EXTENDS Site

All(mode)  == [mode |-> mode, matches |-> "all"]
Some(mode) == [mode |-> mode, matches |-> "none"]

MCPolicies == {
    Shown,
    [public |-> FALSE, rules |-> <<Some("ban"), All("allow"), All("nolog")>>],
    [public |-> FALSE, rules |-> <<All("password"), All("allow"), All("ban")>>],
    [public |-> TRUE,  rules |-> <<All("email")>>] }
=============================================================================
