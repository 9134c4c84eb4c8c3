---------------------------- MODULE MCWorkspaces ----------------------------
(* Workspaces on small instances: three types, and budgets that each allow *)
(* a few of the things users, operators and failures do.                   *)
EXTENDS Workspaces

Type(i, t, s) == [init |-> i, term |-> t, sameShard |-> s]
Allow(events) == [e \in Events |-> IF e \in DOMAIN events THEN events[e] ELSE 0]

\* Everything a type can ask for, on the same shard and on another, and nothing.
MCTypes == {Type(TRUE, TRUE, TRUE), Type(TRUE, TRUE, FALSE), Type(FALSE, FALSE, TRUE)}

MCBudgets == {
    Allow([delete |-> 1, fail |-> 1]),
    Allow([delete |-> 1, restart |-> 1]),
    Allow([inactive |-> 3, restart |-> 1]),
    Allow([inactive |-> 2, fail |-> 1]),
    Allow([shard |-> 2, taken |-> 1])}

\* A type with a terminator, and the budgets of the disagreements with comments.
TermTypes == {Type(FALSE, TRUE, TRUE)}
DeleteBudgets == {Allow([delete |-> 1])}
DeleteInactiveBudgets == {Allow([delete |-> 1, inactive |-> 2])}
====
