-------------------------- MODULE MCSubscriptions --------------------------
(***************************************************************************)
(* Two operations: two views of the tasks on one connection, a job list    *)
(* and a detail on one connection, or a task view and a detail on two.     *)
(***************************************************************************)
EXTENDS Subscriptions

CONSTANTS c1, c2, o1, o2

View(a, b) == [o \in Op |-> IF o = o1 THEN a ELSE b]
MCViews == {View(<<"task", c1>>, <<"task", c1>>), View(<<"job", c1>>, <<"detail", c1>>),
            View(<<"task", c1>>, <<"detail", c2>>)}
=============================================================================
