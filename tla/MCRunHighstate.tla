-------------------------- MODULE MCRunHighstate --------------------------
(* Minions and what their highstates return, for TLC. *)
EXTENDS RunHighstate, TLC

CONSTANTS m1, m2

\* 1 and 2 are whole returns with results at several depths, 3 and 4 have one
\* result each, that of 4 without a comment, 5 and 6 none: text, as a minion
\* returns it that cannot compile its states or refuses to run them, and an
\* empty dict. 10 looks like a result and is below one.
MCNodes == 1 .. 15

MCKind ==
    [n \in MCNodes |->
        CASE n \in {2, 5, 8} -> "list" [] n = 15 -> "field" [] OTHER -> "dict"]

MCBelow ==
    1 :> {7, 8} @@ 2 :> {11, 12} @@ 3 :> {13} @@ 4 :> {14} @@ 5 :> {15}
    @@ 8 :> {9} @@ 9 :> {10} @@ [n \in MCNodes |-> {}]

MCResultKey ==
    [n \in MCNodes |->
        CASE n \in {7, 9, 11} -> "True" [] n \in {10, 12, 14} -> "False"
          [] n = 13 -> "None" [] OTHER -> "absent"]

MCCommentKey ==
    [n \in MCNodes |->
        CASE n \in {10, 12} -> "requisite" [] n \in {7, 9, 11, 13} -> "own"
          [] OTHER -> "absent"]
=============================================================================
