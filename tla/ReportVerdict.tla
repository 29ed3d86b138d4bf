----------------------------- MODULE ReportVerdict -----------------------------
(***************************************************************************)
(* What the incremental report promises its reader, without stages, passes *)
(* or step logs: runs verify items that meet the pillar and no other, what *)
(* a run verified is kept for the next one unless a save is cut short,     *)
(* and a run that comes to a verdict has verified every item it could.     *)
(* Nothing is promised of the items whose entries a cut save has damaged.  *)
(***************************************************************************)
EXTENDS Naturals

VARIABLES
    items,      \* the items of the report
    good,       \* those that meet the pillar, by definition
    damaged,    \* those whose entries a cut save has damaged
    verified,   \* the others the running (or last) process verified
    saved,      \* the others the saved report says are verified
    outcome     \* "none", "running", "succeeded", "failed" or "aborted"

vars == <<items, good, damaged, verified, saved, outcome>>

Init ==
    /\ good \subseteq items
    /\ damaged = {} /\ verified = {} /\ saved = {}
    /\ outcome = "none"

Begin ==
    /\ outcome # "running"
    /\ outcome' = "running"
    /\ verified' = saved
    /\ UNCHANGED <<items, good, damaged, saved>>

Verify(i) ==
    /\ outcome = "running"
    /\ i \in good
    /\ verified' = verified \cup {i}
    /\ UNCHANGED <<items, good, damaged, saved, outcome>>

Persist ==
    /\ outcome = "running"
    /\ saved' = verified
    /\ UNCHANGED <<items, good, damaged, verified, outcome>>

\* A verdict is only given when nothing is left to verify, and all is saved.
Conclude ==
    /\ outcome = "running"
    /\ verified = good \ damaged /\ saved = verified
    /\ \/ outcome' = "succeeded" /\ items \ damaged \subseteq good
       \/ outcome' = "failed" /\ (damaged # {} \/ good # items)
    /\ UNCHANGED <<items, good, damaged, verified, saved>>

\* A run may end without a verdict at any time; in a save, it may lose any part
\* of what was verified, damage entries, and lose damaged ones altogether, which
\* are then made anew.
Abort ==
    /\ outcome' = "aborted"
    /\ verified' = {}
    /\ \/ UNCHANGED <<saved, damaged>>
       \/ saved' \in SUBSET (verified \cup (damaged \cap good)) /\ damaged' \in SUBSET items
    /\ UNCHANGED <<items, good>>

Next == Begin \/ (\E i \in items : Verify(i)) \/ Persist \/ Conclude \/ Abort

Spec == Init /\ [][Next]_vars
================================================================================
