-------------------------- MODULE MCBuildBranches --------------------------
(* Small work spaces for TLC. *)
EXTENDS BuildBranches, TLC

CONSTANTS states, pillars, master, profile, file, v0, v1, v2

Everywhere == Phases \ {"idle"}

OutsideSnapshot == Everywhere \ Snapshot
=============================================================================
