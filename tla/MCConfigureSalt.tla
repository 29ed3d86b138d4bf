-------------------------- MODULE MCConfigureSalt --------------------------
(* A Salt master that is used for two projects in turn, for TLC. *)
EXTENDS ConfigureSalt

CONSTANTS a, b

\* A project by itself, and one of two.
MCProperties ==
    {[project |-> a, projects |-> {a}], [project |-> b, projects |-> {a, b}]}
=============================================================================
