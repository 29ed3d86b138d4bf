--------------------------- MODULE MCBootstrapDeploy ---------------------------
(***************************************************************************)
(* Small networks for TLC: the Salt master and a minion, or the master     *)
(* alone with two packages and both use cases.                             *)
(***************************************************************************)
EXTENDS BootstrapDeploy

AllSteps == {StepOrder[i] : i \in 1..Len(StepOrder)}

Online == {"initial-online-node"}
BothUseCases == {"initial-online-node", "offline-minion-installer"}

\* /etc/sysconfig/network with both variables.
NetworkFileSet == {{"gateway", "hostname"}}

NewHosts == {Nothing}
AnySaltEntry == {"master", "other", Nothing}
================================================================================
