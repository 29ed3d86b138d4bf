---------------------------- MODULE Orchestrate ----------------------------
(***************************************************************************)
(* The job run_salt_orchestrate of the deploy pipeline and what it runs:   *)
(* states/common/orchestrate, which brings up the hosts in stages.         *)
(*                                                                         *)
(* A stage has a flag file on the Salt master.  Its Salt states require    *)
(* the flag files of its prerequisites, and the file is created when the   *)
(* states listed with it have succeeded.  Every run executes all stages in *)
(* one order, whatever flag files there are; a flag file is looked at once *)
(* per run, when the first stage that requires it begins.  The deploy      *)
(* pipeline of every build destroys the hosts, and the flag files stay.    *)
(***************************************************************************)
EXTENDS Naturals, Sequences, FiniteSets

CONSTANTS
    Stages,
    Order,          \* state_flag_files_order
    Prerequisites,  \* [Stages -> set of stages]
    Enforced,       \* stages with enable_prerequisite_enforcement
    AutoCreations,  \* sets of stages that can have enable_auto_creation
    SaltStates,
    StageOf,        \* [SaltStates -> the stage that defines it]
    Present,        \* those of the stages in the order whose feature is enabled
    Needs,          \* [SaltStates -> the Salt states it requires]
    Unguarded,      \* those that do not require the prerequisites of the stage
    Deps,           \* [Stages -> orchestrate_dep_list]
    MaxFailures, MaxDestroyed

ASSUME StagesAssumption ==
    /\ IsFiniteSet(Stages) /\ Order \in Seq(Stages) /\ Order # <<>>
    /\ Prerequisites \in [Stages -> SUBSET Stages]
    /\ Enforced \subseteq Stages /\ AutoCreations \subseteq SUBSET Stages
    /\ StageOf \in [SaltStates -> Stages]
    /\ Present \subseteq SaltStates /\ Unguarded \subseteq SaltStates
    /\ \A x \in Present : \E i \in 1 .. Len(Order) : Order[i] = StageOf[x]
    /\ Needs \in [SaltStates -> SUBSET SaltStates]
    /\ Deps \in [Stages -> SUBSET SaltStates]
    /\ MaxFailures \in Nat /\ MaxDestroyed \in Nat

VARIABLES
    flags,      \* the flag files on the Salt master
    inForce,    \* Salt states that have succeeded on the hosts there are
    at,         \* the stage of the run, 0 if there is none
    checked,    \* [Stages -> result of file.exists in the run]
    result,     \* [SaltStates -> result in the run]
    made,       \* [Stages -> result of the state of the flag file]
    outcome,    \* of the last run on the hosts
    auto,       \* the stages with enable_auto_creation
    trouble,    \* history variable: something has failed of its own, or there
                \* is a flag file to be created by hand
    failures, destroyed

runVars == <<checked, result, made>>
vars == <<flags, inForce, at, runVars, outcome, auto, trouble, failures, destroyed>>

Results == {"none", "ok", "failed", "skipped"}

-----------------------------------------------------------------------------
(* Requisites *)

cur == Order[at]

Required(s) == IF s \in Enforced THEN Prerequisites[s] ELSE {}

\* Mutant of Included: the first stage includes the files of all.
IncludedAll == [s \in Stages |-> Stages]

\* The files a stage includes: those required and those they require.
Included ==
    LET closed == {T \in SUBSET Stages : \A s \in T : Required(s) \subseteq T}
    IN  [s \in Stages |->
            {p \in Stages : \A T \in closed : Required(s) \subseteq T => p \in T}]

Met(s) == \A p \in Required(s) : checked[p] = "ok"

AllChecked == \A p \in Included[cur] : checked[p] # "none"

\* A state with a requisite that failed, or that is not there, fails too.
CanRun(x) ==
    /\ x \notin Unguarded => Met(StageOf[x])
    /\ \A y \in Needs[x] : result[y] = "ok"

Executed(Y) == \A y \in Y \cap Present : result[y] # "none"

Due(x) ==
    /\ at # 0 /\ x \in Present /\ StageOf[x] = cur
    /\ AllChecked
    /\ result[x] = "none" /\ Executed(Needs[x])

-----------------------------------------------------------------------------
(* A run *)

Unrun ==
    /\ checked' = [s \in Stages |-> "none"]
    /\ result' = [x \in SaltStates |-> "none"]
    /\ made' = [s \in Stages |-> "none"]

ToCreateByHand == ~(Stages \subseteq auto \cup flags)

\* Mutant of BeginRun: what is known of the flag files is kept.
BeginRunRemembering ==
    /\ at = 0
    /\ at' = 1 /\ outcome' = "none" /\ trouble' = ToCreateByHand
    /\ result' = [x \in SaltStates |-> "none"]
    /\ made' = [s \in Stages |-> "none"]
    /\ UNCHANGED <<flags, inForce, checked, auto, failures, destroyed>>

\* All minions have answered test.ping within 5 seconds.
BeginRun ==
    /\ at = 0
    /\ at' = 1 /\ outcome' = "none" /\ trouble' = ToCreateByHand
    /\ Unrun
    /\ UNCHANGED <<flags, inForce, auto, failures, destroyed>>

Fails == failures < MaxFailures /\ failures' = failures + 1 /\ trouble' = TRUE

\* They have not in 100 attempts.
GiveUp ==
    /\ at = 0
    /\ Fails
    /\ outcome' = "failed"
    /\ UNCHANGED <<flags, inForce, at, runVars, auto, destroyed>>

\* file.exists of a flag file
CheckFlag(p) ==
    /\ at # 0 /\ p \in Included[cur]
    /\ checked[p] = "none"
    /\ \A q \in Required(p) : checked[q] # "none"
    /\ checked' = [checked EXCEPT ![p] =
                       IF Met(p) THEN IF p \in flags THEN "ok" ELSE "failed"
                       ELSE "skipped"]
    /\ UNCHANGED <<flags, inForce, at, result, made, outcome, auto, trouble,
                   failures, destroyed>>

\* Mutant of RunSaltState: what has a flag file is not executed again.
RunSaltStateOnce(x) ==
    /\ Due(x)
    /\ \/ /\ CanRun(x)
          /\ result' = [result EXCEPT ![x] = "ok"]
          /\ inForce' = IF StageOf[x] \in flags THEN inForce ELSE inForce \cup {x}
          /\ UNCHANGED <<trouble, failures>>
       \/ /\ CanRun(x)
          /\ result' = [result EXCEPT ![x] = "failed"]
          /\ Fails
          /\ UNCHANGED inForce
       \/ /\ ~CanRun(x)
          /\ result' = [result EXCEPT ![x] = "skipped"]
          /\ UNCHANGED <<inForce, trouble, failures>>
    /\ UNCHANGED <<flags, at, checked, made, outcome, auto, destroyed>>

\* salt.state and salt.function: on some minion it can fail.  States are
\* idempotent: what has been in force stays.
RunSaltState(x) ==
    /\ Due(x)
    /\ \/ /\ CanRun(x)
          /\ result' = [result EXCEPT ![x] = "ok"]
          /\ inForce' = inForce \cup {x}
          /\ UNCHANGED <<trouble, failures>>
       \/ /\ CanRun(x)
          /\ result' = [result EXCEPT ![x] = "failed"]
          /\ Fails
          /\ UNCHANGED inForce
       \/ /\ ~CanRun(x)
          /\ result' = [result EXCEPT ![x] = "skipped"]
          /\ UNCHANGED <<inForce, trouble, failures>>
    /\ UNCHANGED <<flags, at, checked, made, outcome, auto, destroyed>>

\* Mutant of CanMake: the states of the stage are not required.
CanMakeEarly(s) == Met(s)

CanMake(s) == Met(s) /\ \A x \in Deps[s] : x \in Present /\ result[x] = "ok"

\* The flag file is created, or the user is told to create it.
MakeFlag ==
    /\ at # 0
    /\ made[cur] = "none" /\ AllChecked /\ Executed(Deps[cur])
    /\ made' = [made EXCEPT ![cur] = IF CanMake(cur) THEN "ok" ELSE "skipped"]
    /\ flags' = IF CanMake(cur) /\ cur \in auto THEN flags \cup {cur} ELSE flags
    /\ UNCHANGED <<inForce, at, checked, result, outcome, auto, trouble, failures,
                   destroyed>>

StageOver == made[cur] # "none" /\ Executed({x \in SaltStates : StageOf[x] = cur})

NextStage ==
    /\ at # 0 /\ at < Len(Order)
    /\ StageOver
    /\ at' = at + 1
    /\ UNCHANGED <<flags, inForce, runVars, outcome, auto, trouble, failures, destroyed>>

\* check_salt_output.py of what the run prints
Verdict ==
    IF /\ \A s \in Stages : checked[s] \in {"none", "ok"} /\ made[s] \in {"none", "ok"}
       /\ \A x \in SaltStates : result[x] \in {"none", "ok"}
    THEN "passed" ELSE "failed"

\* Mutant of EndRun: the run goes on behind the last stage.
EndRunBehind ==
    /\ at = Len(Order) /\ at # 0
    /\ StageOver
    /\ at' = at + 1 /\ outcome' = Verdict
    /\ UNCHANGED <<flags, inForce, runVars, auto, trouble, failures, destroyed>>

EndRun ==
    /\ at = Len(Order) /\ at # 0
    /\ StageOver
    /\ at' = 0 /\ outcome' = Verdict
    /\ UNCHANGED <<flags, inForce, runVars, auto, trouble, failures, destroyed>>

\* salt-run is killed or loses the minions; they go on with what they do.
KillRun ==
    /\ at # 0
    /\ Fails
    /\ at' = 0 /\ outcome' = "failed"
    /\ \/ UNCHANGED inForce
       \/ \E x \in SaltStates : Due(x) /\ CanRun(x) /\ inForce' = inForce \cup {x}
    /\ UNCHANGED <<flags, runVars, auto, destroyed>>

-----------------------------------------------------------------------------
(* Around the runs *)

\* The user creates a flag file after a review of its stage.
CreateByHand(s) ==
    /\ at = 0
    /\ s \notin auto \cup flags
    /\ Deps[s] \subseteq inForce
    /\ flags' = flags \cup {s}
    /\ UNCHANGED <<inForce, at, runVars, outcome, auto, trouble, failures, destroyed>>

\* The jobs destroy_vagrant_hosts and instantiate_vagrant_hosts.
DestroyHosts ==
    /\ at = 0
    /\ destroyed < MaxDestroyed /\ destroyed' = destroyed + 1
    /\ inForce' = {} /\ outcome' = "none"
    /\ UNCHANGED <<flags, at, runVars, auto, trouble, failures>>

-----------------------------------------------------------------------------
Init ==
    /\ flags = {} /\ inForce = {} /\ at = 0
    /\ checked = [s \in Stages |-> "none"]
    /\ result = [x \in SaltStates |-> "none"]
    /\ made = [s \in Stages |-> "none"]
    /\ outcome = "none" /\ trouble = FALSE
    /\ auto \in AutoCreations
    /\ failures = 0 /\ destroyed = 0

RunStep ==
    \/ MakeFlag \/ NextStage \/ EndRun
    \/ \E p \in Stages : CheckFlag(p)
    \/ \E x \in SaltStates : RunSaltState(x)

User == \E s \in Stages : CreateByHand(s)

Next == RunStep \/ BeginRun \/ GiveUp \/ KillRun \/ DestroyHosts \/ User

Spec == Init /\ [][Next]_vars

\* A build is started every day, a run goes on by itself, and the user follows
\* the note in the output of a run when the hosts are as it says.
FairSpec == Spec /\ WF_vars(BeginRun) /\ WF_vars(RunStep) /\ SF_vars(User)

-----------------------------------------------------------------------------
(* Properties *)

\* Type invariant.
TypeOK ==
    /\ flags \subseteq Stages /\ inForce \subseteq SaltStates
    /\ at \in 0 .. Len(Order)
    /\ checked \in [Stages -> Results]
    /\ result \in [SaltStates -> Results]
    /\ made \in [Stages -> Results]
    /\ outcome \in {"none", "passed", "failed"}
    /\ auto \in AutoCreations /\ trouble \in BOOLEAN
    /\ failures \in 0 .. MaxFailures /\ destroyed \in 0 .. MaxDestroyed

\* Hosts are deployed in stages: until they are destroyed for the first time, a
\* state is executed only when the prerequisites of its stage are in force on
\* them, in whichever run that was.  (Afterwards the flag files of the hosts
\* that were destroyed are there for the new ones.)
StagesInOrder ==
    [][\A x \in SaltStates \ Unguarded :
          destroyed = 0 /\ result[x] = "none" /\ result'[x] \in {"ok", "failed"} =>
             \A p \in Required(StageOf[x]) : Deps[p] \subseteq inForce]_vars

\* A run that passes has deployed the hosts there are, and not taken the flag
\* files of others for it.
PassedMeansDeployed ==
    outcome = "passed" => Present \subseteq inForce

\* The order of the stages suits their prerequisites: a run in which nothing
\* fails of its own passes, unless there is a flag file to be created by hand.
OneRunSuffices == outcome = "failed" => trouble

\* What makes it so: a stage comes after those it requires, and features are
\* enabled together with those they need.
OrderSuits ==
    /\ \A i \in 1 .. Len(Order) :
          \A p \in Required(Order[i]) : \E j \in 1 .. i - 1 : Order[j] = p
    /\ \A i \in 1 .. Len(Order) : Deps[Order[i]] \subseteq Present
    /\ \A x \in Present : Needs[x] \subseteq Present

\* The hosts are deployed in the end, whatever failed before.
DeployedInTheEnd == outcome # "passed" ~> outcome = "passed"

=============================================================================
