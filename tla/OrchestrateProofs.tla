------------------------- MODULE OrchestrateProofs -------------------------
(***************************************************************************)
(* Proofs about Orchestrate, for every set of stages, every order and every *)
(* choice of prerequisites.  What a flag file stands for is the invariant  *)
(* FlagsMeanDone; the rest says that a run keeps to what it has checked.   *)
(***************************************************************************)
EXTENDS Orchestrate, TLAPS

USE DEF Results

LEMMA CurrentStage ==
    ASSUME TypeOK, at # 0
    PROVE  /\ at \in 1 .. Len(Order)
           /\ cur \in Stages
BY StagesAssumption DEF TypeOK, cur

LEMMA FailsTyped ==
    ASSUME TypeOK, Fails
    PROVE  failures' \in 0 .. MaxFailures /\ trouble' \in BOOLEAN
<1>1. failures' \in 0 .. MaxFailures
    BY StagesAssumption DEF TypeOK, Fails
<1>2. trouble' = TRUE
    BY DEF Fails
<1> QED
    BY <1>1, <1>2

LEMMA RequiredStages ==
    ASSUME NEW s \in Stages
    PROVE  Required(s) \subseteq Stages
BY StagesAssumption DEF Required

-----------------------------------------------------------------------------
(* Types *)

LEMMA InitTyped == Init => TypeOK
<1> SUFFICES ASSUME Init
             PROVE  TypeOK
    OBVIOUS
<1>1. at \in 0 .. Len(Order) /\ failures \in 0 .. MaxFailures /\ destroyed \in 0 .. MaxDestroyed
    BY StagesAssumption DEF Init
<1>2. /\ checked \in [Stages -> Results]
      /\ result \in [SaltStates -> Results]
      /\ made \in [Stages -> Results]
    BY DEF Init
<1> QED
    BY <1>1, <1>2 DEF Init, TypeOK

LEMMA RunStepTyped == TypeOK /\ RunStep => TypeOK'
<1> SUFFICES ASSUME TypeOK, RunStep
             PROVE  TypeOK'
    OBVIOUS
<1> USE StagesAssumption
<1>1. CASE MakeFlag
    BY <1>1, CurrentStage DEF TypeOK, MakeFlag, runVars
<1>2. CASE NextStage
    <2>1. at' \in 0 .. Len(Order)
        BY <1>2 DEF TypeOK, NextStage
    <2> QED
        BY <1>2, <2>1 DEF TypeOK, NextStage, runVars
<1>3. CASE EndRun
    <2>1. at' \in 0 .. Len(Order)
        BY <1>3 DEF TypeOK, EndRun
    <2> QED
        BY <1>3, <2>1 DEF TypeOK, EndRun, runVars, Verdict
<1>4. ASSUME NEW p \in Stages, CheckFlag(p)
      PROVE  TypeOK'
    BY <1>4 DEF TypeOK, CheckFlag
<1>5. ASSUME NEW x \in SaltStates, RunSaltState(x)
      PROVE  TypeOK'
    <2>1. result' \in [SaltStates -> Results]
        BY <1>5 DEF TypeOK, RunSaltState
    <2>2. failures' \in 0 .. MaxFailures /\ trouble' \in BOOLEAN
        <3>1. Fails \/ UNCHANGED <<trouble, failures>>
            BY <1>5 DEF RunSaltState
        <3> QED
            BY <3>1, FailsTyped DEF TypeOK
    <2>3. inForce' \subseteq SaltStates
        BY <1>5 DEF TypeOK, RunSaltState
    <2> QED
        BY <1>5, <2>1, <2>2, <2>3 DEF TypeOK, RunSaltState
<1> QED
    BY <1>1, <1>2, <1>3, <1>4, <1>5 DEF RunStep

LEMMA NextTyped == TypeOK /\ [Next]_vars => TypeOK'
<1> SUFFICES ASSUME TypeOK, [Next]_vars
             PROVE  TypeOK'
    OBVIOUS
<1> USE StagesAssumption
<1>1. CASE RunStep
    BY <1>1, RunStepTyped
<1>2. CASE BeginRun
    <2>1. at' \in 0 .. Len(Order)
        BY <1>2 DEF BeginRun
    <2>2. trouble' \in BOOLEAN
        BY <1>2 DEF BeginRun, ToCreateByHand
    <2>3. /\ checked' \in [Stages -> Results]
          /\ result' \in [SaltStates -> Results]
          /\ made' \in [Stages -> Results]
        BY <1>2 DEF BeginRun, Unrun
    <2> QED
        BY <1>2, <2>1, <2>2, <2>3 DEF TypeOK, BeginRun
<1>3. CASE GiveUp
    BY <1>3, FailsTyped DEF TypeOK, GiveUp, runVars
<1>4. CASE KillRun
    <2>1. inForce' \subseteq SaltStates
        BY <1>4 DEF TypeOK, KillRun
    <2> QED
        BY <1>4, <2>1, FailsTyped DEF TypeOK, KillRun, runVars
<1>5. CASE DestroyHosts
    BY <1>5 DEF TypeOK, DestroyHosts, runVars
<1>6. CASE User
    BY <1>6 DEF TypeOK, User, CreateByHand, runVars
<1>7. CASE UNCHANGED vars
    BY <1>7 DEF TypeOK, vars, runVars
<1> QED
    BY <1>1, <1>2, <1>3, <1>4, <1>5, <1>6, <1>7 DEF Next
\* Every variable keeps to the values it is meant for, in every run on every
\* configuration.
THEOREM TypeCorrect == Spec => []TypeOK
BY InitTyped, NextTyped, PTL DEF Spec

-----------------------------------------------------------------------------
(* What a flag file stands for *)

\* A flag file is there only when its stage is done on the first hosts, and a
\* run goes by the files and the states that there are.
FlagsMeanDone ==
    /\ \A p \in Stages : checked[p] = "ok" => p \in flags
    /\ destroyed = 0 =>
          /\ \A s \in flags : Deps[s] \subseteq inForce
          /\ \A x \in SaltStates : result[x] = "ok" => x \in inForce

LEMMA NextKeepsFlags ==
    TypeOK /\ FlagsMeanDone /\ [Next]_vars => FlagsMeanDone'
<1> SUFFICES ASSUME TypeOK, FlagsMeanDone, [Next]_vars
             PROVE  FlagsMeanDone'
    OBVIOUS
<1> USE StagesAssumption
<1>1. CASE MakeFlag
    <2>1. ASSUME CanMake(cur)
          PROVE  destroyed = 0 => Deps[cur] \subseteq inForce
        BY <1>1, <2>1, CurrentStage DEF MakeFlag, CanMake, FlagsMeanDone
    <2> QED
        BY <1>1, <2>1 DEF MakeFlag, FlagsMeanDone
<1>2. CASE NextStage
    BY <1>2 DEF NextStage, FlagsMeanDone, runVars
<1>3. CASE EndRun
    BY <1>3 DEF EndRun, FlagsMeanDone, runVars
<1>4. ASSUME NEW p \in Stages, CheckFlag(p)
      PROVE  FlagsMeanDone'
    BY <1>4 DEF CheckFlag, FlagsMeanDone, TypeOK
<1>5. ASSUME NEW x \in SaltStates, RunSaltState(x)
      PROVE  FlagsMeanDone'
    <2>1. /\ inForce \subseteq inForce'
          /\ \A y \in SaltStates : result'[y] = "ok" => result[y] = "ok" \/ y \in inForce'
        BY <1>5 DEF RunSaltState, TypeOK
    <2> QED
        BY <1>5, <2>1 DEF RunSaltState, FlagsMeanDone
<1>6. CASE BeginRun
    BY <1>6 DEF BeginRun, Unrun, FlagsMeanDone
<1>7. CASE GiveUp
    BY <1>7 DEF GiveUp, FlagsMeanDone, runVars
<1>8. CASE KillRun
    <2>1. inForce \subseteq inForce'
        BY <1>8 DEF KillRun
    <2> QED
        BY <1>8, <2>1 DEF KillRun, FlagsMeanDone, runVars
<1>9. CASE DestroyHosts
    <2>1. destroyed' # 0
        BY <1>9 DEF DestroyHosts, TypeOK
    <2> QED
        BY <1>9, <2>1 DEF DestroyHosts, FlagsMeanDone, runVars
<1>10. CASE User
    BY <1>10 DEF User, CreateByHand, FlagsMeanDone, runVars
<1>11. CASE UNCHANGED vars
    BY <1>11 DEF vars, runVars, FlagsMeanDone
<1> QED
    BY <1>1, <1>2, <1>3, <1>4, <1>5, <1>6, <1>7, <1>8, <1>9, <1>10, <1>11
    DEF Next, RunStep

LEMMA FlagsInvariant == Spec => []FlagsMeanDone
<1>1. Init => FlagsMeanDone
    BY DEF Init, FlagsMeanDone
<1> QED
    BY <1>1, TypeCorrect, NextKeepsFlags, PTL DEF Spec

LEMMA StepInOrder ==
    ASSUME TypeOK, FlagsMeanDone, [Next]_vars,
           NEW x \in SaltStates \ Unguarded,
           destroyed = 0, result[x] = "none", result'[x] \in {"ok", "failed"},
           NEW p \in Required(StageOf[x])
    PROVE  Deps[p] \subseteq inForce
<1> USE StagesAssumption
<1>1. RunSaltState(x)
    <2>1. result' # result
        OBVIOUS
    <2>2. CASE BeginRun
        BY <2>2 DEF BeginRun, Unrun
    <2>3. ASSUME NEW y \in SaltStates, RunSaltState(y), y # x
          PROVE  FALSE
        BY <2>3 DEF RunSaltState, TypeOK
    <2> QED
        BY <2>1, <2>2, <2>3
        DEF Next, RunStep, MakeFlag, NextStage, EndRun, CheckFlag, GiveUp, KillRun,
            DestroyHosts, User, CreateByHand, runVars, vars
<1>2. CanRun(x)
    BY <1>1 DEF RunSaltState, TypeOK
<1>3. checked[p] = "ok" /\ p \in Stages
    BY <1>2, RequiredStages DEF CanRun, Met
<1> QED
    BY <1>3 DEF FlagsMeanDone

\* Until hosts are destroyed, no run executes a state of a stage before the
\* prerequisites of the stage are in force on them.
THEOREM StagesAreInOrder == Spec => StagesInOrder
<1>1. TypeOK /\ FlagsMeanDone /\ [Next]_vars =>
         [\A x \in SaltStates \ Unguarded :
             destroyed = 0 /\ result[x] = "none" /\ result'[x] \in {"ok", "failed"} =>
                \A p \in Required(StageOf[x]) : Deps[p] \subseteq inForce]_vars
    BY StepInOrder
<1> QED
    BY <1>1, TypeCorrect, FlagsInvariant, PTL DEF Spec, StagesInOrder

-----------------------------------------------------------------------------
(* What a verdict stands for *)

\* A run has executed the stages before the present one, on the present hosts.
RunSoFar ==
    /\ at # 0 =>
          /\ \A x \in SaltStates : result[x] = "ok" => x \in inForce
          /\ \A x \in Present :
                result[x] = "none" => \E i \in at .. Len(Order) : Order[i] = StageOf[x]
    /\ PassedMeansDeployed
LEMMA VerdictSays ==
    ASSUME TypeOK, RunSoFar, EndRun, outcome' = "passed"
    PROVE  Present \subseteq inForce
<1> USE StagesAssumption
<1> SUFFICES ASSUME NEW x \in Present
             PROVE  x \in inForce
    OBVIOUS
<1>1. result[x] \in {"none", "ok"}
    BY DEF EndRun, Verdict
<1>2. result[x] # "none"
    <2> SUFFICES ASSUME result[x] = "none"
                 PROVE  FALSE
        OBVIOUS
    <2>1. PICK i \in at .. Len(Order) : Order[i] = StageOf[x]
        BY DEF EndRun, RunSoFar
    <2>2. StageOf[x] = cur
        BY <2>1, CurrentStage DEF EndRun, cur
    <2> QED
        BY <2>2 DEF EndRun, StageOver, Executed
<1> QED
    BY <1>1, <1>2 DEF EndRun, RunSoFar

LEMMA NextKeepsRun == TypeOK /\ RunSoFar /\ [Next]_vars => RunSoFar'
<1> SUFFICES ASSUME TypeOK, RunSoFar, [Next]_vars
             PROVE  RunSoFar'
    OBVIOUS
<1> USE StagesAssumption DEF PassedMeansDeployed
<1>1. CASE MakeFlag
    BY <1>1 DEF MakeFlag, RunSoFar
<1>2. CASE NextStage
    <2>1. at \in 1 .. Len(Order) /\ at' = at + 1
        BY <1>2, CurrentStage DEF NextStage
    <2>2. ASSUME NEW x \in Present, result[x] = "none"
          PROVE  \E i \in at' .. Len(Order) : Order[i] = StageOf[x]
        <3>1. PICK i \in at .. Len(Order) : Order[i] = StageOf[x]
            BY <1>2, <2>2 DEF NextStage, RunSoFar
        <3>2. i # at
            BY <1>2, <2>2, <3>1 DEF NextStage, StageOver, Executed, cur
        <3> QED
            BY <2>1, <3>1, <3>2
    <2> QED
        BY <1>2, <2>2 DEF NextStage, RunSoFar, runVars
<1>3. CASE EndRun
    BY <1>3, VerdictSays DEF EndRun, RunSoFar
<1>4. ASSUME NEW p \in Stages, CheckFlag(p)
      PROVE  RunSoFar'
    BY <1>4 DEF CheckFlag, RunSoFar
<1>5. ASSUME NEW x \in SaltStates, RunSaltState(x)
      PROVE  RunSoFar'
    <2>1. /\ inForce \subseteq inForce'
          /\ \A y \in SaltStates : result'[y] = "ok" => result[y] = "ok" \/ y \in inForce'
          /\ \A y \in SaltStates : result'[y] = "none" => result[y] = "none"
        BY <1>5 DEF RunSaltState, TypeOK
    <2> QED
        BY <1>5, <2>1 DEF RunSaltState, RunSoFar
<1>6. CASE BeginRun
    BY <1>6 DEF BeginRun, Unrun, RunSoFar
<1>7. CASE GiveUp
    BY <1>7 DEF GiveUp, RunSoFar
<1>8. CASE KillRun
    BY <1>8 DEF KillRun, RunSoFar
<1>9. CASE DestroyHosts
    BY <1>9 DEF DestroyHosts, RunSoFar
<1>10. CASE User
    BY <1>10 DEF User, CreateByHand, RunSoFar, runVars
<1>11. CASE UNCHANGED vars
    BY <1>11 DEF vars, runVars, RunSoFar
<1> QED
    BY <1>1, <1>2, <1>3, <1>4, <1>5, <1>6, <1>7, <1>8, <1>9, <1>10, <1>11
    DEF Next, RunStep

\* However often hosts are destroyed and runs fail or are killed, a run that
\* passes has brought every state in force on the hosts there are.
THEOREM PassedIsDeployed == Spec => []PassedMeansDeployed
<1>1. Init => RunSoFar
    BY DEF Init, RunSoFar, PassedMeansDeployed
<1>2. RunSoFar => PassedMeansDeployed
    BY DEF RunSoFar
<1> QED
    BY <1>1, <1>2, TypeCorrect, NextKeepsRun, PTL DEF Spec

-----------------------------------------------------------------------------
(* Why one run is enough *)

\* As long as nothing has failed of its own in the run, nothing is wrong in it:
\* the stages behind it have their flag files, and those of the others are
\* created by the run or are there.
Unhindered ==
    at # 0 /\ ~trouble =>
        /\ \A s \in Stages : checked[s] \in {"none", "ok"} /\ made[s] \in {"none", "ok"}
        /\ \A x \in SaltStates : result[x] \in {"none", "ok"}
        /\ Stages \subseteq auto \cup flags
        /\ \A s \in Stages : made[s] = "ok" => s \in flags
        /\ \A i \in 1 .. at - 1 : Order[i] \in flags

\* A stage includes the files it requires, and no stage that comes after it.
LEMMA IncludedStages ==
    ASSUME TypeOK, OrderSuits, at # 0
    PROVE  /\ Required(cur) \subseteq Included[cur]
           /\ \A p \in Included[cur] : \E i \in 1 .. at - 1 : Order[i] = p
<1> USE StagesAssumption
<1> DEFINE behind == {Order[i] : i \in 1 .. at - 1}
<1>1. at \in 1 .. Len(Order) /\ cur \in Stages
    BY CurrentStage
<1>2. behind \in SUBSET Stages
    BY <1>1
<1>3. \A s \in behind : Required(s) \subseteq behind
    <2> SUFFICES ASSUME NEW i \in 1 .. at - 1, NEW p \in Required(Order[i])
                 PROVE  p \in behind
        OBVIOUS
    <2>1. PICK j \in 1 .. i - 1 : Order[j] = p
        BY <1>1 DEF OrderSuits
    <2>2. j \in 1 .. at - 1
        BY <1>1
    <2> QED
        BY <2>1, <2>2
<1>4. Required(cur) \subseteq behind
    BY <1>1 DEF OrderSuits, cur
<1>5. Required(cur) \subseteq Included[cur]
    BY <1>1, RequiredStages DEF Included
<1>6. \A p \in Included[cur] : p \in behind
    BY <1>1, <1>2, <1>3, <1>4 DEF Included
<1> QED
    BY <1>5, <1>6

\* The prerequisites of the stage are met once its files have been looked at.
LEMMA StageIsMet ==
    ASSUME TypeOK, OrderSuits, Unhindered, at # 0, ~trouble, AllChecked
    PROVE  Met(cur)
<1>1. \A p \in Required(cur) : p \in Stages /\ checked[p] # "none"
    BY CurrentStage, RequiredStages, IncludedStages DEF AllChecked
<1> QED
    BY <1>1 DEF Met, Unhindered

LEMMA UnhinderedCheckFlag ==
    ASSUME TypeOK, OrderSuits, Unhindered, NEW p \in Stages, CheckFlag(p)
    PROVE  Unhindered'
<1> SUFFICES ASSUME ~trouble
             PROVE  Unhindered'
    BY DEF CheckFlag, Unhindered
<1>1. p \in flags
    BY IncludedStages DEF CheckFlag, Unhindered
<1>2. Met(p)
    BY RequiredStages DEF CheckFlag, Met, Unhindered
<1>3. checked' = [checked EXCEPT ![p] = "ok"]
    BY <1>1, <1>2 DEF CheckFlag
<1> QED
    BY <1>3 DEF CheckFlag, Unhindered, TypeOK

LEMMA UnhinderedRunSaltState ==
    ASSUME TypeOK, OrderSuits, Unhindered, NEW x \in SaltStates, RunSaltState(x)
    PROVE  Unhindered'
<1> SUFFICES ASSUME ~trouble'
             PROVE  Unhindered'
    BY DEF Unhindered
<1>1. ~trouble
    BY DEF RunSaltState, Fails
<1>2. \A y \in Needs[x] : result[y] = "ok"
    <2>1. \A y \in Needs[x] : y \in SaltStates /\ result[y] # "none"
        BY StagesAssumption DEF RunSaltState, Due, Executed, OrderSuits
    <2> QED
        BY <1>1, <2>1 DEF RunSaltState, Due, Unhindered
<1>3. CanRun(x)
    BY <1>1, <1>2, StageIsMet DEF RunSaltState, Due, CanRun
<1>4. result' = [result EXCEPT ![x] = "ok"]
    BY <1>3 DEF RunSaltState, Fails
<1> QED
    BY <1>1, <1>4 DEF RunSaltState, Due, Unhindered, TypeOK

LEMMA UnhinderedMakeFlag ==
    ASSUME TypeOK, OrderSuits, Unhindered, MakeFlag
    PROVE  Unhindered'
<1> SUFFICES ASSUME ~trouble
             PROVE  Unhindered'
    BY DEF MakeFlag, Unhindered
<1>1. at \in 1 .. Len(Order) /\ cur \in Stages
    BY CurrentStage DEF MakeFlag
<1>2. \A x \in Deps[cur] : x \in Present /\ result[x] = "ok"
    <2>1. Deps[cur] \subseteq Present /\ Present \subseteq SaltStates
        BY <1>1, StagesAssumption DEF OrderSuits, cur
    <2> QED
        BY <2>1 DEF MakeFlag, Executed, Unhindered
<1>3. CanMake(cur)
    BY <1>2, StageIsMet DEF MakeFlag, CanMake
<1>4. made' = [made EXCEPT ![cur] = "ok"] /\ flags \cup {cur} \subseteq flags'
    BY <1>1, <1>3 DEF MakeFlag, Unhindered
<1> QED
    BY <1>1, <1>4 DEF MakeFlag, Unhindered, TypeOK

LEMMA UnhinderedNextStage ==
    ASSUME TypeOK, Unhindered, NextStage
    PROVE  Unhindered'
<1> SUFFICES ASSUME ~trouble
             PROVE  Unhindered'
    BY DEF NextStage, Unhindered
<1>1. at \in 1 .. Len(Order) /\ cur \in Stages /\ at' = at + 1
    BY CurrentStage DEF NextStage
<1>2. Order[at] \in flags
    BY <1>1 DEF NextStage, StageOver, Unhindered, cur
<1>3. \A i \in 1 .. at' - 1 : Order[i] \in flags
    <2> SUFFICES ASSUME NEW i \in 1 .. at' - 1, i # at
                 PROVE  Order[i] \in flags
        BY <1>2
    <2>1. i \in 1 .. at - 1
        BY <1>1
    <2> QED
        BY <2>1 DEF NextStage, Unhindered
<1> QED
    BY <1>3 DEF NextStage, runVars, Unhindered

LEMMA UnhinderedBeginRun ==
    ASSUME BeginRun
    PROVE  Unhindered'
<1>1. \A i \in 1 .. at' - 1 : FALSE
    BY DEF BeginRun
<1> QED
    BY <1>1 DEF BeginRun, Unrun, ToCreateByHand, Unhindered

LEMMA NextUnhindered ==
    ASSUME TypeOK, OrderSuits, Unhindered, OneRunSuffices, [Next]_vars
    PROVE  Unhindered' /\ OneRunSuffices'
<1>1. CASE EndRun
    <2>1. ~trouble => Verdict = "passed"
        BY <1>1 DEF EndRun, Verdict, Unhindered
    <2> QED
        BY <1>1, <2>1 DEF EndRun, Unhindered, OneRunSuffices
<1>2. ASSUME NEW p \in Stages, CheckFlag(p)
      PROVE  Unhindered' /\ OneRunSuffices'
    BY <1>2, UnhinderedCheckFlag DEF CheckFlag, OneRunSuffices
<1>3. ASSUME NEW x \in SaltStates, RunSaltState(x)
      PROVE  Unhindered' /\ OneRunSuffices'
    <2>1. outcome' = outcome /\ (trouble => trouble')
        BY <1>3 DEF RunSaltState, Fails
    <2>2. Unhindered'
        BY <1>3, UnhinderedRunSaltState
    <2> QED
        BY <2>1, <2>2 DEF OneRunSuffices
<1>4. CASE MakeFlag
    BY <1>4, UnhinderedMakeFlag DEF MakeFlag, OneRunSuffices
<1>5. CASE NextStage
    BY <1>5, UnhinderedNextStage DEF NextStage, OneRunSuffices
<1>6. CASE BeginRun
    BY <1>6, UnhinderedBeginRun DEF BeginRun, OneRunSuffices
<1>7. CASE GiveUp \/ KillRun
    BY <1>7 DEF GiveUp, KillRun, Fails, Unhindered, OneRunSuffices
<1>8. CASE DestroyHosts
    BY <1>8 DEF DestroyHosts, Unhindered, OneRunSuffices
<1>9. CASE User
    BY <1>9 DEF User, CreateByHand, Unhindered, OneRunSuffices
<1>10. CASE UNCHANGED vars
    BY <1>10 DEF vars, runVars, Unhindered, OneRunSuffices
<1> QED
    BY <1>1, <1>2, <1>3, <1>4, <1>5, <1>6, <1>7, <1>8, <1>9, <1>10 DEF Next, RunStep

\* Whatever the stages are, if their order suits them, a run fails only when
\* something has failed in it of its own or waits for the user.
THEOREM OneRunIsEnough ==
    ASSUME OrderSuits
    PROVE  Spec => []OneRunSuffices
<1>1. Init => Unhindered /\ OneRunSuffices
    BY DEF Init, Unhindered, OneRunSuffices
<1>2. TypeOK /\ (Unhindered /\ OneRunSuffices) /\ [Next]_vars
         => (Unhindered /\ OneRunSuffices)'
    BY NextUnhindered
<1> QED
    BY <1>1, <1>2, TypeCorrect, PTL DEF Spec

===========================================================================
