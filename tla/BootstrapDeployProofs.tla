------------------------- MODULE BootstrapDeployProofs -------------------------
(***************************************************************************)
(* Theorems about BootstrapDeploy: types, and what no failure, kill, rerun *)
(* or reboot can lose.                                                     *)
(***************************************************************************)
EXTENDS BootstrapDeploy, SequenceTheorems, TLAPS

--------------------------------------------------------------------------------
(* Types *)

ProcessTyped ==
    /\ run \in [Host -> Run]
    /\ step \in [Host -> 0..Len(StepOrder)]
    /\ completed \in [Host -> BOOLEAN]
    /\ unstopped \in [Host -> BOOLEAN]
    /\ failures \in 0..MaxFailures
    /\ reruns \in 0..MaxReruns

LEMMA StepCount == Len(StepOrder) \in Nat
  BY DEF StepOrder

LEMMA AdvanceTyped ==
  ASSUME ProcessTyped, NEW h \in Host, Advance(h)
  PROVE  step' \in [Host -> 0..Len(StepOrder)] /\ completed' \in [Host -> BOOLEAN]
<1>1. CASE step[h] = Len(StepOrder)
  <2>1. step' = [step EXCEPT ![h] = 0] /\ completed' = [completed EXCEPT ![h] = TRUE]
    BY <1>1 DEF Advance
  <2>2. completed' \in [Host -> BOOLEAN]
    BY <2>1, Zenon DEF ProcessTyped
  <2>3. step' \in [Host -> 0..Len(StepOrder)]
    BY <2>1, StepCount DEF ProcessTyped
  <2>4. QED
    BY <2>2, <2>3
<1>2. CASE step[h] # Len(StepOrder)
  <2>1. step' = [step EXCEPT ![h] = @ + 1] /\ completed' = completed
    BY <1>2 DEF Advance
  <2>2. step[h] + 1 \in 0..Len(StepOrder)
    BY <1>2, StepCount DEF ProcessTyped
  <2>3. step' \in [Host -> 0..Len(StepOrder)]
    BY <2>1, <2>2, StepCount DEF ProcessTyped
  <2>4. QED
    BY <2>1, <2>3 DEF ProcessTyped
<1>3. QED
  BY <1>1, <1>2

LEMMA ProceedTyped ==
  ASSUME ProcessTyped, NEW h \in Host, Proceed(h)
  PROVE  ProcessTyped'
  BY AdvanceTyped DEF Proceed, ProcessTyped

LEMMA KeepMasterTyped ==
  ASSUME ProcessTyped, NEW h \in Host, KeepMaster(h)
  PROVE  ProcessTyped'
<1>1. Advance(h) /\ unstopped' = [unstopped EXCEPT ![h] = TRUE]
  BY DEF KeepMaster
<1>2. unstopped' \in [Host -> BOOLEAN]
  BY <1>1, Zenon DEF ProcessTyped
<1>3. run' = run /\ reruns' = reruns /\ failures' \in 0..MaxFailures
  BY BoundAssumption DEF KeepMaster, ProcessTyped
<1>4. QED
  BY <1>1, <1>2, <1>3, AdvanceTyped DEF ProcessTyped

LEMMA RaiseTyped ==
  ASSUME ProcessTyped, NEW h \in Host, Raise(h)
  PROVE  ProcessTyped'
  BY StepCount DEF ProcessTyped, Raise

LEMMA FailTyped ==
  ASSUME ProcessTyped, NEW h \in Host, Fail(h)
  PROVE  ProcessTyped'
  BY StepCount, BoundAssumption DEF ProcessTyped, Fail

LEMMA OutcomeTyped ==
  ASSUME ProcessTyped, NEW h \in Host, NEW k, NEW commands, NEW stuck,
         Outcome(h, k, commands, stuck)
  PROVE  ProcessTyped'
  BY ProceedTyped, RaiseTyped, FailTyped DEF Outcome

LEMMA ContentTyped ==
  ASSUME NEW r \in Run, NEW s \in Setting
  PROVE  Content(r, s) \in Run \cup Package
  BY DEF Content, Run

LEMMA WrittenTyped ==
  ASSUME NEW conf \in [Setting -> Value], NEW r \in Run, NEW commands, NEW k, NEW torn
  PROVE  Written(conf, r, commands, k, torn) \in [Setting -> Value]
<1>1. \A s \in Setting : Content(r, s) \in Value /\ conf[s] \in Value /\ Damaged \in Value
  BY ContentTyped DEF Value
<1>2. QED
  BY <1>1 DEF Written

LEMMA SetNetConfigVarTyped ==
  ASSUME NEW conf \in [Setting -> Value], NEW r \in Run, NEW s \in Setting
  PROVE  SetNetConfigVar(conf, r, s) \in [Setting -> Value]
<1>1. Content(r, s) \in Value
  BY ContentTyped DEF Value
<1>2. QED
  BY <1>1 DEF SetNetConfigVar

LEMMA StartedTyped ==
  ASSUME NEW running \in [Service -> Value \cup {Nothing}], NEW conf \in Value,
         NEW service \in Service
  PROVE  Started(running, conf, service) \in [Service -> Value \cup {Nothing}]
  BY DEF Started

LEMMA ActivatedTyped ==
  ASSUME NEW state \in HostState, NEW service \in Service, NEW file \in Setting,
         NEW commands, NEW k
  PROVE  Activated(state, service, file, commands, k) \in HostState
<1> DEFINE done == {commands[i] : i \in 1..k}
           stopped == {x \in Service : \/ x = "firewall" /\ "stop_firewall" \in done
                                       \/ x = service /\ "stop" \in done}
           running == [x \in Service |-> IF x \in stopped THEN Nothing ELSE state.running[x]]
           disabled == IF "disable_firewall" \in done THEN {"firewall"} ELSE {}
           enabling == IF "enable" \in done THEN {service} ELSE {}
           final == IF "start" \in done THEN Started(running, state.conf[file], service)
                    ELSE running
<1>1. running \in [Service -> Value \cup {Nothing}]
  BY DEF HostState
<1>2. state.conf[file] \in Value
  BY DEF HostState
<1>3. final \in [Service -> Value \cup {Nothing}]
  BY <1>1, <1>2, StartedTyped
<1>4. (state.enabled \ disabled) \cup enabling \in SUBSET Service
  BY DEF HostState
<1>5. Activated(state, service, file, commands, k)
        = [state EXCEPT !.enabled = (@ \ disabled) \cup enabling, !.running = final]
  BY DEF Activated
<1> HIDE DEF final, disabled, enabling, running, stopped, done
<1>6. QED
  BY <1>3, <1>4, <1>5 DEF HostState

\* Files and links of a step, after any of its commands.
LEMMA FilesTyped ==
  ASSUME host \in [Host -> HostState], NEW h \in Host, run[h] \in Run,
         NEW commands, NEW k, NEW torn
  PROVE  Written(host[h].conf, run[h], commands, k, torn) \in [Setting -> Value]
<1>1. host[h].conf \in [Setting -> Value]
  BY DEF HostState
<1>2. QED
  BY <1>1, WrittenTyped

LEMMA InstalledTyped ==
  ASSUME NEW h \in Host, host[h] \in HostState, run[h] \in Run, run[h][2] \in Package,
         NEW role \in Role, NEW commands, NEW k, NEW torn
  PROVE  Installed(h, role, commands, k, torn) \in HostState
<1> DEFINE this == <<role, run[h][2]>>
           present == IF k >= 2 THEN [host[h].rpms EXCEPT ![this] = "whole"]
                      ELSE IF torn /\ k = 1 THEN [host[h].rpms EXCEPT ![this] = Damaged]
                      ELSE host[h].rpms
           rpms == [x \in DOMAIN host[h].rpms |->
                      IF k >= 5 /\ x[2] = run[h][2] THEN Nothing ELSE present[x]]
           installed == [x \in Role |->
                           IF k >= 3 /\ present[<<x, run[h][2]>>] = "whole" THEN run[h][2]
                           ELSE host[h].installed[x]]
           conf == Written(host[h].conf, run[h], commands, k, torn)
<1>1. host[h].rpms \in [Role \X Package -> {"whole", Damaged, Nothing}]
  BY DEF HostState
<1>2. present \in [Role \X Package -> {"whole", Damaged, Nothing}]
  BY <1>1
<1>3. rpms \in [Role \X Package -> {"whole", Damaged, Nothing}]
  BY <1>1, <1>2
<1>4. installed \in [Role -> Package \cup {Nothing}]
  BY DEF HostState
<1>5. conf \in [Setting -> Value]
  BY WrittenTyped DEF HostState
<1>6. Installed(h, role, commands, k, torn)
        = [host[h] EXCEPT !.rpms = rpms, !.installed = installed, !.conf = conf]
  BY DEF Installed
<1> HIDE DEF rpms, installed, conf
<1>7. QED
  BY <1>3, <1>4, <1>5, <1>6 DEF HostState

\* Every step keeps the types.
LEMMA StepTyped ==
  ASSUME TypeOK, NEW h \in Host, TakeStep(h)
  PROVE  TypeOK'
<1> USE DEF TypeOK
<1>1. ProcessTyped /\ run[h] \in Run /\ run[h][2] \in Package /\ host[h] \in HostState
  BY DEF ProcessTyped, Run
<1>2. ASSUME ProcessTyped', host' \in [Host -> HostState], keys' \subseteq Host
      PROVE  TypeOK'
  BY <1>2 DEF ProcessTyped
<1>3. \A s \in HostState : [host EXCEPT ![h] = s] \in [Host -> HostState]
  OBVIOUS
<1>4. CASE SkipStep(h)
  BY <1>1, <1>2, <1>4, ProceedTyped DEF SkipStep
<1>5. CASE UnlockNode(h)
  BY <1>1, <1>2, <1>5, ProceedTyped DEF UnlockNode
<1>6. CASE InitIpRoute(h)
  <2> DEFINE commands == <<"gateway", "list", "delete", "add", "ping">>
  <2>1. PICK k \in 0..Len(commands) :
           /\ host' = [host EXCEPT
                  ![h].conf = IF k >= 1 THEN SetNetConfigVar(@, run[h], "gateway") ELSE @,
                  ![h].route = IF k >= 4 THEN run[h][2] ELSE IF k = 3 THEN Nothing ELSE @]
           /\ Outcome(h, k, commands, Len(commands))
    BY <1>6 DEF InitIpRoute
  <2>2. ProcessTyped'
    BY <1>1, <2>1, OutcomeTyped
  <2> DEFINE conf == IF k >= 1 THEN SetNetConfigVar(host[h].conf, run[h], "gateway")
                     ELSE host[h].conf
             route == IF k >= 4 THEN run[h][2] ELSE IF k = 3 THEN Nothing ELSE host[h].route
  <2>3. conf \in [Setting -> Value]
    <3>1. host[h].conf \in [Setting -> Value] /\ "gateway" \in Setting
      BY <1>1 DEF HostState, Setting
    <3>2. QED
      BY <1>1, <3>1, SetNetConfigVarTyped
  <2>4. route \in Value \cup {Nothing}
    BY <1>1 DEF HostState, Value
  <2>5. host' = [host EXCEPT ![h] = [host[h] EXCEPT !.conf = conf, !.route = route]]
    BY <2>1
  <2> HIDE DEF conf, route
  <2>6. [host[h] EXCEPT !.conf = conf, !.route = route] \in HostState
    BY <1>1, <2>3, <2>4 DEF HostState
  <2>7. QED
    BY <1>2, <1>3, <1>6, <2>2, <2>5, <2>6 DEF InitIpRoute
<1>7. CASE InitDnsServer(h)
  <2> DEFINE commands == <<"resolv.conf", "ping">>
  <2>1. PICK k \in 0..Len(commands), torn \in BOOLEAN :
           /\ host' = [host EXCEPT ![h].conf = Written(@, run[h], commands, k, torn)]
           /\ Outcome(h, k, commands, Len(commands))
    BY <1>7 DEF InitDnsServer
  <2>2. ProcessTyped'
    BY <1>1, <2>1, OutcomeTyped
  <2> DEFINE conf == Written(host[h].conf, run[h], commands, k, torn)
  <2>3. conf \in [Setting -> Value]
    BY <1>1, FilesTyped
  <2>4. host' = [host EXCEPT ![h] = [host[h] EXCEPT !.conf = conf]]
    BY <2>1
  <2> HIDE DEF conf
  <2>5. QED
    BY <1>1, <1>2, <1>3, <1>7, <2>2, <2>3, <2>4 DEF InitDnsServer, HostState
<1>8. CASE MakeSaltResolvable(h)
  <2> DEFINE commands == <<"diff", "patch", "ping">>
  <2>1. PICK k \in 0..Len(commands) :
           /\ host' = [host EXCEPT ![h].salt = IF k >= 2 /\ @ = Nothing THEN "master" ELSE @]
           /\ Outcome(h, k, commands, IF host[h].salt = "other" THEN 0 ELSE Len(commands))
    BY <1>8 DEF MakeSaltResolvable
  <2>2. ProcessTyped'
    BY <1>1, <2>1, OutcomeTyped
  <2>3. host' \in [Host -> HostState]
    BY <1>1, <2>1 DEF HostState
  <2>4. QED
    BY <1>2, <1>8, <2>2, <2>3 DEF MakeSaltResolvable
<1>9. CASE SetHostname(h)
  <2> DEFINE commands == <<"hostname", "set">>
  <2>1. PICK k \in 0..Len(commands), torn \in BOOLEAN :
           /\ host' = [host EXCEPT
                  ![h].conf = IF h \notin Rhel5 THEN Written(@, run[h], commands, k, torn)
                              ELSE IF k >= 1 THEN SetNetConfigVar(@, run[h], "hostname")
                              ELSE @,
                  ![h].name = IF k = 2 THEN run[h][2] ELSE @]
           /\ Outcome(h, k, commands, Len(commands))
    BY <1>9 DEF SetHostname
  <2>2. ProcessTyped'
    BY <1>1, <2>1, OutcomeTyped
  <2> DEFINE conf == IF h \notin Rhel5 THEN Written(host[h].conf, run[h], commands, k, torn)
                     ELSE IF k >= 1 THEN SetNetConfigVar(host[h].conf, run[h], "hostname")
                     ELSE host[h].conf
             name == IF k = 2 THEN run[h][2] ELSE host[h].name
  <2>3. conf \in [Setting -> Value]
    <3>1. host[h].conf \in [Setting -> Value] /\ "hostname" \in Setting
      BY <1>1 DEF HostState, Setting
    <3>2. QED
      BY <1>1, <3>1, SetNetConfigVarTyped, FilesTyped
  <2>4. name \in Value
    BY <1>1 DEF HostState, Value
  <2>5. host' = [host EXCEPT ![h] = [host[h] EXCEPT !.conf = conf, !.name = name]]
    BY <2>1
  <2> HIDE DEF conf, name
  <2>6. [host[h] EXCEPT !.conf = conf, !.name = name] \in HostState
    BY <1>1, <2>3, <2>4 DEF HostState
  <2>7. QED
    BY <1>2, <1>3, <1>9, <2>2, <2>5, <2>6 DEF SetHostname
<1>10. CASE CreatePrimaryUser(h)
  <2> DEFINE commands == <<"group", "user", "password">>
  <2>1. PICK k \in 0..Len(commands) :
           /\ host' = [host EXCEPT ![h].accounts = @ \cup {commands[i] : i \in 1..k}]
           /\ Outcome(h, k, commands, Len(commands))
    BY <1>10 DEF CreatePrimaryUser
  <2>2. ProcessTyped'
    BY <1>1, <2>1, OutcomeTyped
  <2> DEFINE done == {commands[i] : i \in 1..k}
  <2>3. done \subseteq {"group", "user", "password"}
    OBVIOUS
  <2>4. host' = [host EXCEPT ![h] = [host[h] EXCEPT !.accounts = @ \cup done]]
    BY <2>1
  <2> HIDE DEF done
  <2>5. [host[h] EXCEPT !.accounts = @ \cup done] \in HostState
    BY <1>1, <2>3 DEF HostState
  <2>6. QED
    BY <1>2, <1>3, <1>10, <2>2, <2>4, <2>5 DEF CreatePrimaryUser
<1>11. CASE InitYumRepos(h)
  <2> DEFINE commands == <<"yum.conf", "backup", "mkdir", "repo_list", "rpm_keys", "query">>
             Repos(k) == IF k >= 2 /\ host[h].backup = Nothing THEN Nothing ELSE host[h].repos
  <2>1. PICK k \in 0..Len(commands), torn \in BOOLEAN :
           /\ host' = [host EXCEPT
                  ![h].conf = Written(@, run[h], commands, k, torn),
                  ![h].backup = IF k >= 2 /\ @ = Nothing THEN host[h].repos ELSE @,
                  ![h].repos = IF k >= 3 /\ Repos(k) = Nothing THEN "deployed" ELSE Repos(k)]
           /\ Outcome(h, k, commands, Len(commands))
    BY <1>11 DEF InitYumRepos
  <2>2. ProcessTyped'
    BY <1>1, <2>1, OutcomeTyped
  <2> DEFINE conf == Written(host[h].conf, run[h], commands, k, torn)
             backup == IF k >= 2 /\ host[h].backup = Nothing THEN host[h].repos
                       ELSE host[h].backup
             repos == IF k >= 3 /\ Repos(k) = Nothing THEN "deployed" ELSE Repos(k)
  <2>3. conf \in [Setting -> Value]
    BY <1>1, FilesTyped
  <2>4. {backup, repos} \subseteq {Original, "deployed", Nothing}
    BY <1>1 DEF HostState
  <2>5. host' = [host EXCEPT
                   ![h] = [host[h] EXCEPT !.conf = conf, !.backup = backup, !.repos = repos]]
    BY <2>1
  <2> HIDE DEF conf, backup, repos
  <2>6. [host[h] EXCEPT !.conf = conf, !.backup = backup, !.repos = repos] \in HostState
    BY <1>1, <2>3, <2>4 DEF HostState
  <2>7. QED
    BY <1>2, <1>3, <1>11, <2>2, <2>5, <2>6 DEF InitYumRepos
<1>12. ASSUME NEW role \in Role, NEW commands, NEW k, NEW torn
       PROVE  Installed(h, role, commands, k, torn) \in HostState
  BY <1>1, <1>12, InstalledTyped
<1>13. CASE InstallSaltMaster(h)
  <2> DEFINE commands == <<"mkdir", "unpack", "install", "master.conf", "rm", "delete_keys">>
  <2>1. CASE h # Master
    BY <1>1, <1>2, <1>13, <2>1, ProceedTyped DEF InstallSaltMaster
  <2>2. CASE h = Master
    <3>1. PICK k \in 0..Len(commands), torn \in BOOLEAN :
             /\ host' = [host EXCEPT ![h] = Installed(h, "master", commands, k, torn)]
             /\ keys' = IF k = 6 THEN {} ELSE keys
             /\ Outcome(h, k, commands, Installable(h, "master", Len(commands)))
      BY <1>13, <2>2 DEF InstallSaltMaster
    <3>2. ProcessTyped'
      BY <1>1, <3>1, OutcomeTyped
    <3>3. Installed(h, "master", commands, k, torn) \in HostState
      BY <1>12 DEF Role
    <3>4. QED
      BY <1>2, <1>3, <3>1, <3>2, <3>3
  <2>3. QED
    BY <2>1, <2>2
<1>14. CASE InstallSaltMinion(h)
  <2> DEFINE commands == <<"mkdir", "unpack", "install", "minion.conf", "rm">>
  <2>1. PICK k \in 0..Len(commands), torn \in BOOLEAN :
           /\ host' = [host EXCEPT ![h] = Installed(h, "minion", commands, k, torn)]
           /\ Outcome(h, k, commands, Installable(h, "minion", Len(commands)))
    BY <1>14 DEF InstallSaltMinion
  <2>2. ProcessTyped'
    BY <1>1, <2>1, OutcomeTyped
  <2>3. Installed(h, "minion", commands, k, torn) \in HostState
    BY <1>12 DEF Role
  <2>4. QED
    BY <1>2, <1>3, <1>14, <2>1, <2>2, <2>3 DEF InstallSaltMinion
<1>15. CASE LinkSources(h)
  <2> DEFINE commands == <<"mkdir", "sources", "states_links">>
  <2>1. PICK k \in 0..Len(commands), torn \in BOOLEAN :
           /\ host' = [host EXCEPT ![h].conf = Written(@, run[h], commands, k, torn)]
           /\ Outcome(h, k, commands, Len(commands))
    BY <1>15 DEF LinkSources
  <2>2. ProcessTyped'
    BY <1>1, <2>1, OutcomeTyped
  <2> DEFINE conf == Written(host[h].conf, run[h], commands, k, torn)
  <2>3. conf \in [Setting -> Value]
    BY <1>1, FilesTyped
  <2>4. host' = [host EXCEPT ![h] = [host[h] EXCEPT !.conf = conf]]
    BY <2>1
  <2> HIDE DEF conf
  <2>5. QED
    BY <1>1, <1>2, <1>3, <1>15, <2>2, <2>3, <2>4 DEF LinkSources, HostState
<1>16. CASE LinkResources(h)
  <2> DEFINE commands == <<"mkdir", "mkdir", "resources_link">>
  <2>1. PICK k \in 0..Len(commands) :
           /\ host' = [host EXCEPT ![h].conf = Written(@, run[h], commands, k, FALSE)]
           /\ Outcome(h, k, commands, Len(commands))
    BY <1>16 DEF LinkResources
  <2>2. ProcessTyped'
    BY <1>1, <2>1, OutcomeTyped
  <2> DEFINE conf == Written(host[h].conf, run[h], commands, k, FALSE)
  <2>3. conf \in [Setting -> Value]
    BY <1>1, FilesTyped
  <2>4. host' = [host EXCEPT ![h] = [host[h] EXCEPT !.conf = conf]]
    BY <2>1
  <2> HIDE DEF conf
  <2>5. QED
    BY <1>1, <1>2, <1>3, <1>16, <2>2, <2>3, <2>4 DEF LinkResources, HostState
<1>17. CASE ActivateSaltMaster(h)
  <2>1. ASSUME NEW commands, NEW k
        PROVE  Activated(host[h], "salt-master", "master.conf", commands, k) \in HostState
    BY <1>1, ActivatedTyped DEF Service, Setting
  <2>2. CASE Proceed(h) /\ UNCHANGED host
    BY <1>1, <1>2, <1>17, <2>2, ProceedTyped DEF ActivateSaltMaster
  <2>3. CASE RestartMaster(h)
    <3>1. PICK k, commands, stuck :
             /\ host' = [host EXCEPT ![h] =
                            Activated(@, "salt-master", "master.conf", commands, k)]
             /\ Outcome(h, k, commands, stuck)
      BY <2>3 DEF RestartMaster
    <3>2. ProcessTyped'
      BY <1>1, <3>1, OutcomeTyped
    <3>3. QED
      BY <1>2, <1>3, <1>17, <2>1, <3>1, <3>2 DEF ActivateSaltMaster
  <2>4. CASE KeepMaster(h)
    <3>1. PICK k, commands : host' = [host EXCEPT ![h] =
                                Activated(@, "salt-master", "master.conf", commands, k)]
      BY <2>4 DEF KeepMaster
    <3>2. QED
      BY <1>1, <1>2, <1>3, <1>17, <2>1, <2>4, <3>1, KeepMasterTyped DEF ActivateSaltMaster
  <2>5. QED
    BY <1>17, <2>2, <2>3, <2>4 DEF ActivateSaltMaster
<1>18. CASE ActivateSaltMinion(h)
  <2>1. PICK k \in 0..Len(StartCommands) :
           /\ host' = [host EXCEPT ![h] =
                          Activated(@, "salt-minion", "minion.conf", StartCommands, k)]
           /\ Outcome(h, k, StartCommands, Pingable(h, StartCommands))
    BY <1>18 DEF ActivateSaltMinion
  <2>2. ProcessTyped'
    BY <1>1, <2>1, OutcomeTyped
  <2>3. Activated(host[h], "salt-minion", "minion.conf", StartCommands, k) \in HostState
    BY <1>1, ActivatedTyped DEF Service, Setting
  <2>4. QED
    BY <1>2, <1>3, <1>18, <2>1, <2>2, <2>3 DEF ActivateSaltMinion
<1>19. CASE RunInitStates(h)
  BY <1>1, <1>2, <1>19, OutcomeTyped DEF RunInitStates
<1>20. CASE RunHighstate(h)
  BY <1>1, <1>2, <1>20, OutcomeTyped DEF RunHighstate
<1>21. QED
  BY <1>4, <1>5, <1>6, <1>7, <1>8, <1>9, <1>10, <1>11, <1>13, <1>14, <1>15, <1>16,
     <1>17, <1>18, <1>19, <1>20 DEF TakeStep

LEMMA InitTyped == Init => TypeOK
<1> SUFFICES ASSUME Init PROVE TypeOK
  OBVIOUS
<1>1. PICK salt \in SaltEntries, set \in NetworkFiles :
         host = [h \in Host |->
            [conf |-> [s \in Setting |->
                         IF s \in {"gateway", "hostname"} \ set THEN Missing ELSE Original],
             route |-> Original,
             name |-> Original,
             salt |-> salt,
             accounts |-> {},
             repos |-> Original,
             backup |-> Nothing,
             rpms |-> [x \in Role \X Package |-> Nothing],
             installed |-> [x \in Role |-> Nothing],
             enabled |-> {"firewall"},
             running |-> [x \in Service |-> IF x = "firewall" THEN Original ELSE Nothing]]]
  BY DEF Init
<1>2. salt \in {"master", "other", Nothing}
  BY OriginAssumption
<1>3. [s \in Setting |-> IF s \in {"gateway", "hostname"} \ set THEN Missing ELSE Original]
        \in [Setting -> Value]
  BY DEF Value
<1>4. [x \in Service |-> IF x = "firewall" THEN Original ELSE Nothing]
        \in [Service -> Value \cup {Nothing}]
  BY DEF Value
<1>5. host \in [Host -> HostState]
  BY <1>1, <1>2, <1>3, <1>4 DEF HostState, Service, Value
<1>6. {MaxFailures, MaxReruns} \subseteq Nat /\ Len(StepOrder) \in Nat
  BY BoundAssumption, StepCount
<1>7. /\ step \in [Host -> 0..Len(StepOrder)]
      /\ completed \in [Host -> BOOLEAN] /\ unstopped \in [Host -> BOOLEAN]
  BY <1>6 DEF Init
<1>8. keys \subseteq Host /\ run \in [Host -> Run]
  BY DEF Init
<1>9. failures \in 0..MaxFailures /\ reruns \in 0..MaxReruns
  BY <1>6 DEF Init
<1>10. QED
  BY <1>5, <1>7, <1>8, <1>9 DEF TypeOK

LEMMA RebootTyped ==
  ASSUME TypeOK, NEW h \in Host, Reboot(h)
  PROVE  TypeOK'
<1> DEFINE gateway == host[h].conf["gateway"]
           hostname == host[h].conf["hostname"]
           route == IF gateway = Missing THEN Nothing ELSE gateway
           name == IF hostname = Missing THEN Original ELSE hostname
           running == [x \in Service |->
               IF x \notin host[h].enabled THEN Nothing
               ELSE CASE x = "salt-master" -> host[h].conf["master.conf"]
                      [] x = "salt-minion" -> host[h].conf["minion.conf"]
                      [] x = "firewall" -> Original]
<1>1. host[h] \in HostState /\ host[h].conf \in [Setting -> Value]
  BY DEF TypeOK, HostState
<1>2. running \in [Service -> Value \cup {Nothing}]
  BY <1>1 DEF Service, Setting, Value
<1>3. host' = [host EXCEPT ![h] = [host[h] EXCEPT !.route = route, !.name = name,
                                                  !.running = running]]
  BY DEF Reboot
<1>4. route \in Value \cup {Nothing} /\ name \in Value
  BY <1>1 DEF Setting, Value
<1> HIDE DEF route, name, running
<1>5. [host[h] EXCEPT !.route = route, !.name = name, !.running = running] \in HostState
  BY <1>1, <1>2, <1>4 DEF HostState
<1>6. host' \in [Host -> HostState]
  BY <1>3, <1>5 DEF TypeOK
<1>7. ProcessTyped /\ ProcessTyped'
  BY BoundAssumption, StepCount DEF TypeOK, ProcessTyped, Reboot
<1>8. QED
  BY <1>6, <1>7 DEF TypeOK, ProcessTyped, Reboot

\* Variables have their types in every reachable state.
THEOREM TypeCorrect == Spec => []TypeOK
<1>1. TypeOK /\ [Next]_vars => TypeOK'
  <2> SUFFICES ASSUME TypeOK, [Next]_vars PROVE TypeOK'
    OBVIOUS
  <2>1. ASSUME NEW h \in Host, TakeStep(h) PROVE TypeOK'
    BY <2>1, StepTyped
  <2>2. ASSUME NEW h \in Host, Reboot(h) PROVE TypeOK'
    BY <2>2, RebootTyped
  <2>3. ASSUME NEW h \in Host, Reconnect(h) PROVE TypeOK'
    BY <2>3 DEF Reconnect, process, TypeOK
  <2>4. ASSUME NEW h \in Host, NEW r \in Run, Start(h, r) PROVE TypeOK'
    <3>1. step' = [step EXCEPT ![h] = 1] /\ 1 \in 0..Len(StepOrder)
      BY <2>4 DEF Start, StepOrder
    <3>2. completed' = [completed EXCEPT ![h] = FALSE] /\ run' = [run EXCEPT ![h] = r]
      BY <2>4 DEF Start
    <3>3. reruns' \in 0..MaxReruns
      BY <2>4, BoundAssumption DEF Start, TypeOK
    <3>4. completed' \in [Host -> BOOLEAN] /\ unstopped' \in [Host -> BOOLEAN]
      <4>1. unstopped' = [unstopped EXCEPT ![h] = FALSE]
        BY <2>4 DEF Start
      <4>2. QED
        BY <3>2, <4>1, Zenon DEF TypeOK
    <3>5. step' \in [Host -> 0..Len(StepOrder)] /\ run' \in [Host -> Run]
      BY <3>1, <3>2 DEF TypeOK
    <3>6. QED
      BY <2>4, <3>3, <3>4, <3>5 DEF Start, TypeOK
  <2>5. CASE UNCHANGED vars
    BY <2>5 DEF vars, TypeOK
  <2>6. QED
    BY <2>1, <2>2, <2>3, <2>4, <2>5 DEF Next
<1>2. QED
  BY <1>1, InitTyped, PTL DEF Spec

--------------------------------------------------------------------------------
(* Completed deployments *)

Applies(h, s) == s \in Enabled /\ run[h][1] \in UseCases(s)

\* What step s leaves, and the files it is restored from when h is rebooted.
DoneForGood(h, s) ==
    /\ Done(h, s)
    /\ s = "init_ip_route" => host[h].conf["gateway"] = run[h][2]
    /\ s = "set_hostname" => host[h].conf["hostname"] = run[h][2]

\* The steps before the present one, or all of a completed run, are done.
Progress(h) ==
    \A i \in 1..Len(StepOrder) :
        /\ completed[h] \/ i < step[h]
        /\ Applies(h, StepOrder[i])
        => DoneForGood(h, StepOrder[i])

ReposState(h) ==
    \/ host[h].repos = Original /\ host[h].backup = Nothing
    \/ host[h].repos \in {Nothing, "deployed"} /\ host[h].backup = Original

NetworkSet(h) == Missing \notin {host[h].conf["gateway"], host[h].conf["hostname"]}

DeployInv ==
    /\ TypeOK
    /\ \A h \in Host :
          /\ step[h] # 0 => ~completed[h]
          /\ ReposState(h)
          /\ NetworkSet(h)
          /\ Progress(h)

\* State n has whatever a run r had achieved in state o.
Better(o, n, r) ==
    /\ \A f \in Setting : n.conf[f] \in {o.conf[f], Content(r, f)}
    /\ n.route \in {o.route, r[2]}
    /\ n.name \in {o.name, r[2]}
    /\ n.salt \in {o.salt, "master"}
    /\ o.accounts \subseteq n.accounts
    /\ o.repos = "deployed" /\ o.backup = Original => n.repos = "deployed" /\ n.backup = Original
    /\ \A x \in Role : o.rpms[<<x, r[2]>>] = Nothing => n.rpms[<<x, r[2]>>] = Nothing
    /\ \A x \in Role : n.installed[x] \in {o.installed[x], r[2]}
    /\ \A x \in {"salt-master", "salt-minion"} :
          /\ x \in o.enabled => x \in n.enabled
          /\ o.running[x] # Nothing => n.running[x] # Nothing
    /\ "firewall" \notin o.enabled => "firewall" \notin n.enabled
    /\ o.running["firewall"] = Nothing => n.running["firewall"] = Nothing

LEMMA BetterKeeps ==
  ASSUME TypeOK, TypeOK', NEW h \in Host, run' = run, Better(host[h], host'[h], run[h]),
         NEW s, DoneForGood(h, s)
  PROVE  DoneForGood(h, s)'
<1> DEFINE o == host[h]  n == host'[h]  r == run[h]
<1>1. n \in HostState /\ o \in HostState
  BY DEF TypeOK
<1>2. \A f \in Setting : o.conf[f] = Content(r, f) => n.conf[f] = Content(r, f)
  BY DEF Better
<1>3. Content(r, "gateway") = r[2] /\ Content(r, "hostname") = r[2]
  BY DEF Content
<1>4. /\ s = "init_ip_route" => n.conf["gateway"] = r[2]
      /\ s = "set_hostname" => n.conf["hostname"] = r[2]
  BY <1>2, <1>3 DEF DoneForGood, Setting
<1>5. CASE s \in {"init_ip_route", "make_salt_resolvable", "set_hostname", "init_yum_repos"}
  BY <1>2, <1>4, <1>5 DEF DoneForGood, Done, Better, Setting
<1>6. CASE s = "create_primary_user"
  BY <1>1, <1>6 DEF DoneForGood, Done, Better, HostState
<1>7. CASE s \in {"init_dns_server", "link_sources", "link_resources"}
  BY <1>2, <1>7 DEF DoneForGood, Done, Setting
<1>8. CASE s \in {"install_salt_master", "install_salt_minion"}
  BY <1>2, <1>8 DEF DoneForGood, Done, Setting, Better, Role
<1>9. CASE s \in {"activate_salt_master", "activate_salt_minion"}
  BY <1>9 DEF DoneForGood, Done, Better
<1>10. QED
  BY <1>5, <1>6, <1>7, <1>8, <1>9 DEF DoneForGood, Done

\* The run on h ends early.
Ended(h) == step' = [step EXCEPT ![h] = 0] /\ UNCHANGED completed

LEMMA OutcomeCases ==
  ASSUME NEW h \in Host, NEW k, NEW commands, NEW stuck, Outcome(h, k, commands, stuck)
  PROVE  run' = run /\ unstopped' = unstopped /\ (Ended(h) \/ (Proceed(h) /\ k = Len(commands)))
  BY DEF Outcome, Ended, Proceed, Raise, Fail

\* What is to be shown of each step.
StepResult(h, s) ==
    /\ \A g \in Host \ {h} : host'[g] = host[g]
    /\ run' = run
    /\ ReposState(h)'
    /\ NetworkSet(h)'
    /\ \/ Ended(h)
       \/ Advance(h) /\ Better(host[h], host'[h], run[h]) /\ (Applies(h, s) => DoneForGood(h, s)')

LEMMA StepResultSuffices ==
  ASSUME DeployInv, TypeOK', NEW h \in Host, step[h] # 0,
         NEW s, StepOrder[step[h]] = s, StepResult(h, s)
  PROVE  DeployInv'
<1>1. ASSUME NEW g \in Host, g # h
      PROVE  (step[g] # 0 => ~completed[g])' /\ ReposState(g)' /\ NetworkSet(g)' /\ Progress(g)'
  <2>1. host'[g] = host[g] /\ run' = run /\ step'[g] = step[g] /\ completed'[g] = completed[g]
    BY <1>1 DEF StepResult, Ended, Advance, DeployInv, TypeOK
  <2>2. QED
    BY <2>1 DEF DeployInv, ReposState, NetworkSet, Progress, Applies, DoneForGood, Done
<1>2. CASE Ended(h)
  <2>1. step'[h] = 0 /\ ~completed'[h]
    BY <1>2 DEF Ended, DeployInv, TypeOK
  <2>2. Progress(h)'
    BY <2>1, StepCount DEF Progress
  <2>3. QED
    BY <1>1, <2>1, <2>2 DEF DeployInv, StepResult
<1>3. CASE /\ Advance(h) /\ Better(host[h], host'[h], run[h])
           /\ Applies(h, s) => DoneForGood(h, s)'
  <2>1. ASSUME NEW i \in 1..Len(StepOrder), i <= step[h], Applies(h, StepOrder[i])'
        PROVE  DoneForGood(h, StepOrder[i])'
    <3>1. Applies(h, StepOrder[i]) /\ run' = run
      BY <2>1 DEF StepResult, Applies
    <3>2. CASE i = step[h]
      <4>1. s = StepOrder[i]
        BY <3>2
      <4>2. QED
        BY <1>3, <3>1, <4>1
    <3>3. CASE i < step[h]
      <4>1. DoneForGood(h, StepOrder[i])
        BY <3>1, <3>3 DEF DeployInv, Progress
      <4>2. QED
        BY <1>3, <3>1, <4>1, BetterKeeps DEF DeployInv
    <3>4. step[h] \in Int /\ i \in Int
      BY StepCount DEF DeployInv, TypeOK
    <3>5. i = step[h] \/ i < step[h]
      BY <2>1, <3>4
    <3>6. QED
      BY <3>2, <3>3, <3>5
  <2>2. Progress(h)'
    <3>1. \A i \in 1..Len(StepOrder) : completed'[h] \/ i < step'[h] => i <= step[h]
      <4>1. step[h] \in 0..Len(StepOrder) /\ ~completed[h]
        BY DEF DeployInv, TypeOK
      <4>2. QED
        BY <1>3, <4>1, StepCount DEF Advance, DeployInv, TypeOK
    <3>2. QED
      BY <2>1, <3>1 DEF Progress
  <2>3. step'[h] # 0 => ~completed'[h]
    BY <1>3, StepCount DEF Advance, DeployInv, TypeOK
  <2>4. QED
    BY <1>1, <2>2, <2>3 DEF DeployInv, StepResult
<1>4. QED
  BY <1>2, <1>3 DEF StepResult

\* After all commands of a step, files are as they were or as the run wants them.
LEMMA WrittenEffect ==
  ASSUME NEW conf \in [Setting -> Value], NEW r \in Run, NEW commands, NEW k, NEW torn,
         NEW f \in Setting
  PROVE  LET written == Written(conf, r, commands, k, torn)[f]
         IN  /\ written \in {conf[f], Content(r, f), Damaged}
             /\ k = Len(commands) /\ k \in Nat => written \in {conf[f], Content(r, f)}
             /\ (\E i \in 1..k : commands[i] = f) => written = Content(r, f)
  BY DEF Written

LEMMA NetworkKept ==
  ASSUME NEW conf \in [Setting -> Value], NEW r \in Run,
         Missing \notin {conf["gateway"], conf["hostname"]}
  PROVE  /\ \A commands, k, torn :
               Missing \notin {Written(conf, r, commands, k, torn)["gateway"],
                              Written(conf, r, commands, k, torn)["hostname"]}
         /\ \A s \in {"gateway", "hostname"} :
               Missing \notin {SetNetConfigVar(conf, r, s)["gateway"],
                              SetNetConfigVar(conf, r, s)["hostname"]}
<1>1. \A f \in Setting : Content(r, f) # Missing
  BY ContentTyped, RunAssumption
<1>2. Damaged # Missing /\ {"gateway", "hostname"} \subseteq Setting
  BY RunAssumption DEF Setting
<1>3. QED
  BY <1>1, <1>2, WrittenEffect DEF SetNetConfigVar

\* A step whose commands, when all are done, achieve what it is for.
LEMMA ResultFrom ==
  ASSUME DeployInv, NEW h \in Host, NEW s, NEW k, NEW commands, NEW stuck,
         Outcome(h, k, commands, stuck),
         \A g \in Host \ {h} : host'[g] = host[g],
         ReposState(h)', NetworkSet(h)',
         Proceed(h) /\ k = Len(commands) =>
            Better(host[h], host'[h], run[h]) /\ DoneForGood(h, s)'
  PROVE  StepResult(h, s)
  BY OutcomeCases DEF StepResult, Proceed

\* A step that changes files only.
LEMMA FilesOnly ==
  ASSUME DeployInv, TypeOK', NEW h \in Host, NEW s, NEW k \in Nat, NEW torn, NEW commands,
         host' = [host EXCEPT ![h].conf = Written(@, run[h], commands, k, torn)],
         Outcome(h, k, commands, Len(commands)),
         k = Len(commands) /\ run' = run
            /\ (\A f \in Setting : (\E i \in 1..k : commands[i] = f) =>
                                     host'[h].conf[f] = Content(run[h], f))
            => Done(h, s)',
         s # "init_ip_route", s # "set_hostname"
  PROVE  StepResult(h, s)
<1> DEFINE conf == Written(host[h].conf, run[h], commands, k, torn)
<1>1. /\ run[h] \in Run /\ host[h] \in HostState
      /\ host[h].conf \in [Setting -> Value]
  BY DEF DeployInv, TypeOK, HostState
<1>2. conf \in [Setting -> Value]
  BY <1>1, WrittenTyped
<1>3. /\ host'[h] = [host[h] EXCEPT !.conf = conf]
      /\ \A g \in Host \ {h} : host'[g] = host[g]
  BY DEF DeployInv, TypeOK
<1>4. host'[h].conf = conf
  BY <1>1, <1>3 DEF HostState
<1>5. NetworkSet(h)' /\ ReposState(h)'
  BY <1>1, <1>3, <1>4, NetworkKept DEF DeployInv, NetworkSet, ReposState, HostState
<1>6. ASSUME Proceed(h), k = Len(commands)
      PROVE  Better(host[h], host'[h], run[h]) /\ DoneForGood(h, s)'
  <2>1. Better(host[h], host'[h], run[h])
    BY <1>1, <1>3, <1>4, <1>6, WrittenEffect DEF Better, HostState
  <2>2. \A f \in Setting : (\E i \in 1..k : commands[i] = f) =>
                                     host'[h].conf[f] = Content(run[h], f)
    BY <1>1, <1>4, WrittenEffect
  <2>3. run' = run
    BY <1>6 DEF Proceed
  <2>4. DoneForGood(h, s)'
    BY <1>6, <2>2, <2>3 DEF DoneForGood
  <2>5. QED
    BY <2>1, <2>4
<1>7. QED
  BY <1>3, <1>5, <1>6, ResultFrom

\* A step that leaves the host as it is.
LEMMA NothingChanged ==
  ASSUME DeployInv, NEW h \in Host, UNCHANGED host, run' = run,
         NEW s \in {"unlock_node", "run_init_states", "run_highstate"},
         Proceed(h) \/ Ended(h)
  PROVE  StepResult(h, s)
<1>1. ReposState(h)' /\ NetworkSet(h)'
  BY DEF DeployInv, ReposState, NetworkSet
<1>2. Better(host[h], host'[h], run[h]) /\ DoneForGood(h, s)'
  BY DEF Better, DoneForGood, Done
<1>3. QED
  BY <1>1, <1>2 DEF StepResult, Proceed

LEMMA InitIpRouteResult ==
  ASSUME DeployInv, TypeOK', NEW h \in Host, InitIpRoute(h)
  PROVE  StepResult(h, "init_ip_route")
<1> DEFINE commands == <<"gateway", "list", "delete", "add", "ping">>
<1>1. /\ run[h] \in Run /\ run[h][2] \in Package
      /\ host[h] \in HostState /\ host'[h] \in HostState
      /\ ReposState(h) /\ NetworkSet(h)
  BY DEF DeployInv, TypeOK, Run
<1>2. PICK k \in 0..Len(commands) :
         /\ host' = [host EXCEPT
                ![h].conf = IF k >= 1 THEN SetNetConfigVar(@, run[h], "gateway") ELSE @,
                ![h].route = IF k >= 4 THEN run[h][2] ELSE IF k = 3 THEN Nothing ELSE @]
         /\ Outcome(h, k, commands, Len(commands))
  BY DEF InitIpRoute
<1> DEFINE conf == IF k >= 1 THEN SetNetConfigVar(host[h].conf, run[h], "gateway")
                   ELSE host[h].conf
           route == IF k >= 4 THEN run[h][2] ELSE IF k = 3 THEN Nothing ELSE host[h].route
<1>3. /\ host'[h] = [host[h] EXCEPT !.conf = conf, !.route = route]
      /\ \A g \in Host \ {h} : host'[g] = host[g]
  BY <1>2 DEF DeployInv, TypeOK
<1>4. host[h].conf \in [Setting -> Value] /\ "gateway" \in Setting
  BY <1>1 DEF HostState, Setting
<1>5. Missing \notin {conf["gateway"], conf["hostname"]}
  BY <1>1, <1>4, NetworkKept DEF NetworkSet
<1>6. ReposState(h)' /\ NetworkSet(h)'
  BY <1>1, <1>3, <1>5 DEF ReposState, NetworkSet, HostState
<1>7. ASSUME Proceed(h), k = Len(commands)
      PROVE  Better(host[h], host'[h], run[h]) /\ DoneForGood(h, "init_ip_route")'
  <2>1. conf = [host[h].conf EXCEPT !["gateway"] = run[h][2]] /\ route = run[h][2]
    BY <1>1, <1>7 DEF NetworkSet, SetNetConfigVar, Content
  <2>2. host'[h].conf["gateway"] = run[h][2] /\ host'[h].route = run[h][2]
    BY <1>1, <1>3, <1>4, <2>1 DEF HostState
  <2>3. Content(run[h], "gateway") = run[h][2]
    BY DEF Content
  <2>4. Better(host[h], host'[h], run[h])
    BY <1>1, <1>3, <1>4, <2>1, <2>3 DEF Better, HostState
  <2>5. run' = run
    BY <1>7 DEF Proceed
  <2>6. DoneForGood(h, "init_ip_route")'
    BY <2>2, <2>5 DEF DoneForGood, Done
  <2>7. QED
    BY <2>4, <2>6
<1> HIDE DEF commands, conf, route
<1>8. QED
  BY <1>2, <1>3, <1>6, <1>7, ResultFrom

LEMMA InitDnsServerResult ==
  ASSUME DeployInv, TypeOK', NEW h \in Host, InitDnsServer(h)
  PROVE  StepResult(h, "init_dns_server")
<1> DEFINE commands == <<"resolv.conf", "ping">>
<1>1. PICK k \in 0..Len(commands), torn \in BOOLEAN :
         /\ host' = [host EXCEPT ![h].conf = Written(@, run[h], commands, k, torn)]
         /\ Outcome(h, k, commands, Len(commands))
  BY DEF InitDnsServer
<1>2. ASSUME k = Len(commands), run' = run,
             \A f \in Setting : (\E i \in 1..k : commands[i] = f) =>
                                      host'[h].conf[f] = Content(run[h], f)
      PROVE  Done(h, "init_dns_server")'
  <2>1. commands[1] = "resolv.conf" /\ 1 \in 1..k /\ "resolv.conf" \in Setting
    BY <1>2 DEF Setting
  <2>2. host'[h].conf["resolv.conf"] = Content(run[h], "resolv.conf")
    BY <1>2, <2>1
  <2>3. QED
    BY <1>2, <2>2 DEF Done
<1>3. k \in Nat
  OBVIOUS
<1> HIDE DEF commands
<1>4. QED
  BY <1>1, <1>2, <1>3, FilesOnly

LEMMA MakeSaltResolvableResult ==
  ASSUME DeployInv, TypeOK', NEW h \in Host, MakeSaltResolvable(h)
  PROVE  StepResult(h, "make_salt_resolvable")
<1> DEFINE commands == <<"diff", "patch", "ping">>
<1>1. /\ host[h] \in HostState /\ host'[h] \in HostState
      /\ ReposState(h) /\ NetworkSet(h)
  BY DEF DeployInv, TypeOK
<1>2. PICK k \in 0..Len(commands) :
         /\ host' = [host EXCEPT ![h].salt = IF k >= 2 /\ @ = Nothing THEN "master" ELSE @]
         /\ Outcome(h, k, commands, IF host[h].salt = "other" THEN 0 ELSE Len(commands))
  BY DEF MakeSaltResolvable
<1> DEFINE salt == IF k >= 2 /\ host[h].salt = Nothing THEN "master" ELSE host[h].salt
<1>3. /\ host'[h] = [host[h] EXCEPT !.salt = salt]
      /\ \A g \in Host \ {h} : host'[g] = host[g]
  BY <1>2 DEF DeployInv, TypeOK
<1>4. ReposState(h)' /\ NetworkSet(h)'
  BY <1>1, <1>3 DEF ReposState, NetworkSet, HostState
<1>5. ASSUME Proceed(h), k = Len(commands)
      PROVE  Better(host[h], host'[h], run[h]) /\ DoneForGood(h, "make_salt_resolvable")'
  <2>1. host[h].salt # "other"
    BY <1>2, <1>5 DEF Outcome
  <2>2. host'[h].salt = "master" /\ salt = "master"
    BY <1>1, <1>3, <1>5, <2>1 DEF HostState
  <2>3. Better(host[h], host'[h], run[h])
    BY <1>1, <1>3, <2>2 DEF Better, HostState
  <2>4. DoneForGood(h, "make_salt_resolvable")'
    BY <2>2 DEF DoneForGood, Done
  <2>5. QED
    BY <2>3, <2>4
<1> HIDE DEF commands, salt
<1>6. QED
  BY <1>2, <1>3, <1>4, <1>5, ResultFrom

LEMMA SetHostnameResult ==
  ASSUME DeployInv, TypeOK', NEW h \in Host, SetHostname(h)
  PROVE  StepResult(h, "set_hostname")
<1> DEFINE commands == <<"hostname", "set">>
<1>1. /\ run[h] \in Run /\ run[h][2] \in Package
      /\ host[h] \in HostState /\ host'[h] \in HostState
      /\ ReposState(h) /\ NetworkSet(h)
  BY DEF DeployInv, TypeOK, Run
<1>2. PICK k \in 0..Len(commands), torn \in BOOLEAN :
         /\ host' = [host EXCEPT
                ![h].conf = IF h \notin Rhel5 THEN Written(@, run[h], commands, k, torn)
                            ELSE IF k >= 1 THEN SetNetConfigVar(@, run[h], "hostname")
                            ELSE @,
                ![h].name = IF k = 2 THEN run[h][2] ELSE @]
         /\ Outcome(h, k, commands, Len(commands))
  BY DEF SetHostname
<1> DEFINE conf == IF h \notin Rhel5 THEN Written(host[h].conf, run[h], commands, k, torn)
                   ELSE IF k >= 1 THEN SetNetConfigVar(host[h].conf, run[h], "hostname")
                   ELSE host[h].conf
           name == IF k = 2 THEN run[h][2] ELSE host[h].name
<1>3. /\ host'[h] = [host[h] EXCEPT !.conf = conf, !.name = name]
      /\ \A g \in Host \ {h} : host'[g] = host[g]
  BY <1>2 DEF DeployInv, TypeOK
<1>4. host[h].conf \in [Setting -> Value] /\ "hostname" \in Setting
  BY <1>1 DEF HostState, Setting
<1>5. Missing \notin {conf["gateway"], conf["hostname"]}
  <2> HIDE DEF commands
  <2>1. QED
    BY <1>1, <1>4, NetworkKept DEF NetworkSet
<1>6. host'[h].conf = conf /\ host'[h].name = name
  BY <1>1, <1>3 DEF HostState
<1>7. ReposState(h)' /\ NetworkSet(h)'
  <2> HIDE DEF conf, name
  <2>1. QED
    BY <1>1, <1>3, <1>5, <1>6 DEF ReposState, NetworkSet, HostState
<1>8. ASSUME Proceed(h), k = Len(commands)
      PROVE  Better(host[h], host'[h], run[h]) /\ DoneForGood(h, "set_hostname")'
  <2>1. /\ Content(run[h], "hostname") = run[h][2] /\ name = run[h][2]
        /\ run' = run
    BY <1>8 DEF Content, Proceed
  <2>2. conf["hostname"] = run[h][2]
    <3>1. CASE h \in Rhel5
      BY <1>1, <1>4, <1>8, <2>1, <3>1 DEF NetworkSet, SetNetConfigVar
    <3>2. CASE h \notin Rhel5
      <4>1. commands[1] = "hostname" /\ 1 \in 1..k
        BY <1>8
      <4>2. QED
        BY <1>1, <1>4, <2>1, <3>2, <4>1, WrittenEffect
    <3>3. QED
      BY <3>1, <3>2
  <2>3. \A f \in Setting : conf[f] \in {host[h].conf[f], Content(run[h], f)}
    <3>1. k = Len(commands) /\ k \in Nat
      BY <1>8
    <3> HIDE DEF commands
    <3>2. CASE h \in Rhel5
      BY <1>1, <1>4, <2>1, <3>2 DEF SetNetConfigVar
    <3>3. CASE h \notin Rhel5
      BY <1>1, <1>4, <3>1, <3>3, WrittenEffect
    <3>4. QED
      BY <3>2, <3>3
  <2> HIDE DEF conf, name
  <2>4. Better(host[h], host'[h], run[h])
    BY <1>1, <1>3, <1>6, <2>1, <2>3 DEF Better, HostState
  <2>5. DoneForGood(h, "set_hostname")'
    BY <1>6, <2>1, <2>2 DEF DoneForGood, Done
  <2>6. QED
    BY <2>4, <2>5
<1> HIDE DEF commands, conf, name
<1>9. QED
  BY <1>2, <1>3, <1>7, <1>8, ResultFrom

LEMMA CreatePrimaryUserResult ==
  ASSUME DeployInv, TypeOK', NEW h \in Host, CreatePrimaryUser(h)
  PROVE  StepResult(h, "create_primary_user")
<1> DEFINE commands == <<"group", "user", "password">>
<1>1. /\ host[h] \in HostState /\ host'[h] \in HostState
      /\ ReposState(h) /\ NetworkSet(h)
  BY DEF DeployInv, TypeOK
<1>2. PICK k \in 0..Len(commands) :
         /\ host' = [host EXCEPT ![h].accounts = @ \cup {commands[i] : i \in 1..k}]
         /\ Outcome(h, k, commands, Len(commands))
  BY DEF CreatePrimaryUser
<1> DEFINE accounts == host[h].accounts \cup {commands[i] : i \in 1..k}
<1>3. /\ host'[h] = [host[h] EXCEPT !.accounts = accounts]
      /\ \A g \in Host \ {h} : host'[g] = host[g]
  BY <1>2 DEF DeployInv, TypeOK
<1>4. host'[h].accounts = accounts
  BY <1>1, <1>3 DEF HostState
<1>5. ReposState(h)' /\ NetworkSet(h)'
  <2> HIDE DEF accounts
  <2>1. QED
    BY <1>1, <1>3 DEF ReposState, NetworkSet, HostState
<1>6. ASSUME Proceed(h), k = Len(commands)
      PROVE  Better(host[h], host'[h], run[h]) /\ DoneForGood(h, "create_primary_user")'
  <2>1. {"group", "user", "password"} \subseteq accounts
    <3>1. /\ 1 \in 1..k /\ 2 \in 1..k /\ 3 \in 1..k
          /\ commands[1] = "group" /\ commands[2] = "user" /\ commands[3] = "password"
      BY <1>6
    <3> HIDE DEF commands
    <3>2. QED
      BY <3>1
  <2>2. host[h].accounts \subseteq accounts
    OBVIOUS
  <2> HIDE DEF accounts
  <2>3. Better(host[h], host'[h], run[h])
    BY <1>1, <1>3, <1>4, <2>2 DEF Better, HostState
  <2>4. host'[h].accounts = {"group", "user", "password"}
    BY <1>1, <1>4, <2>1 DEF HostState
  <2>5. DoneForGood(h, "create_primary_user")'
    BY <2>4 DEF DoneForGood, Done
  <2>6. QED
    BY <2>3, <2>5
<1> HIDE DEF commands, accounts
<1>7. QED
  BY <1>2, <1>3, <1>5, <1>6, ResultFrom

\* Either the repositories in use or the backup are the ones of the operating system.
LEMMA InitYumReposResult ==
  ASSUME DeployInv, TypeOK', NEW h \in Host, InitYumRepos(h)
  PROVE  StepResult(h, "init_yum_repos")
<1> DEFINE commands == <<"yum.conf", "backup", "mkdir", "repo_list", "rpm_keys", "query">>
           Repos(k) == IF k >= 2 /\ host[h].backup = Nothing THEN Nothing ELSE host[h].repos
<1>1. /\ run[h] \in Run
      /\ host[h] \in HostState /\ host'[h] \in HostState
      /\ host[h].conf \in [Setting -> Value]
      /\ ReposState(h) /\ NetworkSet(h)
  BY DEF DeployInv, TypeOK, HostState
<1>2. PICK k \in 0..Len(commands), torn \in BOOLEAN :
         /\ host' = [host EXCEPT
                ![h].conf = Written(@, run[h], commands, k, torn),
                ![h].backup = IF k >= 2 /\ @ = Nothing THEN host[h].repos ELSE @,
                ![h].repos = IF k >= 3 /\ Repos(k) = Nothing THEN "deployed" ELSE Repos(k)]
         /\ Outcome(h, k, commands, Len(commands))
  BY DEF InitYumRepos
<1> DEFINE conf == Written(host[h].conf, run[h], commands, k, torn)
           backup == IF k >= 2 /\ host[h].backup = Nothing THEN host[h].repos ELSE host[h].backup
           repos == IF k >= 3 /\ Repos(k) = Nothing THEN "deployed" ELSE Repos(k)
<1>3. /\ host'[h] = [host[h] EXCEPT !.conf = conf, !.backup = backup, !.repos = repos]
      /\ \A g \in Host \ {h} : host'[g] = host[g]
  BY <1>2 DEF DeployInv, TypeOK
<1>4. Missing \notin {conf["gateway"], conf["hostname"]}
  <2> HIDE DEF commands
  <2>1. QED
    BY <1>1, NetworkKept DEF NetworkSet
<1>5. host'[h].conf = conf /\ host'[h].backup = backup /\ host'[h].repos = repos
  BY <1>1, <1>3 DEF HostState
<1>6. /\ \/ repos = Original /\ backup = Nothing
         \/ repos \in {Nothing, "deployed"} /\ backup = Original
      /\ k >= 3 => repos = "deployed" /\ backup = Original
      /\ backup = Original /\ host[h].repos = "deployed" /\ host[h].backup = Original
            => repos = "deployed"
  BY <1>1, RunAssumption DEF ReposState
<1>7. ReposState(h)' /\ NetworkSet(h)'
  BY <1>4, <1>5, <1>6 DEF ReposState, NetworkSet
<1>8. ASSUME Proceed(h), k = Len(commands)
      PROVE  Better(host[h], host'[h], run[h]) /\ DoneForGood(h, "init_yum_repos")'
  <2>1. repos = "deployed" /\ backup = Original /\ run' = run
    BY <1>6, <1>8 DEF Proceed
  <2>2. /\ k = Len(commands) /\ k \in Nat
        /\ 1 \in 1..k /\ 4 \in 1..k /\ 5 \in 1..k
        /\ commands[1] = "yum.conf" /\ commands[4] = "repo_list" /\ commands[5] = "rpm_keys"
    BY <1>8
  <2> HIDE DEF commands
  <2>3. \A f \in Setting : conf[f] \in {host[h].conf[f], Content(run[h], f)}
    BY <1>1, <2>2, WrittenEffect
  <2>4. \A f \in {"yum.conf", "repo_list", "rpm_keys"} : conf[f] = Content(run[h], f)
    BY <1>1, <2>2, WrittenEffect DEF Setting
  <2> HIDE DEF conf, repos, backup
  <2>5. Better(host[h], host'[h], run[h])
    BY <1>1, <1>3, <1>5, <2>1, <2>3 DEF Better, HostState
  <2>6. DoneForGood(h, "init_yum_repos")'
    BY <1>5, <2>1, <2>4 DEF DoneForGood, Done
  <2>7. QED
    BY <2>5, <2>6
<1> HIDE DEF commands, conf, repos, backup
<1>9. QED
  BY <1>2, <1>3, <1>7, <1>8, ResultFrom

LEMMA LinkSourcesResult ==
  ASSUME DeployInv, TypeOK', NEW h \in Host, LinkSources(h)
  PROVE  StepResult(h, "link_sources")
<1> DEFINE commands == <<"mkdir", "sources", "states_links">>
<1>1. PICK k \in 0..Len(commands), torn \in BOOLEAN :
         /\ host' = [host EXCEPT ![h].conf = Written(@, run[h], commands, k, torn)]
         /\ Outcome(h, k, commands, Len(commands))
  BY DEF LinkSources
<1>2. ASSUME k = Len(commands), run' = run,
             \A f \in Setting : (\E i \in 1..k : commands[i] = f) =>
                                      host'[h].conf[f] = Content(run[h], f)
      PROVE  Done(h, "link_sources")'
  <2>1. /\ commands[2] = "sources" /\ 2 \in 1..k
        /\ commands[3] = "states_links" /\ 3 \in 1..k
        /\ {"sources", "states_links"} \subseteq Setting
    BY <1>2 DEF Setting
  <2>2. \A f \in {"sources", "states_links"} : host'[h].conf[f] = Content(run[h], f)
    BY <1>2, <2>1
  <2>3. QED
    BY <1>2, <2>2 DEF Done
<1>3. k \in Nat
  OBVIOUS
<1> HIDE DEF commands
<1>4. QED
  BY <1>1, <1>2, <1>3, FilesOnly

LEMMA LinkResourcesResult ==
  ASSUME DeployInv, TypeOK', NEW h \in Host, LinkResources(h)
  PROVE  StepResult(h, "link_resources")
<1> DEFINE commands == <<"mkdir", "mkdir", "resources_link">>
<1>1. PICK k \in 0..Len(commands) :
         /\ host' = [host EXCEPT ![h].conf = Written(@, run[h], commands, k, FALSE)]
         /\ Outcome(h, k, commands, Len(commands))
  BY DEF LinkResources
<1>2. ASSUME k = Len(commands), run' = run,
             \A f \in Setting : (\E i \in 1..k : commands[i] = f) =>
                                      host'[h].conf[f] = Content(run[h], f)
      PROVE  Done(h, "link_resources")'
  <2>1. commands[3] = "resources_link" /\ 3 \in 1..k /\ "resources_link" \in Setting
    BY <1>2 DEF Setting
  <2>2. host'[h].conf["resources_link"] = Content(run[h], "resources_link")
    BY <1>2, <2>1
  <2>3. QED
    BY <1>2, <2>2 DEF Done
<1>3. k \in Nat
  OBVIOUS
<1> HIDE DEF commands
<1>4. QED
  BY <1>1, <1>2, <1>3, FilesOnly

\* What the commands of a step that installs Salt do to h.
InstallEffect(h, role, commands, k) ==
    /\ \A g \in Host \ {h} : host'[g] = host[g]
    /\ ReposState(h)' /\ NetworkSet(h)'
    /\ k >= 5 /\ k = Len(commands) =>
          /\ Better(host[h], host'[h], run[h])
          /\ host'[h].installed[role] = run[h][2]
          /\ \A x \in Role : host'[h].rpms[<<x, run[h][2]>>] = Nothing
          /\ \A f \in Setting : (\E i \in 1..k : commands[i] = f) =>
                host'[h].conf[f] = Content(run[h], f)

WithRpms(o, rpms, installed, conf) ==
    [o EXCEPT !.rpms = rpms, !.installed = installed, !.conf = conf]

LEMMA InstalledFields ==
  ASSUME NEW o \in HostState, NEW rpms, NEW installed, NEW conf
  PROVE  LET n == WithRpms(o, rpms, installed, conf)
         IN
         /\ n.rpms = rpms /\ n.installed = installed /\ n.conf = conf
         /\ n.route = o.route /\ n.name = o.name /\ n.salt = o.salt /\ n.accounts = o.accounts
         /\ n.repos = o.repos /\ n.backup = o.backup
         /\ n.enabled = o.enabled /\ n.running = o.running
  BY DEF HostState, WithRpms

LEMMA InstalledEffect ==
  ASSUME DeployInv, TypeOK', NEW h \in Host, NEW role \in Role, NEW commands, NEW k \in Nat,
         NEW torn \in BOOLEAN,
         host' = [host EXCEPT ![h] = Installed(h, role, commands, k, torn)]
  PROVE  InstallEffect(h, role, commands, k)
<1>1. /\ run[h] \in Run /\ run[h][2] \in Package
      /\ host[h] \in HostState /\ host'[h] \in HostState
      /\ host[h].conf \in [Setting -> Value]
      /\ host[h].rpms \in [Role \X Package -> {"whole", Damaged, Nothing}]
      /\ host[h].installed \in [Role -> Package \cup {Nothing}]
      /\ ReposState(h) /\ NetworkSet(h)
  BY DEF DeployInv, TypeOK, HostState, Run
<1> DEFINE this == <<role, run[h][2]>>
           present == IF k >= 2 THEN [host[h].rpms EXCEPT ![this] = "whole"]
                      ELSE IF torn /\ k = 1 THEN [host[h].rpms EXCEPT ![this] = Damaged]
                      ELSE host[h].rpms
           rpms == [x \in DOMAIN host[h].rpms |->
                       IF k >= 5 /\ x[2] = run[h][2] THEN Nothing ELSE present[x]]
           installed == [x \in Role |->
              IF k >= 3 /\ present[<<x, run[h][2]>>] = "whole" THEN run[h][2]
              ELSE host[h].installed[x]]
           conf == Written(host[h].conf, run[h], commands, k, torn)
<1>2. /\ host'[h] = WithRpms(host[h], rpms, installed, conf)
      /\ \A g \in Host \ {h} : host'[g] = host[g]
  <2>1. Installed(h, role, commands, k, torn)
           = WithRpms(host[h], rpms, installed, conf)
    BY DEF Installed, WithRpms
  <2> HIDE DEF rpms, installed, conf
  <2>2. QED
    BY <2>1 DEF DeployInv, TypeOK
<1>3. k >= 5 => /\ installed[role] = run[h][2]
                /\ \A x \in Role : installed[x] \in {host[h].installed[x], run[h][2]}
                /\ \A x \in Role : rpms[<<x, run[h][2]>>] = Nothing
  <2>1. k >= 5 => present[<<role, run[h][2]>>] = "whole"
    BY <1>1
  <2>2. \A x \in Role : <<x, run[h][2]>> \in DOMAIN host[h].rpms /\ <<x, run[h][2]>>[2] = run[h][2]
    BY <1>1
  <2> HIDE DEF present
  <2>3. QED
    BY <2>1, <2>2
<1>4. Missing \notin {conf["gateway"], conf["hostname"]}
  BY <1>1, NetworkKept DEF NetworkSet
<1>5. \A f \in Setting :
         /\ k = Len(commands) => conf[f] \in {host[h].conf[f], Content(run[h], f)}
         /\ (\E i \in 1..k : commands[i] = f) => conf[f] = Content(run[h], f)
  BY <1>1, WrittenEffect
<1> HIDE DEF rpms, installed, conf
<1>6. /\ host'[h].rpms = rpms /\ host'[h].installed = installed /\ host'[h].conf = conf
      /\ host'[h].route = host[h].route /\ host'[h].name = host[h].name
      /\ host'[h].salt = host[h].salt /\ host'[h].accounts = host[h].accounts
      /\ host'[h].repos = host[h].repos /\ host'[h].backup = host[h].backup
      /\ host'[h].enabled = host[h].enabled /\ host'[h].running = host[h].running
  BY <1>1, <1>2, InstalledFields
<1>7. ReposState(h)' /\ NetworkSet(h)'
  BY <1>1, <1>4, <1>6 DEF ReposState, NetworkSet
<1>8. ASSUME k >= 5, k = Len(commands)
      PROVE  Better(host[h], host'[h], run[h])
  BY <1>3, <1>5, <1>6, <1>8 DEF Better
<1>9. QED
  BY <1>2, <1>3, <1>5, <1>6, <1>7, <1>8 DEF InstallEffect

LEMMA InstallSaltMasterResult ==
  ASSUME DeployInv, TypeOK', NEW h \in Host, InstallSaltMaster(h)
  PROVE  StepResult(h, "install_salt_master")
<1> DEFINE commands == <<"mkdir", "unpack", "install", "master.conf", "rm", "delete_keys">>
<1>1. CASE h # Master
  <2>1. Proceed(h) /\ UNCHANGED host
    BY <1>1 DEF InstallSaltMaster
  <2>2. ReposState(h)' /\ NetworkSet(h)' /\ run' = run
    BY <2>1 DEF DeployInv, ReposState, NetworkSet, Proceed
  <2>3. Better(host[h], host'[h], run[h]) /\ DoneForGood(h, "install_salt_master")'
    BY <1>1, <2>1 DEF Better, DoneForGood, Done
  <2>4. QED
    BY <2>1, <2>2, <2>3 DEF StepResult, Proceed
<1>2. CASE h = Master
  <2>1. PICK k \in 0..Len(commands), torn \in BOOLEAN :
           /\ host' = [host EXCEPT ![h] = Installed(h, "master", commands, k, torn)]
           /\ Outcome(h, k, commands, Installable(h, "master", Len(commands)))
    BY <1>2 DEF InstallSaltMaster
  <2>2. k \in Nat /\ (k = Len(commands) => k >= 5)
    OBVIOUS
  <2>3. "master" \in Role
    BY DEF Role
  <2>4. k = Len(commands) => commands[4] = "master.conf" /\ 4 \in 1..k
    OBVIOUS
  <2> HIDE DEF commands
  <2>5. /\ \A g \in Host \ {h} : host'[g] = host[g]
        /\ ReposState(h)' /\ NetworkSet(h)'
        /\ k = Len(commands) =>
              /\ Better(host[h], host'[h], run[h])
              /\ host'[h].installed["master"] = run[h][2]
              /\ \A x \in Role : host'[h].rpms[<<x, run[h][2]>>] = Nothing
              /\ \A f \in Setting : (\E i \in 1..k : commands[i] = f) =>
                    host'[h].conf[f] = Content(run[h], f)
    <3>1. InstallEffect(h, "master", commands, k)
      BY <2>1, <2>2, <2>3, InstalledEffect
    <3>2. QED
      BY <2>2, <3>1 DEF InstallEffect
  <2>6. ASSUME Proceed(h), k = Len(commands)
        PROVE  Better(host[h], host'[h], run[h]) /\ DoneForGood(h, "install_salt_master")'
    <3>1. host'[h].conf["master.conf"] = Content(run[h], "master.conf")
      BY <2>4, <2>5, <2>6 DEF Setting
    <3>2. run' = run
      BY <2>6 DEF Proceed
    <3>3. DoneForGood(h, "install_salt_master")'
      BY <2>5, <2>6, <3>1, <3>2 DEF DoneForGood, Done
    <3>4. QED
      BY <2>5, <2>6, <3>3
  <2>7. QED
    BY <2>1, <2>5, <2>6, ResultFrom
<1>3. QED
  BY <1>1, <1>2

LEMMA InstallSaltMinionResult ==
  ASSUME DeployInv, TypeOK', NEW h \in Host, InstallSaltMinion(h)
  PROVE  StepResult(h, "install_salt_minion")
<1> DEFINE commands == <<"mkdir", "unpack", "install", "minion.conf", "rm">>
<1>1. PICK k \in 0..Len(commands), torn \in BOOLEAN :
         /\ host' = [host EXCEPT ![h] = Installed(h, "minion", commands, k, torn)]
         /\ Outcome(h, k, commands, Installable(h, "minion", Len(commands)))
  BY DEF InstallSaltMinion
<1>2. k \in Nat /\ (k = Len(commands) => k >= 5)
  OBVIOUS
<1>3. "minion" \in Role
  BY DEF Role
<1>4. k = Len(commands) => commands[4] = "minion.conf" /\ 4 \in 1..k
  OBVIOUS
<1> HIDE DEF commands
<1>5. /\ \A g \in Host \ {h} : host'[g] = host[g]
      /\ ReposState(h)' /\ NetworkSet(h)'
      /\ k = Len(commands) =>
            /\ Better(host[h], host'[h], run[h])
            /\ host'[h].installed["minion"] = run[h][2]
            /\ \A x \in Role : host'[h].rpms[<<x, run[h][2]>>] = Nothing
            /\ \A f \in Setting : (\E i \in 1..k : commands[i] = f) =>
                  host'[h].conf[f] = Content(run[h], f)
  <2>1. InstallEffect(h, "minion", commands, k)
    BY <1>1, <1>2, <1>3, InstalledEffect
  <2>2. QED
    BY <1>2, <2>1 DEF InstallEffect
<1>6. ASSUME Proceed(h), k = Len(commands)
      PROVE  Better(host[h], host'[h], run[h]) /\ DoneForGood(h, "install_salt_minion")'
  <2>1. host'[h].conf["minion.conf"] = Content(run[h], "minion.conf")
    BY <1>4, <1>5, <1>6 DEF Setting
  <2>2. run' = run
    BY <1>6 DEF Proceed
  <2>3. DoneForGood(h, "install_salt_minion")'
    BY <1>5, <1>6, <2>1, <2>2 DEF DoneForGood, Done
  <2>4. QED
    BY <1>5, <1>6, <2>3
<1>7. QED
  BY <1>1, <1>5, <1>6, ResultFrom

\* What the commands of a step that starts a service do to h: nothing but a stop
\* of the firewall or of the Salt master takes a service down, and the start that
\* follows brings the Salt master up again.
ActivateEffect(h, service, done) ==
    /\ \A g \in Host \ {h} : host'[g] = host[g]
    /\ ReposState(h)' /\ NetworkSet(h)'
    /\ {"enable", "start"} \subseteq done =>
          /\ Better(host[h], host'[h], run[h])
          /\ service \in host'[h].enabled
          /\ host'[h].running[service] # Nothing
          /\ {"disable_firewall", "stop_firewall"} \subseteq done =>
                /\ "firewall" \notin host'[h].enabled
                /\ host'[h].running["firewall"] = Nothing

WithServices(o, enabled, running) == [o EXCEPT !.enabled = enabled, !.running = running]

LEMMA ActivatedFields ==
  ASSUME NEW o \in HostState, NEW enabled, NEW running
  PROVE  LET n == WithServices(o, enabled, running)
         IN
         /\ n.enabled = enabled /\ n.running = running
         /\ n.conf = o.conf
         /\ n.route = o.route /\ n.name = o.name /\ n.salt = o.salt /\ n.accounts = o.accounts
         /\ n.repos = o.repos /\ n.backup = o.backup
         /\ n.rpms = o.rpms /\ n.installed = o.installed
  BY DEF HostState, WithServices

LEMMA ActivatedEffect ==
  ASSUME DeployInv, TypeOK', NEW h \in Host, NEW commands, NEW k,
         NEW service \in {"salt-master", "salt-minion"}, NEW file \in Setting,
         host' = [host EXCEPT ![h] = Activated(@, service, file, commands, k)]
  PROVE  ActivateEffect(h, service, {commands[i] : i \in 1..k})
<1> DEFINE done == {commands[i] : i \in 1..k}
           stopped == {x \in Service : \/ x = "firewall" /\ "stop_firewall" \in done
                                       \/ x = service /\ "stop" \in done}
           still == [x \in Service |-> IF x \in stopped THEN Nothing ELSE host[h].running[x]]
           running == IF "start" \in done THEN Started(still, host[h].conf[file], service)
                      ELSE still
           enabled == (host[h].enabled \ (IF "disable_firewall" \in done THEN {"firewall"} ELSE {}))
                      \cup (IF "enable" \in done THEN {service} ELSE {})
<1>1. /\ host[h] \in HostState /\ host'[h] \in HostState
      /\ host[h].conf[file] \in Value
      /\ ReposState(h) /\ NetworkSet(h)
  BY DEF DeployInv, TypeOK, HostState
<1>2. /\ host'[h] = WithServices(host[h], enabled, running)
      /\ \A g \in Host \ {h} : host'[g] = host[g]
  <2>1. Activated(host[h], service, file, commands, k)
           = WithServices(host[h], enabled, running)
    BY DEF Activated, WithServices
  <2> HIDE DEF enabled, running
  <2>2. QED
    BY <2>1 DEF DeployInv, TypeOK
<1>3. host[h].conf[file] # Nothing
  BY <1>1, RunAssumption DEF Value
<1>4. /\ service \in Service /\ "firewall" \in Service /\ service # "firewall"
      /\ {"salt-master", "salt-minion"} \subseteq Service
  BY DEF Service
<1>5. "start" \in done => running[service] # Nothing
  <2>1. DOMAIN still = Service
    OBVIOUS
  <2> HIDE DEF still, done
  <2>2. QED
    BY <1>3, <1>4, <2>1 DEF Started
<1>6. \A x \in Service \ {service} : running[x] = still[x]
  <2> HIDE DEF still, done
  <2>1. QED
    BY DEF Started
<1>7. /\ \A x \in {"salt-master", "salt-minion"} \ {service} : still[x] = host[h].running[x]
      /\ host[h].running["firewall"] = Nothing => still["firewall"] = Nothing
      /\ "stop_firewall" \in done => still["firewall"] = Nothing
  <2> HIDE DEF done
  <2>1. QED
    BY <1>4
<1>8. /\ \A x \in {"salt-master", "salt-minion"} : x \in host[h].enabled => x \in enabled
      /\ "firewall" \notin host[h].enabled => "firewall" \notin enabled
      /\ "enable" \in done => service \in enabled
      /\ "disable_firewall" \in done => "firewall" \notin enabled
  <2> HIDE DEF done
  <2>1. QED
    BY <1>4
<1> HIDE DEF running, enabled, still, done
<1>9. /\ host'[h].enabled = enabled /\ host'[h].running = running
      /\ host'[h].conf = host[h].conf
      /\ host'[h].route = host[h].route /\ host'[h].name = host[h].name
      /\ host'[h].salt = host[h].salt /\ host'[h].accounts = host[h].accounts
      /\ host'[h].repos = host[h].repos /\ host'[h].backup = host[h].backup
      /\ host'[h].rpms = host[h].rpms /\ host'[h].installed = host[h].installed
  BY <1>1, <1>2, ActivatedFields
<1>10. ReposState(h)' /\ NetworkSet(h)'
  BY <1>1, <1>9 DEF ReposState, NetworkSet, HostState
<1>11. ASSUME {"enable", "start"} \subseteq done
       PROVE  Better(host[h], host'[h], run[h])
  <2>1. /\ \A x \in {"salt-master", "salt-minion"} :
              /\ x \in host[h].enabled => x \in host'[h].enabled
              /\ host[h].running[x] # Nothing => host'[h].running[x] # Nothing
        /\ "firewall" \notin host[h].enabled => "firewall" \notin host'[h].enabled
        /\ host[h].running["firewall"] = Nothing => host'[h].running["firewall"] = Nothing
    BY <1>4, <1>5, <1>6, <1>7, <1>8, <1>9, <1>11
  <2>2. QED
    BY <1>9, <2>1 DEF Better
<1>12. QED
  BY <1>2, <1>4, <1>5, <1>6, <1>7, <1>8, <1>9, <1>10, <1>11 DEF ActivateEffect, done

Elements(s) == {s[i] : i \in 1..Len(s)}

LEMMA ConcatElements ==
  ASSUME NEW S, NEW s \in Seq(S), NEW t \in Seq(S)
  PROVE  /\ s \o t \in Seq(S)
         /\ Elements(s) \cup Elements(t) \subseteq Elements(s \o t)
<1>1. /\ s \o t \in Seq(S) /\ Len(s \o t) = Len(s) + Len(t)
      /\ \A i \in 1..Len(s) + Len(t) :
            (s \o t)[i] = IF i <= Len(s) THEN s[i] ELSE t[i - Len(s)]
  BY ConcatProperties
<1>2. Len(s) \in Nat /\ Len(t) \in Nat
  OBVIOUS
<1>3. ASSUME NEW i \in 1..Len(s)
      PROVE  i \in 1..Len(s) + Len(t) /\ (s \o t)[i] = s[i]
  BY <1>1, <1>2
<1>4. ASSUME NEW i \in 1..Len(t)
      PROVE  i + Len(s) \in 1..Len(s) + Len(t) /\ (s \o t)[i + Len(s)] = t[i]
  <2>1. i + Len(s) \in 1..Len(s) + Len(t) /\ ~(i + Len(s) <= Len(s)) /\ i + Len(s) - Len(s) = i
    BY <1>2
  <2>2. QED
    BY <1>1, <2>1
<1>5. QED
  BY <1>1, <1>3, <1>4 DEF Elements

Command == {"disable_firewall", "stop_firewall", "stop", "enable", "start", "ping"}

LEMMA CommandElements ==
  /\ FirewallCommands \in Seq(Command) /\ StartCommands \in Seq(Command)
  /\ {"disable_firewall", "stop_firewall"} \subseteq Elements(FirewallCommands)
  /\ {"enable", "start"} \subseteq Elements(StartCommands)
<1>1. /\ FirewallCommands \in Seq(Command)
      /\ 1 \in 1..Len(FirewallCommands) /\ 2 \in 1..Len(FirewallCommands)
      /\ FirewallCommands[1] = "disable_firewall" /\ FirewallCommands[2] = "stop_firewall"
  BY DEF FirewallCommands, Command
<1>2. /\ StartCommands \in Seq(Command)
      /\ 1 \in 1..Len(StartCommands) /\ 2 \in 1..Len(StartCommands)
      /\ StartCommands[1] = "enable" /\ StartCommands[2] = "start"
  BY DEF StartCommands, Command
<1>3. QED
  BY <1>1, <1>2 DEF Elements

\* activate_salt_master enables and starts the service, on rhel5 after a stop.
LEMMA StartsAfterStop ==
  ASSUME NEW h
  PROVE  /\ {"disable_firewall", "stop_firewall", "enable", "start"}
               \subseteq Elements(StopCommands(h) \o StartCommands)
         /\ {"disable_firewall", "stop_firewall", "enable", "start"}
               \subseteq Elements(FirewallCommands \o StartCommands)
<1>1. PICK stop \in Seq(Command) : StopCommands(h) = FirewallCommands \o stop
  <2>1. <<"stop">> \in Seq(Command) /\ <<>> \in Seq(Command)
    BY DEF Command
  <2>2. QED
    BY <2>1 DEF StopCommands
<1>2. /\ StopCommands(h) \in Seq(Command)
      /\ Elements(FirewallCommands) \subseteq Elements(StopCommands(h))
  BY <1>1, CommandElements, ConcatElements
<1>3. /\ Elements(StopCommands(h)) \cup Elements(StartCommands)
            \subseteq Elements(StopCommands(h) \o StartCommands)
      /\ Elements(FirewallCommands) \cup Elements(StartCommands)
            \subseteq Elements(FirewallCommands \o StartCommands)
  BY <1>2, CommandElements, ConcatElements
<1>4. QED
  BY <1>2, <1>3, CommandElements

\* Once they are all done, the step has what it is for.
LEMMA MasterActivated ==
  ASSUME DeployInv, TypeOK', NEW h \in Host, run' = run, NEW commands, NEW k,
         host' = [host EXCEPT ![h] = Activated(@, "salt-master", "master.conf", commands, k)],
         k = Len(commands) => {"disable_firewall", "stop_firewall", "enable", "start"}
                                 \subseteq {commands[i] : i \in 1..k}
  PROVE  /\ \A g \in Host \ {h} : host'[g] = host[g]
         /\ ReposState(h)' /\ NetworkSet(h)'
         /\ k = Len(commands) =>
               /\ Better(host[h], host'[h], run[h])
               /\ DoneForGood(h, "activate_salt_master")'
<1>1. "master.conf" \in Setting
  BY DEF Setting
<1>2. ActivateEffect(h, "salt-master", {commands[i] : i \in 1..k})
  BY <1>1, ActivatedEffect
<1>3. /\ \A g \in Host \ {h} : host'[g] = host[g]
      /\ ReposState(h)' /\ NetworkSet(h)'
      /\ k = Len(commands) =>
            /\ Better(host[h], host'[h], run[h])
            /\ "salt-master" \in host'[h].enabled
            /\ host'[h].running["salt-master"] # Nothing
            /\ "firewall" \notin host'[h].enabled
            /\ host'[h].running["firewall"] = Nothing
  BY <1>2 DEF ActivateEffect
<1>4. QED
  BY <1>3 DEF DoneForGood, Done

LEMMA ActivateSaltMasterResult ==
  ASSUME DeployInv, TypeOK', NEW h \in Host, ActivateSaltMaster(h)
  PROVE  StepResult(h, "activate_salt_master")
<1>1. CASE h # Master /\ Proceed(h) /\ UNCHANGED host
  <2>1. ReposState(h)' /\ NetworkSet(h)' /\ run' = run
    BY <1>1 DEF DeployInv, ReposState, NetworkSet, Proceed
  <2>2. Better(host[h], host'[h], run[h]) /\ DoneForGood(h, "activate_salt_master")'
    BY <1>1 DEF Better, DoneForGood, Done
  <2>3. QED
    BY <1>1, <2>1, <2>2 DEF StepResult, Proceed
<1>2. CASE RestartMaster(h)
  <2> DEFINE commands == StopCommands(h) \o StartCommands
  <2>1. PICK k \in 0..Len(commands) :
           /\ host' = [host EXCEPT ![h] =
                          Activated(@, "salt-master", "master.conf", commands, k)]
           /\ Outcome(h, k, commands, Pingable(h, commands))
    BY <1>2 DEF RestartMaster
  <2>2. k = Len(commands) => {"disable_firewall", "stop_firewall", "enable", "start"}
                                \subseteq {commands[i] : i \in 1..k}
    BY StartsAfterStop DEF Elements
  <2> HIDE DEF commands
  <2>3. run' = run
    BY <2>1, OutcomeCases
  <2>4. QED
    BY <2>1, <2>2, <2>3, MasterActivated, ResultFrom
<1>3. CASE KeepMaster(h)
  <2> DEFINE commands == FirewallCommands \o StartCommands
  <2>1. /\ host' = [host EXCEPT ![h] =
                       Activated(@, "salt-master", "master.conf", commands, Len(commands))]
        /\ Advance(h) /\ run' = run
    BY <1>3 DEF KeepMaster
  <2>2. {"disable_firewall", "stop_firewall", "enable", "start"}
           \subseteq {commands[i] : i \in 1..Len(commands)}
    BY StartsAfterStop DEF Elements
  <2> HIDE DEF commands
  <2>3. QED
    BY <2>1, <2>2, MasterActivated DEF StepResult
<1>4. QED
  BY <1>1, <1>2, <1>3 DEF ActivateSaltMaster

LEMMA ActivateSaltMinionResult ==
  ASSUME DeployInv, TypeOK', NEW h \in Host, ActivateSaltMinion(h)
  PROVE  StepResult(h, "activate_salt_minion")
<1> DEFINE commands == StartCommands
<1>1. PICK k \in 0..Len(commands) :
         /\ host' = [host EXCEPT ![h] =
                        Activated(@, "salt-minion", "minion.conf", commands, k)]
         /\ Outcome(h, k, commands, Pingable(h, commands))
  BY DEF ActivateSaltMinion
<1>2. k = Len(commands) => {"enable", "start"} \subseteq {commands[i] : i \in 1..k}
  <2>1. Len(commands) = 3 /\ commands[1] = "enable" /\ commands[2] = "start"
    BY DEF StartCommands
  <2> HIDE DEF commands
  <2>2. QED
    BY <2>1
<1>3. "minion.conf" \in Setting
  BY DEF Setting
<1> HIDE DEF commands
<1>4. /\ \A g \in Host \ {h} : host'[g] = host[g]
      /\ ReposState(h)' /\ NetworkSet(h)'
      /\ k = Len(commands) =>
            /\ Better(host[h], host'[h], run[h])
            /\ "salt-minion" \in host'[h].enabled
            /\ host'[h].running["salt-minion"] # Nothing
  <2>1. ActivateEffect(h, "salt-minion", {commands[i] : i \in 1..k})
    BY <1>1, <1>3, ActivatedEffect
  <2>2. QED
    BY <1>2, <2>1 DEF ActivateEffect
<1>5. Proceed(h) /\ k = Len(commands) =>
         Better(host[h], host'[h], run[h]) /\ DoneForGood(h, "activate_salt_minion")'
  BY <1>4 DEF DoneForGood, Done
<1>6. QED
  BY <1>1, <1>4, <1>5, ResultFrom

\* A run that skips or takes a step achieves what the step is for.
LEMMA TakeStepKeeps ==
  ASSUME DeployInv, TypeOK', NEW h \in Host, TakeStep(h)
  PROVE  DeployInv'
<1>1. ASSUME NEW s, At(h, s), StepResult(h, s)
      PROVE  DeployInv'
  BY <1>1, StepResultSuffices DEF At
<1>2. CASE SkipStep(h)
  <2>1. PICK s : s = StepOrder[step[h]]
    OBVIOUS
  <2>2. step[h] # 0 /\ ~Applies(h, s) /\ UNCHANGED host /\ Proceed(h)
    BY <1>2, <2>1 DEF SkipStep, At, Applies
  <2>3. ReposState(h)' /\ NetworkSet(h)' /\ run' = run
    BY <2>2 DEF DeployInv, ReposState, NetworkSet, Proceed
  <2>4. Better(host[h], host'[h], run[h])
    BY <2>2 DEF Better
  <2>5. StepResult(h, s)
    BY <2>2, <2>3, <2>4 DEF StepResult, Proceed
  <2>6. QED
    BY <2>1, <2>2, <2>5, StepResultSuffices
<1>3. CASE UnlockNode(h)
  <2>1. UNCHANGED host /\ Proceed(h) /\ run' = run /\ At(h, "unlock_node")
    BY <1>3 DEF UnlockNode, Proceed
  <2>2. QED
    BY <1>1, <2>1, NothingChanged
<1>4. CASE InitIpRoute(h)
  BY <1>1, <1>4, InitIpRouteResult DEF InitIpRoute
<1>5. CASE InitDnsServer(h)
  BY <1>1, <1>5, InitDnsServerResult DEF InitDnsServer
<1>6. CASE MakeSaltResolvable(h)
  BY <1>1, <1>6, MakeSaltResolvableResult DEF MakeSaltResolvable
<1>7. CASE SetHostname(h)
  BY <1>1, <1>7, SetHostnameResult DEF SetHostname
<1>8. CASE CreatePrimaryUser(h)
  BY <1>1, <1>8, CreatePrimaryUserResult DEF CreatePrimaryUser
<1>9. CASE InitYumRepos(h)
  BY <1>1, <1>9, InitYumReposResult DEF InitYumRepos
<1>10. CASE InstallSaltMaster(h)
  BY <1>1, <1>10, InstallSaltMasterResult DEF InstallSaltMaster
<1>11. CASE InstallSaltMinion(h)
  BY <1>1, <1>11, InstallSaltMinionResult DEF InstallSaltMinion
<1>12. CASE LinkSources(h)
  BY <1>1, <1>12, LinkSourcesResult DEF LinkSources
<1>13. CASE LinkResources(h)
  BY <1>1, <1>13, LinkResourcesResult DEF LinkResources
<1>14. CASE ActivateSaltMaster(h)
  BY <1>1, <1>14, ActivateSaltMasterResult DEF ActivateSaltMaster
<1>15. CASE ActivateSaltMinion(h)
  BY <1>1, <1>15, ActivateSaltMinionResult DEF ActivateSaltMinion
<1>16. CASE RunInitStates(h)
  <2> DEFINE commands == <<"sync_all", "source_symlinks", "resource_symlinks">>
  <2>1. PICK k \in 0..Len(commands) :
           Outcome(h, k, commands, IF run[h][1] = "initial-online-node" /\ ~Served(h)
                                   THEN 0 ELSE Len(commands))
    BY <1>16 DEF RunInitStates
  <2>2. run' = run /\ (Ended(h) \/ Proceed(h))
    BY <2>1, OutcomeCases
  <2>3. UNCHANGED host /\ At(h, "run_init_states")
    BY <1>16 DEF RunInitStates
  <2>4. QED
    BY <1>1, <2>2, <2>3, NothingChanged
<1>17. CASE RunHighstate(h)
  <2>1. run' = run /\ (Ended(h) \/ Proceed(h))
    BY <1>17, OutcomeCases DEF RunHighstate
  <2>2. UNCHANGED host /\ At(h, "run_highstate")
    BY <1>17 DEF RunHighstate
  <2>3. QED
    BY <1>1, <2>1, <2>2, NothingChanged
<1>18. QED
  BY <1>2, <1>3, <1>4, <1>5, <1>6, <1>7, <1>8, <1>9, <1>10, <1>11, <1>12, <1>13, <1>14,
     <1>15, <1>16, <1>17 DEF TakeStep

\* What a reboot does to h.
Rebooted(o, route, name, running) ==
    [o EXCEPT !.route = route, !.name = name, !.running = running]

LEMMA RebootedFields ==
  ASSUME NEW o \in HostState, NEW route, NEW name, NEW running
  PROVE  LET n == Rebooted(o, route, name, running)
         IN
         /\ n.route = route /\ n.name = name /\ n.running = running
         /\ n.conf = o.conf /\ n.salt = o.salt /\ n.accounts = o.accounts
         /\ n.repos = o.repos /\ n.backup = o.backup
         /\ n.rpms = o.rpms /\ n.installed = o.installed /\ n.enabled = o.enabled
  BY DEF HostState, Rebooted

\* The settings in use come back from the files, the services that are up are enabled.
LEMMA RebootKeeps ==
  ASSUME DeployInv, TypeOK', NEW h \in Host, Reboot(h)
  PROVE  DeployInv'
<1> DEFINE o == host[h]
           n == host'[h]
           route == IF o.conf["gateway"] = Missing THEN Nothing ELSE o.conf["gateway"]
           name == IF o.conf["hostname"] = Missing THEN Original ELSE o.conf["hostname"]
           running == [x \in Service |->
               IF x \notin o.enabled THEN Nothing
               ELSE CASE x = "salt-master" -> o.conf["master.conf"]
                      [] x = "salt-minion" -> o.conf["minion.conf"]
                      [] x = "firewall" -> Original]
<1>1. /\ o \in HostState /\ o.conf \in [Setting -> Value]
      /\ ReposState(h) /\ NetworkSet(h) /\ Progress(h)
      /\ run' = run /\ completed' = completed /\ step' = [step EXCEPT ![h] = 0]
  BY DEF DeployInv, TypeOK, HostState, Reboot
<1>2. /\ n = Rebooted(o, route, name, running)
      /\ \A g \in Host \ {h} : host'[g] = host[g]
  <2>1. host' = [host EXCEPT ![h] = Rebooted(o, route, name, running)]
    BY DEF Reboot, Rebooted
  <2> HIDE DEF route, name, running
  <2>2. QED
    BY <2>1 DEF DeployInv, TypeOK
<1>3. route = o.conf["gateway"] /\ name = o.conf["hostname"]
  BY <1>1 DEF NetworkSet
<1>4. /\ \A x \in {"salt-master", "salt-minion"} : x \in o.enabled => running[x] # Nothing
      /\ "firewall" \notin o.enabled => running["firewall"] = Nothing
  <2>1. o.conf["master.conf"] # Nothing /\ o.conf["minion.conf"] # Nothing
    <3>1. o.conf["master.conf"] \in Value /\ o.conf["minion.conf"] \in Value
      BY <1>1 DEF Setting
    <3>2. Nothing \notin Value
      BY RunAssumption DEF Value
    <3>3. QED
      BY <3>1, <3>2
  <2>2. QED
    BY <2>1 DEF Service
<1> HIDE DEF route, name, running
<1>5. /\ n.route = route /\ n.name = name /\ n.running = running
      /\ n.conf = o.conf /\ n.salt = o.salt /\ n.accounts = o.accounts
      /\ n.repos = o.repos /\ n.backup = o.backup
      /\ n.rpms = o.rpms /\ n.installed = o.installed /\ n.enabled = o.enabled
  BY <1>1, <1>2, RebootedFields
<1>6. ReposState(h)' /\ NetworkSet(h)'
  BY <1>1, <1>5 DEF ReposState, NetworkSet
<1>7. ASSUME NEW s, DoneForGood(h, s)
      PROVE  DoneForGood(h, s)'
  <2>1. CASE s \in {"init_ip_route", "set_hostname"}
    BY <1>1, <1>3, <1>5, <1>7, <2>1 DEF DoneForGood, Done
  <2>2. CASE s \in {"activate_salt_master", "activate_salt_minion"}
    BY <1>1, <1>4, <1>5, <1>7, <2>2 DEF DoneForGood, Done
  <2>3. CASE s \notin {"init_ip_route", "set_hostname", "activate_salt_master",
                       "activate_salt_minion"}
    BY <1>1, <1>5, <1>7, <2>3 DEF DoneForGood, Done
  <2>4. QED
    BY <2>1, <2>2, <2>3
<1>8. step'[h] = 0 /\ completed'[h] = completed[h]
  BY <1>1 DEF DeployInv, TypeOK
<1>9. Progress(h)'
  BY <1>1, <1>7, <1>8, StepCount DEF Progress, Applies
<1>10. ASSUME NEW g \in Host, g # h
       PROVE  (step[g] # 0 => ~completed[g])' /\ ReposState(g)' /\ NetworkSet(g)' /\ Progress(g)'
  <2>1. host'[g] = host[g] /\ run' = run /\ step'[g] = step[g] /\ completed' = completed
    BY <1>1, <1>2, <1>10 DEF DeployInv, TypeOK
  <2>2. QED
    BY <2>1 DEF DeployInv, ReposState, NetworkSet, Progress, Applies, DoneForGood, Done
<1>11. QED
  BY <1>6, <1>8, <1>9, <1>10 DEF DeployInv

LEMMA StartKeeps ==
  ASSUME DeployInv, TypeOK', NEW h \in Host, NEW r \in Run, Start(h, r)
  PROVE  DeployInv'
<1>1. /\ step'[h] = 1 /\ ~completed'[h] /\ UNCHANGED host
      /\ \A g \in Host \ {h} :
            step'[g] = step[g] /\ completed'[g] = completed[g] /\ run'[g] = run[g]
  BY DEF Start, DeployInv, TypeOK
<1>2. Progress(h)'
  BY <1>1, StepCount DEF Progress
<1>3. ReposState(h)' /\ NetworkSet(h)' /\ (step[h] # 0 => ~completed[h])'
  BY <1>1 DEF DeployInv, ReposState, NetworkSet
<1>4. ASSUME NEW g \in Host, g # h
      PROVE  (step[g] # 0 => ~completed[g])' /\ ReposState(g)' /\ NetworkSet(g)' /\ Progress(g)'
  <2>1. host' = host /\ run'[g] = run[g] /\ step'[g] = step[g] /\ completed'[g] = completed[g]
    BY <1>1, <1>4
  <2>2. QED
    BY <2>1 DEF DeployInv, ReposState, NetworkSet, Progress, Applies, DoneForGood, Done
<1>5. QED
  BY <1>2, <1>3, <1>4 DEF DeployInv

LEMMA UnchangedKeeps ==
  ASSUME DeployInv, TypeOK', UNCHANGED <<host, run, step, completed>>
  PROVE  DeployInv'
  BY DEF DeployInv, ReposState, NetworkSet, Progress, Applies, DoneForGood, Done

LEMMA InitDeploy ==
  ASSUME Init, NetworkFiles \subseteq {{"gateway", "hostname"}}
  PROVE  DeployInv
<1>1. PICK salt \in SaltEntries, set \in NetworkFiles :
         host = [h \in Host |->
            [conf |-> [s \in Setting |->
                         IF s \in {"gateway", "hostname"} \ set THEN Missing ELSE Original],
             route |-> Original,
             name |-> Original,
             salt |-> salt,
             accounts |-> {},
             repos |-> Original,
             backup |-> Nothing,
             rpms |-> [x \in Role \X Package |-> Nothing],
             installed |-> [x \in Role |-> Nothing],
             enabled |-> {"firewall"},
             running |-> [x \in Service |-> IF x = "firewall" THEN Original ELSE Nothing]]]
  BY DEF Init
<1>2. set = {"gateway", "hostname"}
  OBVIOUS
<1>3. TypeOK
  BY InitTyped
<1>4. ASSUME NEW h \in Host
      PROVE  (step[h] # 0 => ~completed[h]) /\ ReposState(h) /\ NetworkSet(h) /\ Progress(h)
  <2>1. step[h] = 0 /\ ~completed[h]
    BY DEF Init
  <2>2. host[h].repos = Original /\ host[h].backup = Nothing
    BY <1>1
  <2>3. host[h].conf["gateway"] = Original /\ host[h].conf["hostname"] = Original
    BY <1>1, <1>2 DEF Setting
  <2>4. Progress(h)
    BY <2>1, StepCount DEF Progress
  <2>5. QED
    BY <2>1, <2>2, <2>3, <2>4, RunAssumption DEF ReposState, NetworkSet
<1>5. QED
  BY <1>3, <1>4 DEF DeployInv

\* When /etc/sysconfig/network sets both variables at first, a host whose last run
\* completed has what its steps are to leave, and keeps it through reboots: whatever
\* the hosts, packages, use cases and the number of failures, kills and reruns.
THEOREM DeploymentIsCorrect ==
  ASSUME NetworkFiles \subseteq {{"gateway", "hostname"}}
  PROVE  Spec => []DeploymentHolds
<1>1. Init => DeployInv
  BY InitDeploy
<1>2. DeployInv /\ TypeOK' /\ [Next]_vars => DeployInv'
  <2> SUFFICES ASSUME DeployInv, TypeOK', [Next]_vars PROVE DeployInv'
    OBVIOUS
  <2>1. ASSUME NEW h \in Host, TakeStep(h) PROVE DeployInv'
    BY <2>1, TakeStepKeeps
  <2>2. ASSUME NEW h \in Host, Reboot(h) PROVE DeployInv'
    BY <2>2, RebootKeeps
  <2>3. ASSUME NEW h \in Host, Reconnect(h) PROVE DeployInv'
    BY <2>3, UnchangedKeeps DEF Reconnect, process
  <2>4. ASSUME NEW h \in Host, NEW r \in Run, Start(h, r) PROVE DeployInv'
    BY <2>4, StartKeeps
  <2>5. CASE UNCHANGED vars
    BY <2>5, UnchangedKeeps DEF vars
  <2>6. QED
    BY <2>1, <2>2, <2>3, <2>4, <2>5 DEF Next
<1>3. DeployInv => DeploymentHolds
  <2> SUFFICES ASSUME DeployInv, NEW h \in Host, completed[h],
                      NEW s \in Enabled, run[h][1] \in UseCases(s)
               PROVE  Done(h, s)
    BY DEF DeploymentHolds
  <2>1. CASE \E i \in 1..Len(StepOrder) : StepOrder[i] = s
    BY <2>1 DEF DeployInv, Progress, Applies, DoneForGood
  <2>2. CASE ~\E i \in 1..Len(StepOrder) : StepOrder[i] = s
    <3>1. s \notin {"init_ip_route", "init_dns_server", "make_salt_resolvable",
                    "set_hostname", "create_primary_user", "init_yum_repos",
                    "install_salt_master", "install_salt_minion", "link_sources",
                    "link_resources", "activate_salt_master", "activate_salt_minion"}
      BY <2>2 DEF StepOrder
    <3>2. QED
      BY <3>1 DEF Done
  <2>3. QED
    BY <2>1, <2>2
<1>4. QED
  BY <1>1, <1>2, <1>3, TypeCorrect, PTL DEF Spec

--------------------------------------------------------------------------------
(* Repositories *)

ReposInv == TypeOK /\ \A h \in Host : ReposState(h)

SameRepos(h) ==
    /\ \A g \in Host \ {h} : host'[g] = host[g]
    /\ host'[h].repos = host[h].repos /\ host'[h].backup = host[h].backup

\* All but init_yum_repos leave the repositories alone.
LEMMA ReposAlone ==
  ASSUME TypeOK, NEW h \in Host, TakeStep(h) \/ Reboot(h), ~InitYumRepos(h)
  PROVE  SameRepos(h)
<1>1. host[h] \in HostState /\ host \in [Host -> HostState]
  BY DEF TypeOK
<1>2. CASE UNCHANGED host
  BY <1>2 DEF SameRepos
<1>3. CASE InitIpRoute(h)
  <2> DEFINE commands == <<"gateway", "list", "delete", "add", "ping">>
  <2>1. PICK k \in 0..Len(commands) :
           host' = [host EXCEPT
                  ![h].conf = IF k >= 1 THEN SetNetConfigVar(@, run[h], "gateway") ELSE @,
                  ![h].route = IF k >= 4 THEN run[h][2] ELSE IF k = 3 THEN Nothing ELSE @]
    BY <1>3 DEF InitIpRoute
  <2>2. QED
    BY <1>1, <2>1 DEF SameRepos, HostState
<1>4. CASE InitDnsServer(h)
  BY <1>1, <1>4 DEF InitDnsServer, SameRepos, HostState
<1>5. CASE MakeSaltResolvable(h)
  BY <1>1, <1>5 DEF MakeSaltResolvable, SameRepos, HostState
<1>6. CASE SetHostname(h)
  <2> DEFINE commands == <<"hostname", "set">>
  <2>1. PICK k \in 0..Len(commands), torn \in BOOLEAN :
           host' = [host EXCEPT
                  ![h].conf = IF h \notin Rhel5 THEN Written(@, run[h], commands, k, torn)
                              ELSE IF k >= 1 THEN SetNetConfigVar(@, run[h], "hostname")
                              ELSE @,
                  ![h].name = IF k = 2 THEN run[h][2] ELSE @]
    BY <1>6 DEF SetHostname
  <2>2. QED
    BY <1>1, <2>1 DEF SameRepos, HostState
<1>7. CASE CreatePrimaryUser(h)
  <2>1. PICK accounts : host' = [host EXCEPT ![h].accounts = accounts]
    BY <1>7 DEF CreatePrimaryUser
  <2>2. QED
    BY <1>1, <2>1 DEF SameRepos, HostState
<1>8. CASE InstallSaltMaster(h) \/ InstallSaltMinion(h)
  <2>1. ASSUME NEW role, NEW commands, NEW k, NEW torn,
               host' = [host EXCEPT ![h] = Installed(h, role, commands, k, torn)]
        PROVE  SameRepos(h)
    <3>1. PICK rpms, installed, conf :
             Installed(h, role, commands, k, torn) = WithRpms(host[h], rpms, installed, conf)
      BY DEF Installed, WithRpms
    <3>2. host'[h] = WithRpms(host[h], rpms, installed, conf)
      BY <1>1, <2>1, <3>1
    <3>3. QED
      BY <1>1, <2>1, <3>2, InstalledFields DEF SameRepos
  <2>2. QED
    BY <1>2, <1>8, <2>1 DEF InstallSaltMaster, InstallSaltMinion
<1>9. CASE LinkSources(h)
  BY <1>1, <1>9 DEF LinkSources, SameRepos, HostState
<1>10. CASE LinkResources(h)
  BY <1>1, <1>10 DEF LinkResources, SameRepos, HostState
<1>11. CASE ActivateSaltMaster(h) \/ ActivateSaltMinion(h)
  <2>1. ASSUME NEW service, NEW file, NEW commands, NEW k,
               host' = [host EXCEPT ![h] = Activated(@, service, file, commands, k)]
        PROVE  SameRepos(h)
    <3>1. PICK enabled, running :
             Activated(host[h], service, file, commands, k) = WithServices(host[h], enabled, running)
      BY DEF Activated, WithServices
    <3>2. host'[h] = WithServices(host[h], enabled, running)
      BY <1>1, <2>1, <3>1
    <3>3. QED
      BY <1>1, <2>1, <3>2, ActivatedFields DEF SameRepos
  <2>2. QED
    BY <1>2, <1>11, <2>1 DEF ActivateSaltMaster, RestartMaster, KeepMaster, ActivateSaltMinion
<1>12. CASE Reboot(h)
  <2> DEFINE route == LET v == host[h].conf["gateway"]
                      IN  IF v = Missing THEN Nothing ELSE v
             name == LET v == host[h].conf["hostname"]
                     IN  IF v = Missing THEN Original ELSE v
             running == [x \in Service |->
                 IF x \notin host[h].enabled THEN Nothing
                 ELSE CASE x = "salt-master" -> host[h].conf["master.conf"]
                        [] x = "salt-minion" -> host[h].conf["minion.conf"]
                        [] x = "firewall" -> Original]
  <2>1. host' = [host EXCEPT ![h] = Rebooted(host[h], route, name, running)]
    BY <1>12 DEF Reboot, Rebooted
  <2> HIDE DEF route, name, running
  <2>2. host'[h] = Rebooted(host[h], route, name, running)
    BY <1>1, <2>1
  <2>3. QED
    BY <1>1, <2>1, <2>2, RebootedFields DEF SameRepos
<1>13. QED
  BY <1>2, <1>3, <1>4, <1>5, <1>6, <1>7, <1>8, <1>9, <1>10, <1>11, <1>12
     DEF TakeStep, SkipStep, UnlockNode, RunInitStates, RunHighstate

LEMMA InitYumReposKeeps ==
  ASSUME ReposInv, NEW h \in Host, InitYumRepos(h)
  PROVE  /\ \A g \in Host \ {h} : host'[g] = host[g]
         /\ ReposState(h)'
<1> DEFINE commands == <<"yum.conf", "backup", "mkdir", "repo_list", "rpm_keys", "query">>
           Repos(k) == IF k >= 2 /\ host[h].backup = Nothing THEN Nothing ELSE host[h].repos
<1>1. host[h] \in HostState /\ ReposState(h) /\ host \in [Host -> HostState]
  BY DEF ReposInv, TypeOK
<1>2. PICK k \in 0..Len(commands), torn \in BOOLEAN :
         host' = [host EXCEPT
                ![h].conf = Written(@, run[h], commands, k, torn),
                ![h].backup = IF k >= 2 /\ @ = Nothing THEN host[h].repos ELSE @,
                ![h].repos = IF k >= 3 /\ Repos(k) = Nothing THEN "deployed" ELSE Repos(k)]
  BY DEF InitYumRepos
<1>3. /\ host'[h].backup = IF k >= 2 /\ host[h].backup = Nothing
                           THEN host[h].repos ELSE host[h].backup
      /\ host'[h].repos = IF k >= 3 /\ Repos(k) = Nothing THEN "deployed" ELSE Repos(k)
      /\ \A g \in Host \ {h} : host'[g] = host[g]
  BY <1>1, <1>2 DEF HostState
<1>4. QED
  BY <1>1, <1>3, RunAssumption DEF ReposState

\* The operating system's repositories are never lost.
THEOREM OriginalReposAreKept == Spec => []OriginalReposKept
<1>1. Init => ReposInv
  <2> SUFFICES ASSUME Init, NEW h \in Host PROVE ReposState(h)
    BY InitTyped DEF ReposInv
  <2>1. host[h].repos = Original /\ host[h].backup = Nothing
    BY DEF Init
  <2>2. QED
    BY <2>1 DEF ReposState
<1>2. ReposInv /\ TypeOK' /\ [Next]_vars => ReposInv'
  <2> SUFFICES ASSUME ReposInv, TypeOK', [Next]_vars PROVE ReposInv'
    OBVIOUS
  <2>1. ASSUME NEW h \in Host, TakeStep(h) \/ Reboot(h), ~InitYumRepos(h) PROVE ReposInv'
    <3>1. SameRepos(h)
      BY <2>1, ReposAlone DEF ReposInv
    <3>2. ReposState(h)' /\ \A g \in Host \ {h} : ReposState(g)'
      BY <3>1 DEF SameRepos, ReposInv, ReposState
    <3>3. QED
      BY <3>2 DEF ReposInv
  <2>2. ASSUME NEW h \in Host, InitYumRepos(h) PROVE ReposInv'
    BY <2>2, InitYumReposKeeps DEF ReposInv, ReposState
  <2>3. CASE UNCHANGED host
    BY <2>3 DEF ReposInv, ReposState
  <2>4. QED
    BY <2>1, <2>2, <2>3 DEF Next, Start, Reconnect, vars
<1>3. ReposInv => OriginalReposKept
  BY DEF ReposInv, ReposState, OriginalReposKept
<1>4. QED
  BY <1>1, <1>2, <1>3, TypeCorrect, PTL DEF Spec

--------------------------------------------------------------------------------
(* The configuration of the Salt master *)

\* The last run on the master goes, or went, past the i-th step of an online run.
PastStep(i) ==
    /\ run[Master][1] = "initial-online-node"
    /\ completed[Master] \/ i < step[Master]

InstalledConfiguration == host[Master].conf["master.conf"] = run[Master][2]

\* In use now, but for a Salt master that could not be stopped, and after a reboot.
UsedConfiguration ==
    /\ "salt-master" \in host[Master].enabled
    /\ unstopped[Master] \/ host[Master].running["salt-master"] = run[Master][2]

ConfigurationInv ==
    /\ TypeOK
    /\ step[Master] # 0 => ~completed[Master]
    /\ PastStep(8) => InstalledConfiguration
    /\ PastStep(12) => UsedConfiguration

\* What most steps leave to the Salt master's own.
SameService(h) ==
    /\ \A g \in Host \ {h} : host'[g] = host[g]
    /\ host'[h].conf["master.conf"] = host[h].conf["master.conf"]
    /\ "salt-master" \in host[h].enabled => "salt-master" \in host'[h].enabled
    /\ host'[h].running["salt-master"] = host[h].running["salt-master"]

\* The run on h goes on or ends early.
Advances(h) == run' = run /\ unstopped' = unstopped /\ (Ended(h) \/ Advance(h))

LEMMA OtherFiles ==
  ASSUME TypeOK, NEW h \in Host, NEW k, NEW torn, NEW commands,
         \A i \in 1..Len(commands) : commands[i] # "master.conf",
         k \in 0..Len(commands), Len(commands) \in Nat
  PROVE  Written(host[h].conf, run[h], commands, k, torn)["master.conf"]
            = host[h].conf["master.conf"]
<1>1. "master.conf" \in Setting
  BY DEF Setting
<1>2. \A i \in 1..k : commands[i] # "master.conf"
  OBVIOUS
<1>3. k < Len(commands) => commands[k + 1] # "master.conf"
  OBVIOUS
<1>4. QED
  BY <1>1, <1>2, <1>3 DEF Written

\* A step that writes other files only.
LEMMA FilesAlone ==
  ASSUME TypeOK, NEW h \in Host, NEW conf,
         host' = [host EXCEPT ![h].conf = conf],
         conf["master.conf"] = host[h].conf["master.conf"]
  PROVE  SameService(h)
  BY DEF TypeOK, SameService, HostState

\* Steps that start another service leave the Salt master as it runs.
LEMMA OtherServiceAlone ==
  ASSUME TypeOK, NEW h \in Host, NEW file, NEW commands, NEW k,
         host' = [host EXCEPT ![h] = Activated(@, "salt-minion", file, commands, k)]
  PROVE  SameService(h)
<1> DEFINE done == {commands[i] : i \in 1..k}
           stopped == {x \in Service : \/ x = "firewall" /\ "stop_firewall" \in done
                                       \/ x = "salt-minion" /\ "stop" \in done}
           still == [x \in Service |-> IF x \in stopped THEN Nothing ELSE host[h].running[x]]
           running == IF "start" \in done THEN Started(still, host[h].conf[file], "salt-minion")
                      ELSE still
           enabled == (host[h].enabled \ (IF "disable_firewall" \in done THEN {"firewall"} ELSE {}))
                      \cup (IF "enable" \in done THEN {"salt-minion"} ELSE {})
<1>1. host[h] \in HostState /\ host \in [Host -> HostState]
  BY DEF TypeOK
<1>2. Activated(host[h], "salt-minion", file, commands, k)
         = WithServices(host[h], enabled, running)
  BY DEF Activated, WithServices
<1>3. still["salt-master"] = host[h].running["salt-master"]
  BY DEF Service
<1>4. running["salt-master"] = host[h].running["salt-master"]
  <2> HIDE DEF still, done
  <2>1. QED
    BY <1>3 DEF Started
<1>5. "salt-master" \in host[h].enabled => "salt-master" \in enabled
  OBVIOUS
<1> HIDE DEF running, enabled, still, done
<1>6. host'[h] = WithServices(host[h], enabled, running) /\ \A g \in Host \ {h} : host'[g] = host[g]
  BY <1>1, <1>2
<1>7. QED
  BY <1>1, <1>4, <1>5, <1>6, ActivatedFields DEF SameService

\* Only the steps of the Salt master change what it is to run with or runs with.
LEMMA ServiceAlone ==
  ASSUME TypeOK, NEW h \in Host, TakeStep(h), ~InstallSaltMaster(h), ~ActivateSaltMaster(h)
  PROVE  SameService(h) /\ Advances(h)
<1>1. /\ host[h] \in HostState /\ host \in [Host -> HostState]
      /\ host[h].conf \in [Setting -> Value] /\ run[h] \in Run
  BY DEF TypeOK, HostState
<1>2. ASSUME NEW k, NEW commands, NEW stuck, Outcome(h, k, commands, stuck)
      PROVE  Advances(h)
  BY <1>2, OutcomeCases DEF Advances, Proceed
<1>3. ASSUME Proceed(h) PROVE Advances(h)
  BY <1>3 DEF Advances, Proceed
<1>4. ASSUME UNCHANGED host PROVE SameService(h)
  BY <1>4 DEF SameService
<1>5. CASE SkipStep(h) \/ UnlockNode(h)
  BY <1>3, <1>4, <1>5 DEF SkipStep, UnlockNode
<1>6. CASE InitIpRoute(h)
  <2> DEFINE commands == <<"gateway", "list", "delete", "add", "ping">>
  <2>1. PICK k \in 0..Len(commands) :
           /\ host' = [host EXCEPT
                  ![h].conf = IF k >= 1 THEN SetNetConfigVar(@, run[h], "gateway") ELSE @,
                  ![h].route = IF k >= 4 THEN run[h][2] ELSE IF k = 3 THEN Nothing ELSE @]
           /\ Outcome(h, k, commands, Len(commands))
    BY <1>6 DEF InitIpRoute
  <2>2. SetNetConfigVar(host[h].conf, run[h], "gateway")["master.conf"]
          = host[h].conf["master.conf"]
    BY <1>1 DEF SetNetConfigVar, Setting
  <2>3. Advances(h)
    BY <1>2, <2>1
  <2>4. QED
    BY <1>1, <2>1, <2>2, <2>3 DEF SameService, HostState
<1>7. CASE InitDnsServer(h)
  <2> DEFINE commands == <<"resolv.conf", "ping">>
  <2>1. PICK k \in 0..Len(commands), torn \in BOOLEAN :
           /\ host' = [host EXCEPT ![h].conf = Written(@, run[h], commands, k, torn)]
           /\ Outcome(h, k, commands, Len(commands))
    BY <1>7 DEF InitDnsServer
  <2>2. Written(host[h].conf, run[h], commands, k, torn)["master.conf"]
          = host[h].conf["master.conf"]
    <3>1. Len(commands) \in Nat /\ \A i \in 1..Len(commands) : commands[i] # "master.conf"
      OBVIOUS
    <3> HIDE DEF commands
    <3>2. QED
      BY <3>1, OtherFiles
  <2>3. QED
    BY <1>1, <1>2, <2>1, <2>2, FilesAlone
<1>8. CASE MakeSaltResolvable(h)
  <2> DEFINE commands == <<"diff", "patch", "ping">>
  <2>1. PICK k \in 0..Len(commands) :
           /\ host' = [host EXCEPT ![h].salt = IF k >= 2 /\ @ = Nothing THEN "master" ELSE @]
           /\ Outcome(h, k, commands, IF host[h].salt = "other" THEN 0 ELSE Len(commands))
    BY <1>8 DEF MakeSaltResolvable
  <2>2. SameService(h)
    BY <1>1, <2>1 DEF SameService, HostState
  <2>3. QED
    BY <1>2, <2>1, <2>2
<1>9. CASE SetHostname(h)
  <2> DEFINE commands == <<"hostname", "set">>
  <2>1. PICK k \in 0..Len(commands), torn \in BOOLEAN :
           /\ host' = [host EXCEPT
                  ![h].conf = IF h \notin Rhel5 THEN Written(@, run[h], commands, k, torn)
                              ELSE IF k >= 1 THEN SetNetConfigVar(@, run[h], "hostname")
                              ELSE @,
                  ![h].name = IF k = 2 THEN run[h][2] ELSE @]
           /\ Outcome(h, k, commands, Len(commands))
    BY <1>9 DEF SetHostname
  <2>2. SetNetConfigVar(host[h].conf, run[h], "hostname")["master.conf"]
          = host[h].conf["master.conf"]
    BY <1>1 DEF SetNetConfigVar, Setting
  <2>3. Written(host[h].conf, run[h], commands, k, torn)["master.conf"]
          = host[h].conf["master.conf"]
    <3>1. Len(commands) \in Nat /\ \A i \in 1..Len(commands) : commands[i] # "master.conf"
      OBVIOUS
    <3> HIDE DEF commands
    <3>2. QED
      BY <3>1, OtherFiles
  <2>4. Advances(h)
    BY <1>2, <2>1
  <2>5. QED
    BY <1>1, <2>1, <2>2, <2>3, <2>4 DEF SameService, HostState
<1>10. CASE CreatePrimaryUser(h)
  <2>1. PICK k, commands, stuck, accounts :
           host' = [host EXCEPT ![h].accounts = accounts] /\ Outcome(h, k, commands, stuck)
    BY <1>10 DEF CreatePrimaryUser
  <2>2. SameService(h)
    BY <1>1, <2>1 DEF SameService, HostState
  <2>3. QED
    BY <1>2, <2>1, <2>2
<1>11. CASE InitYumRepos(h)
  <2> DEFINE commands == <<"yum.conf", "backup", "mkdir", "repo_list", "rpm_keys", "query">>
             Repos(k) == IF k >= 2 /\ host[h].backup = Nothing THEN Nothing ELSE host[h].repos
  <2>1. PICK k \in 0..Len(commands), torn \in BOOLEAN :
           /\ host' = [host EXCEPT
                  ![h].conf = Written(@, run[h], commands, k, torn),
                  ![h].backup = IF k >= 2 /\ @ = Nothing THEN host[h].repos ELSE @,
                  ![h].repos = IF k >= 3 /\ Repos(k) = Nothing THEN "deployed" ELSE Repos(k)]
           /\ Outcome(h, k, commands, Len(commands))
    BY <1>11 DEF InitYumRepos
  <2>2. Written(host[h].conf, run[h], commands, k, torn)["master.conf"]
          = host[h].conf["master.conf"]
    <3>1. Len(commands) \in Nat /\ \A i \in 1..Len(commands) : commands[i] # "master.conf"
      OBVIOUS
    <3> HIDE DEF commands
    <3>2. QED
      BY <3>1, OtherFiles
  <2>3. Advances(h)
    BY <1>2, <2>1
  <2>4. QED
    BY <1>1, <2>1, <2>2, <2>3 DEF SameService, HostState
<1>12. CASE InstallSaltMinion(h)
  <2> DEFINE commands == <<"mkdir", "unpack", "install", "minion.conf", "rm">>
  <2>1. PICK k \in 0..Len(commands), torn \in BOOLEAN :
           /\ host' = [host EXCEPT ![h] = Installed(h, "minion", commands, k, torn)]
           /\ Outcome(h, k, commands, Installable(h, "minion", Len(commands)))
    BY <1>12 DEF InstallSaltMinion
  <2>2. PICK rpms, installed :
           Installed(h, "minion", commands, k, torn)
             = WithRpms(host[h], rpms, installed,
                        Written(host[h].conf, run[h], commands, k, torn))
    BY DEF Installed, WithRpms
  <2>3. Written(host[h].conf, run[h], commands, k, torn)["master.conf"]
          = host[h].conf["master.conf"]
    <3>1. Len(commands) \in Nat /\ \A i \in 1..Len(commands) : commands[i] # "master.conf"
      OBVIOUS
    <3> HIDE DEF commands
    <3>2. QED
      BY <3>1, OtherFiles
  <2>4. Advances(h)
    BY <1>2, <2>1
  <2>5. host'[h] = WithRpms(host[h], rpms, installed,
                            Written(host[h].conf, run[h], commands, k, torn))
    BY <1>1, <2>1, <2>2
  <2>6. QED
    BY <1>1, <2>1, <2>3, <2>4, <2>5, InstalledFields DEF SameService
<1>13. CASE LinkSources(h)
  <2> DEFINE commands == <<"mkdir", "sources", "states_links">>
  <2>1. PICK k \in 0..Len(commands), torn \in BOOLEAN :
           /\ host' = [host EXCEPT ![h].conf = Written(@, run[h], commands, k, torn)]
           /\ Outcome(h, k, commands, Len(commands))
    BY <1>13 DEF LinkSources
  <2>2. Written(host[h].conf, run[h], commands, k, torn)["master.conf"]
          = host[h].conf["master.conf"]
    <3>1. Len(commands) \in Nat /\ \A i \in 1..Len(commands) : commands[i] # "master.conf"
      OBVIOUS
    <3> HIDE DEF commands
    <3>2. QED
      BY <3>1, OtherFiles
  <2>3. QED
    BY <1>1, <1>2, <2>1, <2>2, FilesAlone
<1>14. CASE LinkResources(h)
  <2> DEFINE commands == <<"mkdir", "mkdir", "resources_link">>
  <2>1. PICK k \in 0..Len(commands) :
           /\ host' = [host EXCEPT ![h].conf = Written(@, run[h], commands, k, FALSE)]
           /\ Outcome(h, k, commands, Len(commands))
    BY <1>14 DEF LinkResources
  <2>2. Written(host[h].conf, run[h], commands, k, FALSE)["master.conf"]
          = host[h].conf["master.conf"]
    <3>1. Len(commands) \in Nat /\ \A i \in 1..Len(commands) : commands[i] # "master.conf"
      OBVIOUS
    <3> HIDE DEF commands
    <3>2. QED
      BY <3>1, OtherFiles
  <2>3. QED
    BY <1>1, <1>2, <2>1, <2>2, FilesAlone
<1>15. CASE ActivateSaltMinion(h)
  BY <1>2, <1>15, OtherServiceAlone DEF ActivateSaltMinion
<1>16. CASE RunInitStates(h) \/ RunHighstate(h)
  BY <1>2, <1>4, <1>16 DEF RunInitStates, RunHighstate
<1>17. QED
  BY <1>5, <1>6, <1>7, <1>8, <1>9, <1>10, <1>11, <1>12, <1>13, <1>14, <1>15, <1>16 DEF TakeStep

\* A step that leaves the Salt master alone keeps what was achieved for it, and is
\* none of those that an online run does not skip.
LEMMA SameServiceKeeps ==
  ASSUME ConfigurationInv, TypeOK', NEW h \in Host, step[h] # 0, SameService(h), Advances(h),
         h = Master /\ run[h][1] = "initial-online-node" => step[h] \notin {8, 12}
  PROVE  ConfigurationInv'
<1>1. Master \in Host /\ run' = run /\ unstopped' = unstopped /\ host'[Master] \in HostState
  BY MasterAssumption DEF TypeOK, Advances
<1>2. CASE h # Master
  <2>1. /\ step'[Master] = step[Master] /\ completed'[Master] = completed[Master]
        /\ host'[Master] = host[Master]
    BY <1>1, <1>2 DEF Advances, Ended, Advance, ConfigurationInv, TypeOK, SameService
  <2>2. QED
    BY <1>1, <2>1 DEF ConfigurationInv, PastStep, InstalledConfiguration, UsedConfiguration
<1>3. CASE h = Master /\ Ended(h)
  <2>1. step'[Master] = 0 /\ ~completed'[Master]
    BY <1>1, <1>3 DEF Ended, ConfigurationInv, TypeOK
  <2>2. QED
    BY <2>1 DEF ConfigurationInv, PastStep
<1>4. CASE h = Master /\ Advance(h)
  <2>1. ~completed[Master] /\ step[Master] \in 1..15
    BY <1>1, <1>4 DEF ConfigurationInv, TypeOK, StepOrder
  <2>2. /\ step'[Master] \in {0, step[Master] + 1} /\ (step'[Master] # 0 => ~completed'[Master])
        /\ completed'[Master] => step[Master] = 15
    BY <1>1, <1>4, <2>1 DEF Advance, ConfigurationInv, TypeOK, StepOrder
  <2>3. \A i \in {8, 12} : PastStep(i)' => PastStep(i)
    BY <1>1, <1>4, <2>1, <2>2 DEF PastStep
  <2>4. /\ InstalledConfiguration => InstalledConfiguration'
        /\ UsedConfiguration => UsedConfiguration'
    BY <1>1, <1>4 DEF InstalledConfiguration, UsedConfiguration, SameService
  <2>5. QED
    BY <2>2, <2>3, <2>4 DEF ConfigurationInv
<1>5. QED
  BY <1>2, <1>3, <1>4 DEF Advances

\* An online run takes the steps of the Salt master, which are the 8th and the 12th.
LEMMA StepOfMaster ==
  ASSUME {"install_salt_master", "activate_salt_master"} \subseteq Enabled,
         TypeOK, NEW h \in Host, TakeStep(h)
  PROVE  /\ step[h] # 0
         /\ InstallSaltMaster(h) => step[h] = 8
         /\ ActivateSaltMaster(h) => step[h] = 12
         /\ run[h][1] = "initial-online-node" /\ ~InstallSaltMaster(h) /\ ~ActivateSaltMaster(h)
               => step[h] \notin {8, 12}
<1>1. step[h] \in 0..15
  BY DEF TypeOK, StepOrder
<1>2. PICK s : s = StepOrder[step[h]]
  OBVIOUS
<1>3. step[h] # 0 /\ (SkipStep(h) => ~At(h, s))
  BY <1>2 DEF TakeStep, SkipStep, UnlockNode, InitIpRoute, InitDnsServer, MakeSaltResolvable,
     SetHostname, CreatePrimaryUser, InitYumRepos, InstallSaltMaster, InstallSaltMinion,
     LinkSources, LinkResources, ActivateSaltMaster, ActivateSaltMinion, RunInitStates,
     RunHighstate, At
<1>4. /\ InstallSaltMaster(h) => s = "install_salt_master"
      /\ ActivateSaltMaster(h) => s = "activate_salt_master"
  BY <1>2 DEF InstallSaltMaster, ActivateSaltMaster, At
<1>5. /\ s = "install_salt_master" <=> step[h] = 8
      /\ s = "activate_salt_master" <=> step[h] = 12
  BY <1>1, <1>2, <1>3 DEF StepOrder
<1>6. ASSUME ~SkipStep(h), ~InstallSaltMaster(h), ~ActivateSaltMaster(h)
      PROVE  s \notin {"install_salt_master", "activate_salt_master"}
  BY <1>2, <1>6 DEF TakeStep, UnlockNode, InitIpRoute, InitDnsServer, MakeSaltResolvable,
     SetHostname, CreatePrimaryUser, InitYumRepos, InstallSaltMinion, LinkSources,
     LinkResources, ActivateSaltMinion, RunInitStates, RunHighstate, At
<1>7. ASSUME SkipStep(h), run[h][1] = "initial-online-node"
      PROVE  s \notin {"install_salt_master", "activate_salt_master"}
  BY <1>2, <1>3, <1>7 DEF At, UseCases
<1>8. QED
  BY <1>3, <1>4, <1>5, <1>6, <1>7

\* install_salt_master writes the configuration of the run.
LEMMA InstallKeepsConfiguration ==
  ASSUME ConfigurationInv, TypeOK', NEW h \in Host, step[h] = 8, InstallSaltMaster(h)
  PROVE  ConfigurationInv'
<1> DEFINE commands == <<"mkdir", "unpack", "install", "master.conf", "rm", "delete_keys">>
<1>1. CASE h # Master
  <2>1. SameService(h) /\ Advances(h)
    BY <1>1 DEF InstallSaltMaster, SameService, Advances, Proceed
  <2>2. QED
    BY <1>1, <2>1, SameServiceKeeps
<1>2. CASE h = Master
  <2>1. PICK k \in 0..Len(commands), torn \in BOOLEAN :
           /\ host' = [host EXCEPT ![h] = Installed(h, "master", commands, k, torn)]
           /\ Outcome(h, k, commands, Installable(h, "master", Len(commands)))
    BY <1>2 DEF InstallSaltMaster
  <2>2. k = Len(commands) => \E i \in 1..k : commands[i] = "master.conf"
    <3>1. commands[4] = "master.conf" /\ Len(commands) = 6
      OBVIOUS
    <3> HIDE DEF commands
    <3>2. QED
      BY <3>1
  <2> HIDE DEF commands
  <2> DEFINE written == Written(host[h].conf, run[h], commands, k, torn)
  <2>3. k = Len(commands) => written["master.conf"] = run[h][2]
    BY <2>2 DEF Written, Setting, Content
  <2>4. host'[h].conf = written
    <3>1. PICK rpms, installed :
             Installed(h, "master", commands, k, torn)
               = WithRpms(host[h], rpms, installed, written)
      BY DEF Installed, WithRpms
    <3> HIDE DEF written
    <3>2. QED
      BY <2>1, <3>1, InstalledFields DEF ConfigurationInv, TypeOK
  <2>5. run' = run /\ (Ended(h) \/ (Proceed(h) /\ k = Len(commands)))
    BY <2>1, OutcomeCases
  <2>6. /\ step'[Master] \in {0, 9} /\ ~completed'[Master]
        /\ step'[Master] # 0 => k = Len(commands)
    BY <1>2, <2>5 DEF Ended, Proceed, Advance, ConfigurationInv, TypeOK, StepOrder
  <2>7. QED
    BY <1>2, <2>3, <2>4, <2>5, <2>6
       DEF ConfigurationInv, PastStep, InstalledConfiguration
<1>3. QED
  BY <1>1, <1>2

LEMMA StopsOnRhel5 ==
  ASSUME NEW h \in Rhel5
  PROVE  "stop" \in Elements(StopCommands(h) \o StartCommands)
<1> DEFINE stop == <<"stop">>
<1>1. stop \in Seq(Command) /\ 1 \in 1..Len(stop) /\ stop[1] = "stop"
  BY DEF Command
<1>2. StopCommands(h) = FirewallCommands \o stop
  BY DEF StopCommands
<1> HIDE DEF stop
<1>3. "stop" \in Elements(stop)
  BY <1>1 DEF Elements
<1>4. StopCommands(h) \in Seq(Command) /\ Elements(stop) \subseteq Elements(StopCommands(h))
  BY <1>1, <1>2, CommandElements, ConcatElements
<1>5. Elements(StopCommands(h)) \subseteq Elements(StopCommands(h) \o StartCommands)
  BY <1>4, CommandElements, ConcatElements
<1>6. QED
  BY <1>3, <1>4, <1>5

\* A service that is stopped first is started with the file as it is now.
LEMMA RestartedFields ==
  ASSUME NEW o \in HostState, NEW commands, NEW k,
         {"stop", "enable", "start"} \subseteq {commands[i] : i \in 1..k}
  PROVE  LET n == Activated(o, "salt-master", "master.conf", commands, k)
         IN
         /\ n.conf = o.conf
         /\ "salt-master" \in n.enabled
         /\ n.running["salt-master"] = o.conf["master.conf"]
<1> DEFINE done == {commands[i] : i \in 1..k}
           stopped == {x \in Service : \/ x = "firewall" /\ "stop_firewall" \in done
                                       \/ x = "salt-master" /\ "stop" \in done}
           still == [x \in Service |-> IF x \in stopped THEN Nothing ELSE o.running[x]]
           running == IF "start" \in done
                      THEN Started(still, o.conf["master.conf"], "salt-master")
                      ELSE still
           enabled == (o.enabled \ (IF "disable_firewall" \in done THEN {"firewall"} ELSE {}))
                      \cup (IF "enable" \in done THEN {"salt-master"} ELSE {})
<1>1. Activated(o, "salt-master", "master.conf", commands, k) = WithServices(o, enabled, running)
  BY DEF Activated, WithServices
<1>2. {"stop", "enable", "start"} \subseteq done
  OBVIOUS
<1> HIDE DEF done
<1>3. DOMAIN still = Service /\ "salt-master" \in Service /\ still["salt-master"] = Nothing
  BY <1>2 DEF Service
<1> HIDE DEF still
<1>4. running["salt-master"] = o.conf["master.conf"]
  BY <1>2, <1>3 DEF Started
<1>5. "salt-master" \in enabled
  BY <1>2
<1> HIDE DEF running, enabled
<1>6. QED
  BY <1>1, <1>4, <1>5, ActivatedFields

\* The commands of the step enable the service and leave its file alone.
LEMMA EnabledFields ==
  ASSUME NEW o \in HostState, NEW commands, NEW k,
         "enable" \in {commands[i] : i \in 1..k}
  PROVE  LET n == Activated(o, "salt-master", "master.conf", commands, k)
         IN  n.conf = o.conf /\ "salt-master" \in n.enabled
<1> DEFINE done == {commands[i] : i \in 1..k}
           enabled == (o.enabled \ (IF "disable_firewall" \in done THEN {"firewall"} ELSE {}))
                      \cup (IF "enable" \in done THEN {"salt-master"} ELSE {})
<1>1. PICK running : Activated(o, "salt-master", "master.conf", commands, k)
                        = WithServices(o, enabled, running)
  BY DEF Activated, WithServices
<1>2. "salt-master" \in enabled
  OBVIOUS
<1> HIDE DEF enabled
<1>3. QED
  BY <1>1, <1>2, ActivatedFields

\* activate_salt_master makes the Salt master of a rhel5 host run with it, or says
\* that it could not stop the one that runs.
LEMMA ActivateKeepsConfiguration ==
  ASSUME Master \in Rhel5, ConfigurationInv, TypeOK', NEW h \in Host, step[h] = 12,
         ActivateSaltMaster(h)
  PROVE  ConfigurationInv'
<1>1. CASE h # Master /\ Proceed(h) /\ UNCHANGED host
  <2>1. SameService(h) /\ Advances(h)
    BY <1>1 DEF SameService, Advances, Proceed
  <2>2. QED
    BY <1>1, <2>1, SameServiceKeeps
<1>2. ASSUME h = Master, run' = run, Advance(h),
             host'[h].conf = host[h].conf, UsedConfiguration' \/ ~PastStep(8)
      PROVE  ConfigurationInv'
  <2>1. step'[Master] = 13 /\ ~completed'[Master]
    BY <1>2 DEF Advance, ConfigurationInv, TypeOK, StepOrder
  <2>2. PastStep(12)' => PastStep(8)
    BY <1>2 DEF PastStep
  <2>3. PastStep(8)' => PastStep(8)
    BY <1>2 DEF PastStep
  <2>4. InstalledConfiguration => InstalledConfiguration'
    BY <1>2 DEF InstalledConfiguration
  <2>5. QED
    BY <1>2, <2>1, <2>2, <2>3, <2>4 DEF ConfigurationInv
<1>3. host[h] \in HostState /\ \A state : [host EXCEPT ![h] = state][h] = state
  BY DEF ConfigurationInv, TypeOK
<1>4. CASE h = Master /\ RestartMaster(h)
  <2> DEFINE commands == StopCommands(h) \o StartCommands
  <2>1. PICK k \in 0..Len(commands) :
           /\ host' = [host EXCEPT ![h] =
                          Activated(@, "salt-master", "master.conf", commands, k)]
           /\ Outcome(h, k, commands, Pingable(h, commands))
    BY <1>4 DEF RestartMaster
  <2>2. k = Len(commands) => {"stop", "enable", "start"} \subseteq {commands[i] : i \in 1..k}
    <3>1. {"stop", "enable", "start"} \subseteq Elements(commands)
      BY <1>4, StartsAfterStop, StopsOnRhel5
    <3> HIDE DEF commands
    <3>2. QED
      BY <3>1 DEF Elements
  <2> HIDE DEF commands
  <2>3. run' = run /\ (Ended(h) \/ (Proceed(h) /\ k = Len(commands)))
    BY <2>1, OutcomeCases
  <2>4. CASE Ended(h)
    <3>1. step'[Master] = 0 /\ ~completed'[Master]
      BY <1>4, <2>4 DEF Ended, ConfigurationInv, TypeOK
    <3>2. QED
      BY <3>1 DEF ConfigurationInv, PastStep
  <2>5. CASE Proceed(h) /\ k = Len(commands)
    <3>1. /\ host'[h].conf = host[h].conf
          /\ "salt-master" \in host'[h].enabled
          /\ host'[h].running["salt-master"] = host[h].conf["master.conf"]
      <4>1. host'[h] = Activated(host[h], "salt-master", "master.conf", commands, k)
        BY <1>3, <2>1
      <4>2. QED
        BY <1>3, <2>2, <2>5, <4>1, RestartedFields
    <3>2. UsedConfiguration' \/ ~PastStep(8)
      BY <1>4, <2>3, <3>1 DEF ConfigurationInv, InstalledConfiguration, UsedConfiguration
    <3>3. Advance(h)
      BY <2>5 DEF Proceed
    <3>4. QED
      BY <1>2, <1>4, <2>3, <3>1, <3>2, <3>3
  <2>6. QED
    BY <2>3, <2>4, <2>5
<1>5. CASE h = Master /\ KeepMaster(h)
  <2> DEFINE commands == FirewallCommands \o StartCommands
  <2>1. /\ host' = [host EXCEPT ![h] =
                       Activated(@, "salt-master", "master.conf", commands, Len(commands))]
        /\ unstopped' = [unstopped EXCEPT ![h] = TRUE]
        /\ Advance(h) /\ run' = run
    BY <1>5 DEF KeepMaster
  <2>2. "enable" \in {commands[i] : i \in 1..Len(commands)}
    <3>1. "enable" \in Elements(commands)
      BY StartsAfterStop
    <3> HIDE DEF commands
    <3>2. QED
      BY <3>1 DEF Elements
  <2> HIDE DEF commands
  <2>3. host'[h].conf = host[h].conf /\ "salt-master" \in host'[h].enabled
    <3>1. host'[h] = Activated(host[h], "salt-master", "master.conf", commands, Len(commands))
      BY <1>3, <2>1
    <3>2. QED
      BY <1>3, <2>2, <3>1, EnabledFields
  <2>4. unstopped'[h]
    BY <2>1 DEF ConfigurationInv, TypeOK
  <2>5. UsedConfiguration'
    BY <1>5, <2>3, <2>4 DEF UsedConfiguration
  <2>6. QED
    BY <1>2, <1>5, <2>1, <2>3, <2>5
<1>6. QED
  BY <1>1, <1>4, <1>5 DEF ActivateSaltMaster

\* A reboot starts the Salt master with the file the run wrote.
LEMMA RebootKeepsConfiguration ==
  ASSUME ConfigurationInv, TypeOK', NEW h \in Host, Reboot(h)
  PROVE  ConfigurationInv'
<1> DEFINE route == LET v == host[h].conf["gateway"]
                    IN  IF v = Missing THEN Nothing ELSE v
           name == LET v == host[h].conf["hostname"]
                   IN  IF v = Missing THEN Original ELSE v
           running == [x \in Service |->
               IF x \notin host[h].enabled THEN Nothing
               ELSE CASE x = "salt-master" -> host[h].conf["master.conf"]
                      [] x = "salt-minion" -> host[h].conf["minion.conf"]
                      [] x = "firewall" -> Original]
<1>1. /\ Master \in Host /\ host \in [Host -> HostState] /\ host[h] \in HostState
      /\ run' = run /\ completed' = completed /\ step' = [step EXCEPT ![h] = 0]
      /\ unstopped' = unstopped
      /\ step \in [Host -> 0..Len(StepOrder)]
  BY MasterAssumption DEF ConfigurationInv, TypeOK, Reboot
<1>2. host' = [host EXCEPT ![h] = Rebooted(host[h], route, name, running)]
  BY DEF Reboot, Rebooted
<1>3. "salt-master" \in host[h].enabled
         => running["salt-master"] = host[h].conf["master.conf"]
  BY DEF Service
<1> HIDE DEF route, name, running
<1>4. /\ host'[h].conf = host[h].conf /\ host'[h].enabled = host[h].enabled
      /\ host'[h].running = running
      /\ \A g \in Host \ {h} : host'[g] = host[g]
  BY <1>1, <1>2, RebootedFields
<1>5. \A i \in {8, 12} : PastStep(i)' => PastStep(i)
  BY <1>1 DEF PastStep
<1>6. step'[Master] # 0 => step[Master] # 0
  BY <1>1
<1>7. CASE h # Master
  BY <1>1, <1>4, <1>5, <1>6, <1>7
     DEF ConfigurationInv, InstalledConfiguration, UsedConfiguration
<1>8. CASE h = Master
  <2>1. PastStep(12)' => PastStep(8)'
    BY <1>1, <1>8 DEF PastStep
  <2>2. InstalledConfiguration => InstalledConfiguration'
    BY <1>1, <1>4, <1>8 DEF InstalledConfiguration
  <2>3. InstalledConfiguration /\ UsedConfiguration => UsedConfiguration'
    BY <1>1, <1>3, <1>4, <1>8 DEF InstalledConfiguration, UsedConfiguration
  <2>4. QED
    BY <1>1, <1>5, <1>6, <2>1, <2>2, <2>3 DEF ConfigurationInv
<1>9. QED
  BY <1>7, <1>8

\* After a completed online run that could stop it, the Salt master of a rhel5 host
\* whose two steps are enabled runs with the configuration of that run: whatever else
\* failed, was killed, was run before or is rebooted after.
THEOREM MasterConfigurationIsUsed ==
  ASSUME Master \in Rhel5, {"install_salt_master", "activate_salt_master"} \subseteq Enabled
  PROVE  Spec => []MasterUsesItsConfiguration
<1>1. Init => ConfigurationInv
  <2> SUFFICES ASSUME Init PROVE ConfigurationInv
    OBVIOUS
  <2>1. step[Master] = 0 /\ ~completed[Master]
    BY MasterAssumption DEF Init
  <2>2. QED
    BY <2>1, InitTyped DEF ConfigurationInv, PastStep
<1>2. ConfigurationInv /\ TypeOK' /\ [Next]_vars => ConfigurationInv'
  <2> SUFFICES ASSUME ConfigurationInv, TypeOK', [Next]_vars PROVE ConfigurationInv'
    OBVIOUS
  <2>1. ASSUME NEW h \in Host, TakeStep(h) PROVE ConfigurationInv'
    <3>1. TypeOK
      BY DEF ConfigurationInv
    <3>2. CASE InstallSaltMaster(h)
      BY <2>1, <3>1, <3>2, StepOfMaster, InstallKeepsConfiguration
    <3>3. CASE ActivateSaltMaster(h)
      BY <2>1, <3>1, <3>3, StepOfMaster, ActivateKeepsConfiguration
    <3>4. CASE ~InstallSaltMaster(h) /\ ~ActivateSaltMaster(h)
      BY <2>1, <3>1, <3>4, StepOfMaster, ServiceAlone, SameServiceKeeps
    <3>5. QED
      BY <3>2, <3>3, <3>4
  <2>2. ASSUME NEW h \in Host, Reboot(h) PROVE ConfigurationInv'
    BY <2>2, RebootKeepsConfiguration
  <2>3. ASSUME NEW h \in Host, NEW r \in Run, Start(h, r) PROVE ConfigurationInv'
    <3>1. /\ step' = [step EXCEPT ![h] = 1] /\ completed' = [completed EXCEPT ![h] = FALSE]
          /\ run' = [run EXCEPT ![h] = r] /\ host' = host
      BY <2>3 DEF Start
    <3>2. CASE h = Master
      <4>1. step'[Master] = 1 /\ ~completed'[Master]
        BY <3>1, <3>2 DEF ConfigurationInv, TypeOK
      <4>2. QED
        BY <4>1 DEF ConfigurationInv, PastStep
    <3>3. CASE h # Master
      <4>1. /\ step'[Master] = step[Master] /\ completed'[Master] = completed[Master]
            /\ run'[Master] = run[Master] /\ unstopped'[Master] = unstopped[Master]
        BY <2>3, <3>1, <3>3, MasterAssumption DEF Start, ConfigurationInv, TypeOK
      <4>2. QED
        BY <3>1, <4>1 DEF ConfigurationInv, PastStep, InstalledConfiguration, UsedConfiguration
    <3>4. QED
      BY <3>2, <3>3
  <2>4. CASE UNCHANGED <<host, process>>
    BY <2>4 DEF process, ConfigurationInv, PastStep, InstalledConfiguration, UsedConfiguration
  <2>5. QED
    BY <2>1, <2>2, <2>3, <2>4 DEF Next, Reconnect, vars, process
<1>3. ConfigurationInv => MasterUsesItsConfiguration
  <2>1. Content(run[Master], "master.conf") = run[Master][2]
    BY DEF Content
  <2>2. QED
    BY <2>1 DEF ConfigurationInv, PastStep, UsedConfiguration, MasterUsesItsConfiguration
<1>4. QED
  BY <1>1, <1>2, <1>3, TypeCorrect, PTL DEF Spec

================================================================================
