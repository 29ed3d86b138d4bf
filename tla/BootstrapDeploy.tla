---------------------------- MODULE BootstrapDeploy ----------------------------
(***************************************************************************)
(* The `deploy` action of the bootstrap script on Linux hosts              *)
(* (states/bootstrap/bootstrap.dir): on each host, a process takes the     *)
(* steps of action_step_ordered_execution_list one after the other.  Most  *)
(* steps are several commands; the first one that fails ends the process,  *)
(* and so does a kill or a reboot.  The operator then runs the script      *)
(* again, from the first step, on what the earlier run left.  One of the   *)
(* hosts is the Salt master the others connect to.                         *)
(***************************************************************************)
EXTENDS Integers, Sequences

CONSTANTS
    Host,
    Master,         \* the host with salt_master_role
    Rhel5,          \* hosts whose target_platform is rhel5; the others take rhel7's steps
    UseCase,        \* use cases the operator runs
    Package,        \* bootstrap packages built for this system
    Enabled,        \* steps whose step_enabled is True in the configuration
    SaltEntries,    \* what /etc/hosts may say of `salt` at first
    NetworkFiles,   \* variables /etc/sysconfig/network may set at first
    Original,       \* as the operating system had it
    Damaged,        \* as a copy cut short left it
    Missing,        \* a variable that /etc/sysconfig/network does not set
    Nothing,        \* no route, no directory, not running ...
    MaxFailures,    \* bound: commands that fail, kills and reboots
    MaxReruns       \* bound: runs on hosts where the last one completed

(***************************************************************************)
(* action_step_ordered_execution_list and action_step_to_use_case_map.     *)
(***************************************************************************)
StepOrder ==
    <<"unlock_node", "init_ip_route", "init_dns_server", "make_salt_resolvable",
      "set_hostname", "create_primary_user", "init_yum_repos", "install_salt_master",
      "install_salt_minion", "link_sources", "link_resources", "activate_salt_master",
      "activate_salt_minion", "run_init_states", "run_highstate">>

UseCases(s) ==
    CASE s \in {"make_salt_resolvable", "install_salt_master", "activate_salt_master",
                "activate_salt_minion"} -> {"initial-online-node"}
      [] s = "run_highstate" -> {"offline-minion-installer"}
      [] OTHER -> {"initial-online-node", "offline-minion-installer"}

Run == UseCase \X Package

(***************************************************************************)
(* Files and links that a step writes anew, whatever they were.            *)
(***************************************************************************)
Setting == {"gateway", "hostname", "resolv.conf", "yum.conf", "repo_list", "rpm_keys",
            "master.conf", "minion.conf", "sources", "states_links", "resources_link"}

\* What a run writes: minion.conf and the sources depend on the use case.
Content(r, s) == IF s \in {"minion.conf", "sources", "states_links"} THEN r ELSE r[2]

Value == Run \cup Package \cup {Original, Damaged, Missing}

Role == {"master", "minion"}

Service == {"salt-master", "salt-minion", "firewall"}

HostState ==
    [conf : [Setting -> Value],
     route : Value \cup {Nothing},                  \* transient default route
     name : Value,                                  \* hostname in use
     salt : {"master", "other", Nothing},           \* first `salt` in /etc/hosts
     accounts : SUBSET {"group", "user", "password"},
     repos : {Original, "deployed", Nothing},       \* /etc/yum.repos.d
     backup : {Original, "deployed", Nothing},      \* ....backup.salt.bootstrap
     rpms : [Role \X Package -> {"whole", Damaged, Nothing}],  \* `rpms` of a package
     installed : [Role -> Package \cup {Nothing}],
     enabled : SUBSET Service,
     running : [Service -> Value \cup {Nothing}]]   \* configuration in use

ASSUME MasterAssumption == Master \in Host /\ Rhel5 \subseteq Host
ASSUME RunAssumption ==
    /\ UseCase \subseteq {"initial-online-node", "offline-minion-installer"}
    /\ Package \cap (Run \cup {Original, Damaged, Missing, Nothing}) = {}
    /\ {Original, Damaged, Missing, Nothing} \cap
          (Run \cup {"deployed", "whole", "master", "other"}) = {}
    /\ Original \notin {Damaged, Missing, Nothing}
    /\ Damaged \notin {Missing, Nothing} /\ Missing # Nothing
ASSUME OriginAssumption ==
    /\ SaltEntries \subseteq {"master", "other", Nothing}
    /\ NetworkFiles \subseteq SUBSET {"gateway", "hostname"}
ASSUME BoundAssumption == {MaxFailures, MaxReruns} \subseteq Nat

VARIABLES
    host,       \* [Host -> HostState]
    keys,       \* minion keys the master accepts
    run,        \* use case and package of the last run on each host
    step,       \* its position in StepOrder; 0 when it has ended
    completed,  \* it ended after its last step
    unstopped,  \* history variable: it could not stop the Salt master
    failures, reruns

process == <<run, step, completed, unstopped, failures, reruns>>
vars == <<host, keys, run, step, completed, unstopped, failures, reruns>>

--------------------------------------------------------------------------------
(* do_action *)

At(h, s) == step[h] # 0 /\ StepOrder[step[h]] = s /\ s \in Enabled /\ run[h][1] \in UseCases(s)

\* Mutant of Advance: the last step is not the end.
AdvancePastEnd(h) ==
    /\ step' = [step EXCEPT ![h] = @ + 1]
    /\ UNCHANGED completed

\* The step is done; so is the run, when it was the last one.
Advance(h) ==
    IF step[h] = Len(StepOrder)
    THEN /\ step' = [step EXCEPT ![h] = 0]
         /\ completed' = [completed EXCEPT ![h] = TRUE]
    ELSE /\ step' = [step EXCEPT ![h] = @ + 1]
         /\ UNCHANGED completed

Proceed(h) == Advance(h) /\ UNCHANGED <<run, unstopped, failures, reruns>>

\* The process ends early: it raises an exception ...
Raise(h) ==
    /\ step' = [step EXCEPT ![h] = 0]
    /\ UNCHANGED <<run, completed, unstopped, failures, reruns>>

\* ... because a command that may work did not, or it is killed.
Fail(h) ==
    /\ failures < MaxFailures
    /\ failures' = failures + 1
    /\ step' = [step EXCEPT ![h] = 0]
    /\ UNCHANGED <<run, completed, unstopped, reruns>>

\* Mutant of Outcome: a command that fails does not end the run.
OutcomeUnchecked(h, k, commands, stuck) ==
    /\ k <= stuck
    /\ IF k = Len(commands) \/ k = stuck THEN Proceed(h) ELSE Fail(h)

\* The first k commands of a step were done; no more than `stuck` of them can be.
Outcome(h, k, commands, stuck) ==
    /\ k <= stuck
    /\ CASE k = Len(commands) -> Proceed(h)
         [] k < Len(commands) /\ k = stuck -> Raise(h)
         [] OTHER -> Fail(h)

\* Files after the first k commands; the next one may have been cut short.
Written(conf, r, commands, k, torn) ==
    [s \in Setting |->
        IF \E i \in 1..k : commands[i] = s THEN Content(r, s)
        ELSE IF torn /\ k < Len(commands) /\ commands[k + 1] = s THEN Damaged
        ELSE conf[s]]

\* A step of another use case, or one that is not enabled.
SkipStep(h) ==
    /\ step[h] # 0 /\ ~At(h, StepOrder[step[h]])
    /\ Proceed(h)
    /\ UNCHANGED <<host, keys>>

--------------------------------------------------------------------------------
(* The steps *)

UnlockNode(h) ==
    /\ At(h, "unlock_node")
    /\ Proceed(h)
    /\ UNCHANGED <<host, keys>>

\* set_net_config_var replaces a line of /etc/sysconfig/network; it adds none.
SetNetConfigVar(conf, r, s) ==
    IF conf[s] = Missing THEN conf ELSE [conf EXCEPT ![s] = Content(r, s)]

\* Mutant of InitIpRoute: the old default route is deleted without a look.
InitIpRouteDeleteAlways(h) ==
    LET commands == <<"gateway", "list", "delete", "add", "ping">>
    IN  /\ At(h, "init_ip_route")
        /\ \E k \in 0..Len(commands) :
              /\ host' = [host EXCEPT
                     ![h].conf = IF k >= 1 THEN SetNetConfigVar(@, run[h], "gateway") ELSE @,
                     ![h].route = IF k >= 4 THEN run[h][2] ELSE IF k = 3 THEN Nothing ELSE @]
              /\ Outcome(h, k, commands, IF host[h].route = Nothing THEN 2 ELSE 5)
        /\ UNCHANGED keys

\* set_transient_route: the old default route is deleted, if there is one.
InitIpRoute(h) ==
    LET commands == <<"gateway", "list", "delete", "add", "ping">>
    IN  /\ At(h, "init_ip_route")
        /\ \E k \in 0..Len(commands) :
              /\ host' = [host EXCEPT
                     ![h].conf = IF k >= 1 THEN SetNetConfigVar(@, run[h], "gateway") ELSE @,
                     ![h].route = IF k >= 4 THEN run[h][2] ELSE IF k = 3 THEN Nothing ELSE @]
              /\ Outcome(h, k, commands, Len(commands))
        /\ UNCHANGED keys

InitDnsServer(h) ==
    LET commands == <<"resolv.conf", "ping">>
    IN  /\ At(h, "init_dns_server")
        /\ \E k \in 0..Len(commands), torn \in BOOLEAN :
              /\ host' = [host EXCEPT ![h].conf = Written(@, run[h], commands, k, torn)]
              /\ Outcome(h, k, commands, Len(commands))
        /\ UNCHANGED keys

\* update_hosts_file: an entry that says something else is an error, a missing
\* one is added.
MakeSaltResolvable(h) ==
    LET commands == <<"diff", "patch", "ping">>
    IN  /\ At(h, "make_salt_resolvable")
        /\ \E k \in 0..Len(commands) :
              /\ host' = [host EXCEPT ![h].salt = IF k >= 2 /\ @ = Nothing THEN "master" ELSE @]
              /\ Outcome(h, k, commands, IF host[h].salt = "other" THEN 0 ELSE Len(commands))
        /\ UNCHANGED keys

\* Mutant of SetHostname: a rhel7 host is named until its next boot only.
SetHostnameTransient(h) ==
    LET commands == <<"hostname", "set">>
    IN  /\ At(h, "set_hostname")
        /\ \E k \in 0..Len(commands) :
              /\ host' = [host EXCEPT
                     ![h].conf = IF h \in Rhel5 /\ k >= 1
                                 THEN SetNetConfigVar(@, run[h], "hostname")
                                 ELSE @,
                     ![h].name = IF k = 2 THEN run[h][2] ELSE @]
              /\ Outcome(h, k, commands, Len(commands))
        /\ UNCHANGED keys

SetHostname(h) ==
    LET commands == <<"hostname", "set">>
    IN  /\ At(h, "set_hostname")
        /\ \E k \in 0..Len(commands), torn \in BOOLEAN :
              /\ host' = [host EXCEPT
                     ![h].conf = IF h \notin Rhel5 THEN Written(@, run[h], commands, k, torn)
                                 ELSE IF k >= 1 THEN SetNetConfigVar(@, run[h], "hostname")
                                 ELSE @,
                     ![h].name = IF k = 2 THEN run[h][2] ELSE @]
              /\ Outcome(h, k, commands, Len(commands))
        /\ UNCHANGED keys

\* add_group and add_user do nothing when there is one; set_password always does.
CreatePrimaryUser(h) ==
    LET commands == <<"group", "user", "password">>
    IN  /\ At(h, "create_primary_user")
        /\ \E k \in 0..Len(commands) :
              /\ host' = [host EXCEPT ![h].accounts = @ \cup {commands[i] : i \in 1..k}]
              /\ Outcome(h, k, commands, Len(commands))
        /\ UNCHANGED keys

\* Mutant of InitYumRepos: the repositories are backed up every time.
InitYumReposBackedUpAlways(h) ==
    LET commands == <<"yum.conf", "backup", "mkdir", "repo_list", "rpm_keys", "query">>
    IN  /\ At(h, "init_yum_repos")
        /\ \E k \in 0..Len(commands), torn \in BOOLEAN :
              /\ host' = [host EXCEPT
                     ![h].conf = Written(@, run[h], commands, k, torn),
                     ![h].backup = IF k >= 2 THEN host[h].repos ELSE @,
                     ![h].repos = IF k >= 3 THEN "deployed" ELSE IF k = 2 THEN Nothing ELSE @]
              /\ Outcome(h, k, commands, Len(commands))
        /\ UNCHANGED keys

\* The repositories of the operating system are moved away, unless they were.
InitYumRepos(h) ==
    LET commands == <<"yum.conf", "backup", "mkdir", "repo_list", "rpm_keys", "query">>
        Repos(k) == IF k >= 2 /\ host[h].backup = Nothing THEN Nothing ELSE host[h].repos
    IN  /\ At(h, "init_yum_repos")
        /\ \E k \in 0..Len(commands), torn \in BOOLEAN :
              /\ host' = [host EXCEPT
                     ![h].conf = Written(@, run[h], commands, k, torn),
                     ![h].backup = IF k >= 2 /\ @ = Nothing THEN host[h].repos ELSE @,
                     ![h].repos = IF k >= 3 /\ Repos(k) = Nothing THEN "deployed" ELSE Repos(k)]
              /\ Outcome(h, k, commands, Len(commands))
        /\ UNCHANGED keys

\* deploy_salt_rhel: rpm takes every file of `rpms`, and none if one is damaged.
\* What a copy cut short leaves there is damaged, or not worth mentioning.
Installed(h, role, commands, k, torn) ==
    LET this == <<role, run[h][2]>>
        present == IF k >= 2 THEN [host[h].rpms EXCEPT ![this] = "whole"]
                   ELSE IF torn /\ k = 1 THEN [host[h].rpms EXCEPT ![this] = Damaged]
                   ELSE host[h].rpms
    IN  [host[h] EXCEPT
            !.rpms = [x \in DOMAIN @ |->
                         IF k >= 5 /\ x[2] = run[h][2] THEN Nothing ELSE present[x]],
            !.installed = [x \in Role |->
                IF k >= 3 /\ present[<<x, run[h][2]>>] = "whole" THEN run[h][2] ELSE @[x]],
            !.conf = Written(@, run[h], commands, k, torn)]

\* The rpms another step was to install may be there, and damaged.
Installable(h, role, n) ==
    IF \E x \in Role \ {role} : host[h].rpms[<<x, run[h][2]>>] = Damaged THEN 2 ELSE n

InstallSaltMaster(h) ==
    LET commands == <<"mkdir", "unpack", "install", "master.conf", "rm", "delete_keys">>
    IN  /\ At(h, "install_salt_master")
        /\ IF h # Master
           THEN Proceed(h) /\ UNCHANGED <<host, keys>>
           ELSE \E k \in 0..Len(commands), torn \in BOOLEAN :
                   /\ host' = [host EXCEPT ![h] = Installed(h, "master", commands, k, torn)]
                   /\ keys' = IF k = 6 THEN {} ELSE keys
                   /\ Outcome(h, k, commands, Installable(h, "master", Len(commands)))

InstallSaltMinion(h) ==
    LET commands == <<"mkdir", "unpack", "install", "minion.conf", "rm">>
    IN  /\ At(h, "install_salt_minion")
        /\ \E k \in 0..Len(commands), torn \in BOOLEAN :
              /\ host' = [host EXCEPT ![h] = Installed(h, "minion", commands, k, torn)]
              /\ Outcome(h, k, commands, Installable(h, "minion", Len(commands)))
        /\ UNCHANGED keys

LinkSources(h) ==
    LET commands == <<"mkdir", "sources", "states_links">>
    IN  /\ At(h, "link_sources")
        /\ \E k \in 0..Len(commands), torn \in BOOLEAN :
              /\ host' = [host EXCEPT ![h].conf = Written(@, run[h], commands, k, torn)]
              /\ Outcome(h, k, commands, Len(commands))
        /\ UNCHANGED keys

LinkResources(h) ==
    LET commands == <<"mkdir", "mkdir", "resources_link">>
    IN  /\ At(h, "link_resources")
        /\ \E k \in 0..Len(commands) :
              /\ host' = [host EXCEPT ![h].conf = Written(@, run[h], commands, k, FALSE)]
              /\ Outcome(h, k, commands, Len(commands))
        /\ UNCHANGED keys

\* Starting a service that is running does nothing.
Started(running, conf, service) ==
    IF running[service] # Nothing THEN running ELSE [running EXCEPT ![service] = conf]

FirewallCommands == <<"disable_firewall", "stop_firewall">>

\* Mutant of StopCommands: rhel5 does as rhel7.
StopCommandsNone(h) == FirewallCommands

\* Only rhel5 stops the Salt master before it starts it.
StopCommands(h) == FirewallCommands \o IF h \in Rhel5 THEN <<"stop">> ELSE <<>>

\* The services after the first k commands.
Activated(state, service, file, commands, k) ==
    LET done == {commands[i] : i \in 1..k}
        stopped == {x \in Service : \/ x = "firewall" /\ "stop_firewall" \in done
                                    \/ x = service /\ "stop" \in done}
        running == [x \in Service |-> IF x \in stopped THEN Nothing ELSE state.running[x]]
    IN  [state EXCEPT
            !.enabled = (@ \ (IF "disable_firewall" \in done THEN {"firewall"} ELSE {}))
                        \cup (IF "enable" \in done THEN {service} ELSE {}),
            !.running = IF "start" \in done THEN Started(running, state.conf[file], service)
                        ELSE running]

\* The ping that gives the service time to start needs an entry for `salt`.
Pingable(h, commands) ==
    IF host[h].salt = Nothing THEN Len(commands) - 1 ELSE Len(commands)

StartCommands == <<"enable", "start", "ping">>

RestartMaster(h) ==
    LET commands == StopCommands(h) \o StartCommands
    IN  \E k \in 0..Len(commands) :
           /\ host' = [host EXCEPT ![h] =
                          Activated(@, "salt-master", "master.conf", commands, k)]
           /\ Outcome(h, k, commands, Pingable(h, commands))

\* On rhel5 a stop that fails is ignored: the Salt master that runs goes on, and
\* the start does nothing.  (That another command fails as well is a failure
\* before the stop: a Salt master that runs has been enabled.)
KeepMaster(h) ==
    LET commands == FirewallCommands \o StartCommands
    IN  /\ h \in Rhel5 /\ host[h].running["salt-master"] # Nothing
        /\ Pingable(h, commands) = Len(commands)
        /\ failures < MaxFailures /\ failures' = failures + 1
        /\ host' = [host EXCEPT ![h] = Activated(@, "salt-master", "master.conf", commands,
                                                Len(commands))]
        /\ unstopped' = [unstopped EXCEPT ![h] = TRUE]
        /\ Advance(h)
        /\ UNCHANGED <<run, reruns>>

ActivateSaltMaster(h) ==
    /\ At(h, "activate_salt_master")
    /\ \/ h # Master /\ Proceed(h) /\ UNCHANGED host
       \/ h = Master /\ RestartMaster(h)
       \/ h = Master /\ KeepMaster(h)
    /\ UNCHANGED keys

ActivateSaltMinion(h) ==
    /\ At(h, "activate_salt_minion")
    /\ \E k \in 0..Len(StartCommands) :
          /\ host' = [host EXCEPT ![h] =
                         Activated(@, "salt-minion", "minion.conf", StartCommands, k)]
          /\ Outcome(h, k, StartCommands, Pingable(h, StartCommands))
    /\ UNCHANGED keys

\* The Salt master answers h: it accepts keys and finds its states only with
\* a configuration of the bootstrap package.
Served(h) ==
    /\ host[h].salt = "master"
    /\ host[Master].running["firewall"] = Nothing
    /\ host[Master].running["salt-master"] \in Package
    /\ {host[Master].conf["sources"], host[Master].conf["states_links"]} \subseteq Run

RunInitStates(h) ==
    LET commands == <<"sync_all", "source_symlinks", "resource_symlinks">>
        online == run[h][1] = "initial-online-node"
    IN  /\ At(h, "run_init_states")
        /\ \E k \in 0..Len(commands) :
              /\ keys' = IF online /\ k >= 1 THEN keys \cup {h} ELSE keys
              /\ Outcome(h, k, commands, IF online /\ ~Served(h) THEN 0 ELSE Len(commands))
        /\ UNCHANGED host

\* With --local; what the states configure is not modelled.
RunHighstate(h) ==
    /\ At(h, "run_highstate")
    /\ \E k \in 0..1 : Outcome(h, k, <<"highstate">>, 1)
    /\ UNCHANGED <<host, keys>>

--------------------------------------------------------------------------------
(* Operator, operating system and Salt *)

Init ==
    /\ \E salt \in SaltEntries, set \in NetworkFiles :
          host = [h \in Host |->
            [conf |-> [s \in Setting |->
                         IF s \in {"gateway", "hostname"} \ set THEN Missing ELSE Original],
             route |-> Original,
             name |-> Original,
             salt |-> salt,
             accounts |-> {},
             repos |-> Original,
             backup |-> Nothing,
             rpms |-> [x \in Role \X Package |-> Nothing],
             installed |-> [x \in Role |-> Nothing],
             enabled |-> {"firewall"},
             running |-> [x \in Service |-> IF x = "firewall" THEN Original ELSE Nothing]]]
    /\ keys = {}
    /\ run \in [Host -> Run]
    /\ step = [h \in Host |-> 0]
    /\ completed = [h \in Host |-> FALSE] /\ unstopped = [h \in Host |-> FALSE]
    /\ failures = 0
    /\ reruns = 0

Start(h, r) ==
    /\ step[h] = 0
    /\ IF completed[h]
       THEN reruns < MaxReruns /\ reruns' = reruns + 1
       ELSE UNCHANGED reruns
    /\ run' = [run EXCEPT ![h] = r]
    /\ step' = [step EXCEPT ![h] = 1]
    /\ completed' = [completed EXCEPT ![h] = FALSE]
    /\ unstopped' = [unstopped EXCEPT ![h] = FALSE]
    /\ UNCHANGED <<host, keys, failures>>

\* The persistent settings take effect, enabled services start.
Reboot(h) ==
    /\ failures < MaxFailures
    /\ failures' = failures + 1
    /\ host' = [host EXCEPT
           ![h].route = LET v == host[h].conf["gateway"]
                        IN  IF v = Missing THEN Nothing ELSE v,
           ![h].name = LET v == host[h].conf["hostname"]
                       IN  IF v = Missing THEN Original ELSE v,
           ![h].running = [x \in Service |->
               IF x \notin host[h].enabled THEN Nothing
               ELSE CASE x = "salt-master" -> host[h].conf["master.conf"]
                      [] x = "salt-minion" -> host[h].conf["minion.conf"]
                      [] x = "firewall" -> Original]]
    /\ step' = [step EXCEPT ![h] = 0]
    /\ UNCHANGED <<keys, run, completed, unstopped, reruns>>

\* A minion whose key was deleted offers it again.
Reconnect(h) ==
    /\ host[h].running["salt-minion"] # Nothing /\ Served(h)
    /\ h \notin keys
    /\ keys' = keys \cup {h}
    /\ UNCHANGED <<host, process>>

TakeStep(h) ==
    \/ SkipStep(h) \/ UnlockNode(h) \/ InitIpRoute(h) \/ InitDnsServer(h)
    \/ MakeSaltResolvable(h) \/ SetHostname(h) \/ CreatePrimaryUser(h) \/ InitYumRepos(h)
    \/ InstallSaltMaster(h) \/ InstallSaltMinion(h) \/ LinkSources(h) \/ LinkResources(h)
    \/ ActivateSaltMaster(h) \/ ActivateSaltMinion(h) \/ RunInitStates(h) \/ RunHighstate(h)

Next ==
    \E h \in Host :
        \/ TakeStep(h) \/ Reboot(h) \/ Reconnect(h)
        \/ \E r \in Run : Start(h, r)

Spec == Init /\ [][Next]_vars

\* The script runs on; the operator runs it until it succeeds; Salt reconnects.
FairSpec ==
    /\ Spec
    /\ \A h \in Host :
          /\ WF_vars(TakeStep(h))
          /\ WF_vars(~completed[h] /\ \E r \in Run : Start(h, r))
          /\ WF_vars(Reconnect(h))

--------------------------------------------------------------------------------
(* Correctness properties *)

\* All variables have their types.
TypeOK ==
    /\ host \in [Host -> HostState]
    /\ keys \subseteq Host
    /\ run \in [Host -> Run]
    /\ step \in [Host -> 0..Len(StepOrder)]
    /\ completed \in [Host -> BOOLEAN] /\ unstopped \in [Host -> BOOLEAN]
    /\ failures \in 0..MaxFailures
    /\ reruns \in 0..MaxReruns

\* What step s is to leave on h.
Done(h, s) ==
    LET state == host[h]
        Set(files) == \A f \in files : state.conf[f] = Content(run[h], f)
        Up(service) == service \in state.enabled /\ state.running[service] # Nothing
        Down(service) == service \notin state.enabled /\ state.running[service] = Nothing
        HasRole(role) == /\ state.installed[role] = run[h][2]
                         /\ \A x \in Role : state.rpms[<<x, run[h][2]>>] = Nothing
    IN  CASE s = "init_ip_route" -> state.route = run[h][2]
          [] s = "init_dns_server" -> Set({"resolv.conf"})
          [] s = "make_salt_resolvable" -> state.salt = "master"
          [] s = "set_hostname" -> state.name = run[h][2]
          [] s = "create_primary_user" -> state.accounts = {"group", "user", "password"}
          [] s = "init_yum_repos" -> /\ Set({"yum.conf", "repo_list", "rpm_keys"})
                                     /\ state.repos = "deployed" /\ state.backup = Original
          [] s = "install_salt_master" ->
                h = Master => HasRole("master") /\ Set({"master.conf"})
          [] s = "install_salt_minion" -> HasRole("minion") /\ Set({"minion.conf"})
          [] s = "link_sources" -> Set({"sources", "states_links"})
          [] s = "link_resources" -> Set({"resources_link"})
          [] s = "activate_salt_master" ->
                h = Master => Up("salt-master") /\ Down("firewall")
          [] s = "activate_salt_minion" -> Up("salt-minion")
          [] OTHER -> TRUE

\* A host whose last run completed has everything its steps are to leave, from
\* this run's package and use case: whatever earlier runs were for, wherever
\* they failed or were killed, whatever was rebooted before or after.
DeploymentHolds ==
    \A h \in Host : completed[h] =>
        \A s \in Enabled : run[h][1] \in UseCases(s) => Done(h, s)

\* No sequence of failures and reruns of init_yum_repos loses the repositories
\* the operating system came with: they are in use or backed up.
OriginalReposKept ==
    \A h \in Host : Original \in {host[h].repos, host[h].backup}

\* After an online run completed on the master, the Salt master runs with the
\* configuration of that run, not with one that an earlier run or a copy cut
\* short had left when it was started, unless that one could not be stopped.
MasterUsesItsConfiguration ==
    completed[Master] /\ run[Master][1] = "initial-online-node" /\ ~unstopped[Master] =>
        host[Master].running["salt-master"] = Content(run[Master], "master.conf")

Deployed(h) == completed[h] /\ h \in keys

\* Rpms for the minion are left in `rpms` on the master, one cut short.
LeftoverRpms == \E p \in Package : host[Master].rpms[<<"minion", p>>] = Damaged

\* Online hosts, the master among them, come to be deployed and accepted by the
\* master, in whatever order their operators start, and stay so: but for one,
\* no failure leaves a host that a rerun cannot repair.
EveryHostIsDeployed == []<>~LeftoverRpms => <>[](\A h \in Host : Deployed(h))
================================================================================
