--------------------------- MODULE ConfigureSalt ---------------------------
(***************************************************************************)
(* configure_salt.py: points an installed Salt master at the repositories  *)
(* that the properties of a profile name, makes its configuration, starts  *)
(* it with it and has the states link sources and resources.               *)
(*                                                                         *)
(* The script keeps no record either: it is run again, from its first      *)
(* command, after a failure, for another project, or by the job            *)
(* restart_master_salt_services.  What it changes is the operator's        *)
(* /etc/salt/master: it takes a backup, loads the file, truncates it and   *)
(* dumps it, with its own keys set and all others as they were loaded.     *)
(***************************************************************************)
EXTENDS Naturals, Sequences, FiniteSets

CONSTANTS
    Projects,       \* projects with a states repository of their own
    Properties,     \* the properties files: project_name, projects_states_repo_paths
    Settings,       \* what the operator can have set in /etc/salt/master
    Nothing, Missing, Torn,
    MaxTime,        \* bound on the seconds that pass between two backups
    MaxEdits, MaxFailures, MaxRuns

ASSUME ConfigureAssumption ==
    /\ IsFiniteSet(Projects) /\ "common" \notin Projects
    /\ \A p \in Properties :
          /\ p.projects \subseteq Projects
          /\ p.project \in p.projects \cup {"common"}
    /\ Properties # {}
    /\ Nothing \notin Settings
    /\ Missing \notin Projects \cup {"common"}
    /\ MaxTime \in Nat /\ MaxEdits \in Nat /\ MaxFailures \in Nat /\ MaxRuns \in Nat

\* Links below /srv; a layer of the pillars has two, to repositories of one
\* project.
Layers == <<"commons", "defaults", "overrides">>

CommonLinks == {"alias", "states", "main.sls", "commons", "defaults", "overrides"}

Links == CommonLinks \cup Projects

ASSUME LinksAssumption == Projects \cap CommonLinks = {}

Targets == Projects \cup {"common"}

\* A configuration that loads: settings of the operator, keys of the script.
Conf == [custom : Settings \cup {Nothing}, own : BOOLEAN]

ASSUME MarksAssumption ==
    /\ Nothing \notin Conf /\ Missing \notin Conf /\ Torn \notin Conf
    /\ Torn # Missing

Time == 0 .. MaxTime

Empty == [custom |-> Nothing, own |-> FALSE]

VARIABLES
    props, project,     \* of the last run: properties, and its project_name
    phase, todo, loaded, stamp,     \* of the script
    links,      \* [Links -> Targets, or Missing]
    sources,    \* the project whose sources are linked, or Missing
    conf,       \* /etc/salt/master
    backup,     \* [Time -> /etc/salt/master.backup.<second>]
    last,       \* /etc/salt/master.backup.last
    time,
    running,    \* the configuration the Salt master runs with, or Nothing
    enabled,    \* it is started at boot
    accepted,   \* it accepts the minion on its own host
    completed,  \* the last run came to its end
    wanted,     \* history variable: what the operator has set last
    since,      \* history variable: what was set since the run has loaded it
    rushed,     \* history variable: a backup overwritten within a second, or
                \* an edit between backup and dump
    unstopped,  \* history variable: the stop of the last run failed
    edits, failures, runs

scriptVars == <<props, phase, todo, project, loaded, stamp, completed>>
confVars == <<conf, backup, last>>
saltVars == <<running, enabled, accepted>>
history == <<wanted, since, rushed, unstopped>>
bounds == <<time, history, edits, failures, runs>>
vars == <<scriptVars, links, sources, confVars, saltVars, bounds>>

-----------------------------------------------------------------------------
(* Symbolic links *)

\* A properties file is loaded, and all commands run again.
Start(p) ==
    /\ phase = "idle"
    /\ completed => runs < MaxRuns
    /\ runs' = IF completed THEN runs + 1 ELSE runs
    /\ props' = p /\ completed' = FALSE
    /\ project' = p.project
    /\ phase' = "clean" /\ todo' = {}
    /\ unstopped' = FALSE
    /\ UNCHANGED <<loaded, stamp, links, sources, confVars, saltVars, time,
                   wanted, since, rushed, edits, failures>>

Enter(p, set) == phase' = p /\ todo' = set

LinksOnly == UNCHANGED <<props, loaded, stamp, completed, confVars, saltVars, bounds>>

\* Mutant of RemoveOldLinks: the links of another project stay.
RemoveOldLinksNot ==
    /\ phase = "clean"
    /\ Enter("alias", {})
    /\ UNCHANGED <<project, links, sources>> /\ LinksOnly

\* rm -rf /srv/sources /srv/resources
RemoveOldLinks ==
    /\ phase = "clean"
    /\ sources' = Missing
    /\ Enter("alias", {})
    /\ UNCHANGED <<project, links>> /\ LinksOnly

\* ln -snf
Link(name, target) == links' = [links EXCEPT ![name] = target]

LinkAliases ==
    /\ phase = "alias"
    /\ Link("alias", props.project)
    /\ Enter("states", {})
    /\ UNCHANGED <<project, sources>> /\ LinksOnly

LinkStates ==
    /\ phase = "states"
    /\ Link("states", "common")
    /\ IF props.projects = {} THEN Enter("main.sls", {})
       ELSE Enter("projects", props.projects)
    /\ UNCHANGED <<project, sources>> /\ LinksOnly

\* The variable of the loop is the parameter project_name.
LinkProject(p) ==
    /\ phase = "projects" /\ p \in todo
    /\ project' = p
    /\ Link(p, p)
    /\ IF todo = {p} THEN Enter("main.sls", {}) ELSE Enter("projects", todo \ {p})
    /\ UNCHANGED sources /\ LinksOnly

LinkMain ==
    /\ phase = "main.sls"
    /\ Link("main.sls", project)
    /\ Enter("layers", 1 .. Len(Layers))
    /\ UNCHANGED <<project, sources>> /\ LinksOnly

\* `commons` is in the common states repository, `defaults` in that of the
\* project and `overrides` in the repositories of pillars of the profile.
LayerTarget(name) ==
    CASE name = "commons" -> "common"
      [] name = "defaults" -> project
      [] name = "overrides" -> props.project

LinkLayer(i) ==
    /\ phase = "layers" /\ i \in todo
    /\ \A j \in todo : i <= j
    /\ Link(Layers[i], LayerTarget(Layers[i]))
    /\ IF todo = {i} THEN Enter("backup", {}) ELSE Enter("layers", todo \ {i})
    /\ UNCHANGED <<project, sources>> /\ LinksOnly

-----------------------------------------------------------------------------
(* The configuration of the Salt master *)

ScriptOnly == UNCHANGED <<props, todo, project, completed, links, sources>>

\* Mutant of BackUp: there is a backup from the first run, that is enough.
BackUpOnce ==
    /\ phase = "backup"
    /\ IF last # Missing
       THEN phase' = "load" /\ UNCHANGED <<backup, stamp, rushed>>
       ELSE /\ backup' = [backup EXCEPT ![time] = conf]
            /\ stamp' = time
            /\ rushed' = (rushed \/ backup[time] \in Conf)
            /\ phase' = "last"
    /\ UNCHANGED <<loaded, conf, last, saltVars, time, wanted, since, unstopped,
                   edits, failures, runs>>
    /\ ScriptOnly

\* Backups are named by the second, and one as the last is not taken again.
BackUp ==
    /\ phase = "backup"
    /\ IF last # Missing /\ last = conf
       THEN phase' = "load" /\ UNCHANGED <<backup, stamp, rushed>>
       ELSE /\ backup' = [backup EXCEPT ![time] = conf]
            /\ stamp' = time
            /\ rushed' = (rushed \/ backup[time] \in Conf)
            /\ phase' = "last"
    /\ UNCHANGED <<loaded, conf, last, saltVars, time, wanted, since, unstopped,
                   edits, failures, runs>>
    /\ ScriptOnly

CopyLast ==
    /\ phase = "last"
    /\ last' = backup[stamp]
    /\ phase' = "load"
    /\ UNCHANGED <<loaded, stamp, conf, backup, saltVars, bounds>> /\ ScriptOnly

\* Mutant of Load: what does not parse is taken as it is.
LoadAnything ==
    /\ phase = "load"
    /\ loaded' = conf /\ since' = {wanted}
    /\ phase' = "dump"
    /\ UNCHANGED <<stamp, confVars, saltVars, time, wanted, rushed, unstopped,
                   edits, failures, runs>>
    /\ ScriptOnly

\* An empty file loads as an empty configuration.
Load ==
    /\ phase = "load"
    /\ conf \in Conf
    /\ loaded' = conf /\ since' = {conf.custom}
    /\ phase' = "dump"
    /\ UNCHANGED <<stamp, confVars, saltVars, time, wanted, rushed, unstopped,
                   edits, failures, runs>>
    /\ ScriptOnly

Dump ==
    /\ phase = "dump"
    /\ conf' = [loaded EXCEPT !.own = TRUE]
    /\ phase' = "keys"
    /\ UNCHANGED <<loaded, stamp, backup, last, saltVars, bounds>> /\ ScriptOnly

-----------------------------------------------------------------------------
(* The Salt master *)

SaltOnly == UNCHANGED <<loaded, stamp, confVars, bounds>> /\ ScriptOnly

DeleteAllMinionKeys ==
    /\ phase = "keys"
    /\ accepted' = FALSE
    /\ phase' = "stop"
    /\ UNCHANGED <<running, enabled>> /\ SaltOnly

\* Mutant of StopMaster: it is only started.
StopMasterNot ==
    /\ phase = "stop"
    /\ phase' = "enable"
    /\ UNCHANGED saltVars /\ SaltOnly

\* A stop that fails is ignored: nothing was running, or it runs on.
StopMaster ==
    /\ phase = "stop"
    /\ \/ running' = Nothing /\ UNCHANGED <<unstopped, failures>>
       \/ /\ running # Nothing /\ UNCHANGED running
          /\ failures < MaxFailures /\ failures' = failures + 1
          /\ unstopped' = TRUE
    /\ phase' = "enable"
    /\ UNCHANGED <<enabled, accepted, loaded, stamp, confVars, time, wanted, since,
                   rushed, edits, runs>>
    /\ ScriptOnly

EnableMaster ==
    /\ phase = "enable"
    /\ enabled' = TRUE
    /\ phase' = "start"
    /\ UNCHANGED <<running, accepted>> /\ SaltOnly

\* Starting one that is running does nothing; without a configuration it ends.
StartMaster ==
    /\ phase = "start"
    /\ running' = IF running # Nothing THEN running
                  ELSE IF conf \in Conf THEN conf ELSE Nothing
    /\ phase' = "init_states"
    /\ UNCHANGED <<enabled, accepted>> /\ SaltOnly

\* The Salt master accepts (auto_accept) and has states and pillars to serve.
Serves == running \in Conf /\ running.own /\ links["overrides"] # Missing

\* ensure_source_link.sh: a link that points elsewhere is an error.
Linkable == sources \in {Missing, links["overrides"]}

\* With the process, what it has in memory is gone.
Ended ==
    /\ phase' = "idle" /\ todo' = {} /\ loaded' = Empty /\ stamp' = 0

\* salt-call of common.source_symlinks and common.resource_symlinks
RunInitStates ==
    /\ phase = "init_states"
    /\ Serves /\ Linkable
    /\ sources' = links["overrides"]
    /\ accepted' = TRUE
    /\ completed' = TRUE
    /\ Ended
    /\ UNCHANGED <<props, project, links, confVars, running, enabled, bounds>>

-----------------------------------------------------------------------------
(* Failures *)

Raise ==
    /\ \/ phase = "load" /\ conf \notin Conf
       \/ phase = "init_states" /\ ~(Serves /\ Linkable)
    /\ Ended
    /\ UNCHANGED <<props, project, completed, links, sources, confVars, saltVars,
                   bounds>>

\* The link that a command replaces: removed, and not yet there again.
Unlinked ==
    CASE phase \in {"alias", "states", "main.sls"} -> {phase}
      [] phase = "projects" -> todo
      [] phase = "layers" -> {Layers[i] : i \in {j \in todo : \A k \in todo : j <= k}}
      [] OTHER -> {}

\* What an interrupted dump leaves: a part that loads or does not.
Parts == {Torn} \cup [custom : {loaded.custom, Nothing}, own : BOOLEAN]

AtBoot(c) == IF enabled /\ c \in Conf THEN c ELSE Nothing

\* A command fails, the script is killed, or the host goes down and comes up.
Fail ==
    /\ phase # "idle"
    /\ failures < MaxFailures /\ failures' = failures + 1
    /\ links' \in {links} \cup {[links EXCEPT ![l] = Missing] : l \in Unlinked}
    /\ backup' \in {backup} \cup (IF phase = "backup" /\ last # conf
                                  THEN {[backup EXCEPT ![time] = Torn]} ELSE {})
    /\ rushed' = (rushed \/ (backup' # backup /\ backup[time] \in Conf))
    /\ last' \in {last} \cup (IF phase = "last" THEN {Torn} ELSE {})
    /\ conf' \in {conf} \cup (IF phase = "dump" THEN Parts ELSE {})
    /\ running' \in {running, AtBoot(conf')}
    /\ Ended
    /\ UNCHANGED <<props, project, completed, sources, enabled, accepted, time, wanted,
                   since, unstopped, edits, runs>>

-----------------------------------------------------------------------------
(* The operator, the clock and other runs of the states *)

EditConf(v) ==
    /\ edits < MaxEdits /\ edits' = edits + 1
    /\ conf \in Conf /\ v # conf.custom
    /\ conf' = [conf EXCEPT !.custom = v]
    /\ wanted' = v /\ since' = since \cup {v}
    /\ rushed' = (rushed \/ phase \in {"last", "load", "dump"})
    /\ UNCHANGED <<scriptVars, links, sources, backup, last, saltVars, time, unstopped,
                   failures, runs>>

\* From a backup or, if that is lost, anew.
RestoreConf ==
    /\ phase = "idle"
    /\ conf = Torn
    /\ conf' = [custom |-> wanted, own |-> FALSE]
    /\ UNCHANGED <<scriptVars, links, sources, backup, last, saltVars, bounds>>

\* The clock is only read there.
Tick ==
    /\ phase = "backup"
    /\ time < MaxTime /\ time' = time + 1
    /\ UNCHANGED <<scriptVars, links, sources, confVars, saltVars, history, edits,
                   failures, runs>>

\* Another run of the states links the sources of the pillars there are.
OtherStates ==
    /\ Serves
    /\ sources = Missing
    /\ failures < MaxFailures /\ failures' = failures + 1
    /\ sources' = links["overrides"]
    /\ UNCHANGED <<scriptVars, links, confVars, saltVars, time, history, edits, runs>>

-----------------------------------------------------------------------------
\* An installed Salt master, configured by its operator or not yet.
Init ==
    /\ props \in Properties
    /\ phase = "idle" /\ todo = {} /\ project = "common" /\ stamp = 0
    /\ completed = FALSE
    /\ links = [l \in Links |-> Missing] /\ sources = Missing
    /\ conf \in [custom : Settings \cup {Nothing}, own : {FALSE}]
    /\ loaded = Empty /\ wanted = conf.custom /\ since = {}
    /\ backup = [t \in Time |-> Missing] /\ last = Missing
    /\ time = 0 /\ rushed = FALSE /\ unstopped = FALSE
    /\ enabled \in BOOLEAN /\ running = IF enabled THEN conf ELSE Nothing
    /\ accepted = FALSE
    /\ edits = 0 /\ failures = 0 /\ runs = 0

Script ==
    \/ RemoveOldLinks \/ LinkAliases \/ LinkStates \/ LinkMain
    \/ \E p \in Projects : LinkProject(p)
    \/ \E i \in 1 .. Len(Layers) : LinkLayer(i)
    \/ BackUp \/ CopyLast \/ Load \/ Dump
    \/ DeleteAllMinionKeys \/ StopMaster \/ EnableMaster \/ StartMaster
    \/ RunInitStates \/ Raise

StartAny == \E p \in Properties : Start(p)

Environment ==
    \/ RestoreConf \/ Tick \/ OtherStates
    \/ \E v \in Settings : EditConf(v)

Next == Script \/ StartAny \/ Fail \/ Environment

Spec == Init /\ [][Next]_vars

\* The script runs on; the operator runs it until it completes and restores a
\* configuration that does not load.
FairSpec ==
    /\ Spec
    /\ WF_vars(Script) /\ WF_vars(~completed /\ StartAny) /\ SF_vars(RestoreConf)

-----------------------------------------------------------------------------
(* Properties *)

Phases ==
    {"idle", "clean", "alias", "states", "projects", "main.sls", "layers", "backup",
     "last", "load", "dump", "keys", "stop", "enable", "start", "init_states"}

\* Type invariant.
TypeOK ==
    /\ props \in Properties /\ phase \in Phases
    /\ todo \subseteq Projects \cup 1 .. Len(Layers)
    /\ project \in Targets /\ loaded \in Conf /\ stamp \in Time
    /\ links \in [Links -> Targets \cup {Missing}]
    /\ sources \in Targets \cup {Missing}
    /\ conf \in Conf \cup {Torn}
    /\ backup \in [Time -> Conf \cup {Torn, Missing}]
    /\ last \in Conf \cup {Torn, Missing}
    /\ time \in Time /\ running \in Conf \cup {Nothing} /\ enabled \in BOOLEAN
    /\ accepted \in BOOLEAN /\ completed \in BOOLEAN
    /\ wanted \in Settings \cup {Nothing} /\ since \subseteq Settings \cup {Nothing}
    /\ rushed \in BOOLEAN /\ unstopped \in BOOLEAN
    /\ edits \in 0 .. MaxEdits /\ failures \in 0 .. MaxFailures /\ runs \in 0 .. MaxRuns

Holds(c) == c \in Conf /\ c.custom = wanted

\* What the operator has set in /etc/salt/master is there or in a backup that is
\* whole and named by its second, wherever runs of the script are killed.
SettingsKept == rushed \/ Holds(conf) \/ \E t \in Time : Holds(backup[t])

\* "Make sure `main.sls` is a symlink to `main.sls` under `states` directory of
\* required project": so it is, and the pillars are that project's, unless there
\* are several and the loop has ended on another one, which is then linked.
OfProject(name) ==
    links[name] = IF props.projects \subseteq {props.project} THEN props.project
                  ELSE project

\* A run that completed, after whatever others were cut short or were for other
\* projects, leaves all links to its project, a configuration with its keys and
\* a Salt master that runs with it, not with one from before it was loaded,
\* unless the old one could not be stopped.
Configured ==
    completed =>
        /\ OfProject("main.sls") /\ OfProject("defaults")
        /\ links["alias"] = props.project /\ links["overrides"] = props.project
        /\ links["states"] = "common" /\ links["commons"] = "common"
        /\ \A p \in props.projects : links[p] = p
        /\ sources = props.project /\ accepted
        /\ conf \in Conf /\ conf.own
        /\ running \in Conf /\ running.own /\ (unstopped \/ running.custom \in since)

\* No failure leaves a host on which the script cannot complete, a damaged
\* configuration excepted, which the operator restores.
ConfiguredInTheEnd == <>[]completed
=============================================================================
