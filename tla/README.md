# A verification project for common-salt-states

TLA+ models of the programs in this repository that keep state, TLC
configurations that check them on small instances, and theorems that TLAPS
proves for every instance. Paths below are relative to the repository
(`src/` in `PROJECT.json`).

Contents: [the system](#the-system), [the modules](#the-modules),
[the incremental report](#the-incremental-report),
[the bootstrap deployment](#the-bootstrap-deployment),
[the Salt master's configuration](#the-salt-masters-configuration),
[the build branches](#the-build-branches),
[the orchestration](#the-orchestration),
[the highstate job and its output](#the-highstate-job-and-its-output),
[runs](#runs), [proofs](#proofs), [findings](#findings),
[limitations of the code](#limitations-of-the-code),
[what is left out](#what-is-left-out), [plan](#plan).

## The system

The repository is a set of Salt states with the programs they install. Most of
its files are declarative (`*.sls`, pillar data, package lists): Salt renders and
applies them, and the logic is Salt's. The programs with logic of their own are:

| Component | State it keeps | Operations | What makes it correct |
|---|---|---|---|
| Incremental Maven report: `states/common/maven/artifacts/process_maven_data.py`, `verify.sh` | a YAML report with one entry per artifact descriptor and per pom file: step logs, stages, counters | `get_incremental_report` (passes over shuffled items, four stages each), interrupts, kills, removal of entries, `clean` | the verdict depends on the inputs alone: not on the shuffle, on retries, or on how earlier runs ended; the loop ends; what was verified stays verified |
| Bootstrap deployment: `states/bootstrap/bootstrap.dir/modules/context.py`, `actions/deploy.py`, `steps/deploy/*` | files under `/etc` and `/srv`, yum repositories and their backup, accounts, installed Salt, services, the keys the master accepts | `do_action` runs the deploy steps in order; a failing step ends it; the operator runs it again | a run that completes leaves what its steps are to leave, on whatever earlier runs left; nothing they left prevents it |
| Salt master configuration: `configure_salt.py` | links below `/srv`, `/etc/salt/master` and its backups, the Salt master | link, back up, load, dump, restart, run the initial states | a run that completes leaves the links of its project and a master that runs with the configuration written; a rerun repairs what a killed one left; the operator's settings are not lost |
| Bootstrap package build: `actions/build.py`, `steps/build/*`, `utils/archive.py` | directory with the package's contents, the archive | copy steps, then archive | the archive holds a complete package |
| Salt output checker: `modules/utils/check_salt_output.py` | none | split the stream of JSON objects, judge each state result | success is reported only if every result of every minion is a success |
| Hosts file patcher: `modules/utils/hosts_file.py` | `/etc/hosts`, its backup | parse, diff, patch, save | the pillar's hosts resolve, other lines stay, patching twice changes nothing more |
| Source and resource links: `steps/deploy/link_sources`, `link_resources`, `source_symlinks/ensure_source_link.sh` | symbolic links | remove and make links per project | links of the selected project, never another's |
| Orchestration stages: `states/common/orchestrate/*` | stage flag files | `run_all_stages`: states required in the order of the stages' prerequisites | no stage runs before its prerequisites; a run that passes has deployed the hosts there are; every stage is reached |
| Jenkins pipelines: `states/common/jenkins/configure_jobs_ext/*`, `scripts/check_running_jobs.sh` | the git repositories of a work space; build descriptors handed from job to job; jobs, builds, promotions | put repositories on build branches and take them off again; run highstate and orchestration and check them | no local work of a developer is lost, a build holds what it says, and can be reverted; a job's verdict is about what it has started |
| SSH keys, pillar checks, git scripts | none | straight-line scripts | they succeed or fail as a whole |

How they interact: `bootstrap.py` installs Salt, calls `configure_salt.py` and runs
`state.highstate`, whose output the checker judges, and whose states install the
other programs; the orchestration runs the same states in the order of its
stages on several minions; the Jenkins jobs run both again; `verify.sh` is run
by an operator, or by a job, on the host with the sources.

What is hard: one-at-a-time programs that are killed or fail half way and are
then run again on what they left (the report, the bootstrap), order dependence
hidden by shuffling (the report), partial order of stages on several hosts
(orchestration), chains of jobs that are cut short and leave a developer's
repositories somewhere between two branches (Jenkins), minions that begin, answer
and return late or never (the highstate job). There are no threads, and no
messages other than Salt's and Jenkins's own. `PROJECT.json` lists the hazards
at their lines.

## The modules

| Module | What it is |
|---|---|
| `IncrementalReport` | the report of `process_maven_data.py`: state, one action per step, correctness properties |
| `ReportVerdict` | the abstract specification: what the report promises its reader |
| `IncrementalReportInvariant` | the inductive invariants, as conjunctions of named parts |
| `IncrementalReportProofs` | type correctness, order of the stages, soundness, kept stages, progress of the passes, the counters, the assertion; that the report implements `ReportVerdict` |
| `MCIncrementalReport` | small worlds (pillars and pom files) for TLC |
| `BootstrapDeploy` | the deploy action on several hosts: state, one action per step, correctness properties |
| `BootstrapDeployProofs` | its type correctness, what a completed run leaves, the repositories, the master's configuration |
| `MCBootstrapDeploy` | small networks for TLC |
| `ConfigureSalt` | `configure_salt.py`, the links it makes and the backups it takes |
| `ConfigureSaltProofs` | type correctness, kept settings, what a completed run leaves |
| `MCConfigureSalt` | a Salt master used for two projects, for TLC |
| `BuildBranches` | the jobs that put the repositories on build branches and take them off |
| `BuildBranchesProofs` | type correctness; what is off its branch can be brought back |
| `BuildBranchesWorkProofs` | no local work is lost; what is recorded and built; what a reset restores |
| `MCBuildBranches` | small work spaces for TLC |
| `Orchestrate` | stages, flag files and the job that runs the orchestration |
| `OrchestrateProofs` | type correctness, order of the stages, what a pass stands for, why one run is enough |
| `MCOrchestrate` | the stages of the common profile: order, prerequisites, states |
| `SaltOutput` | `check_salt_output.py` as functions on outputs, and a reference |
| `SaltOutputProofs` | its verdict on every output that Salt commands print |
| `RunHighstate` | the job that submits a highstate, waits for it and checks what it returned; extends `SaltOutput` |
| `RunHighstateProofs` | type correctness; it waits for every highstate it can know of; its verdict is the reference's. Extends `SaltOutputProofs` |
| `MCRunHighstate` | minions and what they return, for TLC |

`RunHighstate` composes with the checker of `SaltOutput`. The others share no
state: `configure_salt.py` and the bootstrap run one after the other on one host
(`ConfigureSalt` starts from a host on which Salt is installed), and
`Orchestrate` takes from the checker that a run passes iff no result fails.

## The incremental report

`verify.sh` collects the pillar and the pom files, then calls
`get_incremental_report`. Each artifact descriptor of the pillar and each pom
file is an item; an item goes through `inited`, `transferred`, `loaded`,
`verified` (`stage_order`). A stage logs steps as True or False; the stage
succeeds if no step of the item is False. Verifying an item reads other items:
an artifact needs its pom file's entry, a pom file needs the entries of all the
artifacts its effective XML and its `dependency:list` name. Since items are
shuffled, some are verified too early and fail; the passes are repeated while
any item progresses. The report is saved before the first pass and after each,
also by `finally` when a pass raises or is interrupted, and the next run
resumes from it.

State and code:

| Variable | Code |
|---|---|
| `pillar`, `tree` | the two input files: artifact descriptors, and what is on disk for each pom file |
| `file`, `loads` | the saved report, and whether `yaml.load` accepts it |
| `report` | `report_data`, with the fields `is_<stage>` (`passed`), `last_stage_result`, `is_progressed`, the step logs that are False (`failed`), `reference_counter` (`refs`), `overall_result`; and `torn`, the entries a cut save left incomplete |
| `pc`, `after`, `queue`, `cur`, `stage` | where the process is: saving and what follows, the items left in this pass, the item and its stage |
| `outcome` | how the last run ended |
| `outdated` | history: pom files verified against an entry that was cut, lost or removed since |

| Action | Code |
|---|---|
| `Start`, `Save` | loading, `associate_report_data_item_descriptors`, `save_yaml_file` |
| `BeginItem`, `SkipStage`, `RunStage`, `RaiseInStage`, `RecordStage` | `process_all_stages` and `progress_stage`; `StageFailures` and `StageCounts` are what the `get_<stage>` methods log and count |
| `EndPass`, `NextPass`, `Finish` | the loop of `get_incremental_report`, `detect_progressed_descriptors`, `get_overall_result` |
| `Interrupt`, `Kill` | `KeyboardInterrupt` in a pass; death of the process anywhere; in `save_yaml_file` it leaves what `CutShort` says |
| `EditPillar`, `RemoveFromReport`, `Clean` | what an operator does between runs |

Abstractions:

- A descriptor is reduced to what the stages tell apart: whether it is there,
  passes the checks of `get_inited`, fails one or makes it raise; whether it is
  `used`; its pom file; its accepted versions.
- `RunStage` is one step. The code logs the steps of a stage one by one, which
  shows only when a stage is left half way: `RaiseInStage` and `Interrupt` save
  a part of the logs.
- A pom file refers to an artifact at most once in its XML and once in its
  `dependency:list`.
- Pom files do not change while the report is in use; pillar and report do.
- `save_yaml_file` truncates the report and writes block-style YAML with sorted
  keys. A save cut short (`CutShort`) does not load, or is a report without
  entries from some place on, in the order YAML writes them; the last of those
  left may itself be incomplete. Of its fields those up to some key are there:
  `is_inited` before `is_loaded` before `is_transferred` (`CutStages`), so that a
  stage may be kept while an earlier one is lost; the value the cut fell into may
  read as something else. Such an entry is `torn` until it is removed:
  `get_inited` and the others read fields that are not there or are half there,
  so a stage of it may log anything they can log (`Outcomes`) or raise
  (`MayRaise`, `BeginItem`). This allows more than the code does, as which fields
  exactly are left is not kept. Sub-keys of `step_logs` are not told apart from
  the loss of that field.
- Maven and the copy of pom files are nondeterministic: they may raise.

Correctness properties:

- `VerdictMatchesReference`: a run that gives a verdict has verified exactly the
  items that meet the descriptors in the report (`Meets` says so of the inputs
  alone), and its exit code says whether these are all. Of `torn` entries this is
  not so, as no run makes them anew, and what refers to one may stay unverified
  though it meets the descriptors; but it is never verified when it does not,
  unless it was verified against the entry before the cut (`outdated`).
- `ImplementsVerdict`: runs, with every interrupt and kill, implement
  `ReportVerdict`, which promises nothing of the entries that a cut save has
  damaged (`Damaged`) and everything of the others: what was verified stays, a
  verdict comes when nothing is left to verify, success is never wrong of them.
- `StagesInOrder`, `VerifiedIsClean`, `SavedStagesStick`: stages are prefixes of
  `stage_order` and never skipped (a `torn` entry may lack the flag of an earlier
  stage, but the stage is then run before any later one); nothing is logged into
  an item that is done; a saved stage is lost only with its entry, or by the very
  kill that cuts into it, and not by the runs after it.
- `AssertionHolds`: the assertion in `process_all_stages`.
- `RunEnds`: every run ends. `PassesProgress` is why: a pass is only repeated
  when an item has passed a stage that the report saved before the pass has not.
- `ReferencesCounted`: when everything was verified, no reference is missed by
  the counters, though they are filled while verifying, by passes that fail and
  are repeated in other orders, across interrupted runs. It holds of the first
  run, and of later ones as long as no entry was removed or lost (`Untouched`):
  an entry that is made anew starts counting at 0, and those that refer to it
  are not verified again. Counters may be too large (see the
  [limitations](#limitations-of-the-code)).

## The bootstrap deployment

`bootstrap.py deploy <use case> <target>` runs on the host to deploy, from the
directory where a bootstrap package was unpacked. `do_action` takes the steps of
`action_step_ordered_execution_list`, skipping those of other use cases and
those whose `step_enabled` is False. A step is a sequence of commands and file
operations; the first that fails raises, and the process ends. There is no record of what was
done: the operator runs the script again and it starts at the first step. Two
use cases share hosts: `initial-online-node` installs and starts Salt, and
`offline-minion-installer` installs the minion and applies the states by
itself (`--local`). One host is the Salt master, which an online run of any host,
itself included, calls in `run_init_states`.

| Variable | Code |
|---|---|
| `host[h].conf` | the files and links that are written as a whole (`Setting`): `gateway` and `hostname` are lines of `/etc/sysconfig/network` on rhel5 (`hostname` is `/etc/hostname` on rhel7); `repo_list`, `rpm_keys`, `sources` stand for the files of one copy loop |
| `host[h].route`, `name` | default route and hostname now in use, as opposed to the ones a reboot gives |
| `host[h].salt` | the entry for `salt` in `/etc/hosts` |
| `host[h].repos`, `backup` | `/etc/yum.repos.d` and `/etc/yum.repos.d.backup.salt.bootstrap` |
| `host[h].rpms`, `installed` | rpm files in the package's directory `rpms`; installed Salt of each role |
| `host[h].enabled`, `running` | services; for a running one, the configuration it started with |
| `keys` | minion keys the Salt master accepted |
| `run`, `step`, `completed` | use case and package of the last run on each host, its position, whether it reached the end |
| `unstopped` | history: the stop of the Salt master failed in that run |

A value of a setting names the run that wrote it, as far as its content depends
on it (`Content`), or is `Original`, `Missing` (the line is not there) or
`Damaged` (a copy cut short).

| Action | Code |
|---|---|
| `Start`, `SkipStep`, `Proceed`, `Raise`, `Fail` | `ActionContext.do_action`; the exception of a command (`exec_command.py`), a kill |
| `UnlockNode` ... `RunHighstate` | the `do` of each step, rhel5 and rhel7 (and Fedora, which uses its steps) where they differ |
| `RestartMaster`, `KeepMaster` | `ensure_salt_master_activation` (`ActivateSaltMaster`): the commands in order, or the same with a stop that fails and is ignored |
| `Reboot` | the operating system: routes, hostname and services as configured |
| `Reconnect`, `Served` | Salt: a minion offers its key again; what the master needs in order to answer (external) |

Each step takes some number `k` of its commands (`Outcome`): all, or up to one
that fails or is cut short by a kill. `Written` and `Installed` say what the first `k`
left, a torn copy included. Some commands cannot succeed (`stuck`): they raise
in every run until the state is different.

Abstractions:

- A command either has its effect or not; only copies can be torn. Appending
  the entries to `/etc/hosts` is one write; the backup of that file is
  left out. `ping` may fail at any time.
- The directory `rpms` is the package's own (scripts run from where the package
  was unpacked, `docs/bootstrap/deploy.md`), so `rpms` is indexed by package.
- The rpm scripts of Salt neither start nor stop a service.
- What a package's content is does not matter, only whose it is. What the
  states applied at the end configure is not modelled, nor the Windows steps.

Correctness properties:

- `DeploymentHolds`: after a run completed, everything its steps are to leave
  (`Done`) is there, from this run's package and use case; reboots keep it. This
  is a claim about all steps together: a later one must not undo an earlier one,
  and each must do its work on what any earlier run left in its files.
- `OriginalReposKept`: no order of failures and reruns loses the repositories
  the operating system came with.
- `MasterUsesItsConfiguration`: after an online run the Salt master runs with
  that run's configuration, though it may have been started earlier, or by
  a reboot, with another one or with a torn file; unless it could not be stopped
  in that run (`unstopped`), which `rhel5.py` ignores: the start that follows
  does nothing (`KeepMaster`) and the run completes.
- `EveryHostIsDeployed`: no failure leaves a host a rerun cannot repair, and
  hosts that depend on each other come to be deployed together. Its premise,
  `[]<>~LeftoverRpms`, leaves out the one case where this is not so (see the
  [limitations](#limitations-of-the-code)).

## The Salt master's configuration

`configure_salt.py` takes a properties file that names a project, the
repositories of states of some projects and the repositories of pillars. It
removes the links to old sources, makes the links below `/srv`, backs up
`/etc/salt/master`, loads it, sets its keys and dumps it, deletes the minions'
keys, restarts the Salt master and has the states link sources and resources.
It keeps no record: after a failure, or for another project, it runs from its
first command.

| Variable | Code |
|---|---|
| `props`, `phase`, `todo`, `project`, `loaded`, `stamp` | the properties and local variables of the script, and where it is; `project` is `project_name` of `set_salt_states_and_pillars_symlinks`, which its loop over the projects assigns |
| `links`, `sources` | the links below `/srv`, by the project their target belongs to; one link per layer of pillars stands for its two |
| `conf`, `backup`, `last` | `/etc/salt/master`, its backups by second, and `.backup.last` |
| `running`, `enabled`, `accepted` | the Salt master: the configuration it runs with, whether it starts at boot, whether it has accepted the minion of its host |
| `wanted`, `since`, `rushed`, `unstopped` | history: what the operator has set last, what has been set since the configuration was loaded, whether two backups fell into one second or an edit between backup and dump, and whether the stop of the last run failed |

A configuration has two parts: what the operator has set (`custom`) and the
keys the script sets (`own`). `Torn` is a file that does not load.

| Action | Code |
|---|---|
| `Start`, `RemoveOldLinks`, `LinkAliases`, `Load`, `Dump`, `DeleteAllMinionKeys`, `RunInitStates` | the sections of `configure_salt.py` |
| `LinkStates`, `LinkProject`, `LinkMain`, `LinkLayer` | `set_salt_states_and_pillars_symlinks` |
| `BackUp`, `CopyLast` | `do_backup` of `hosts_file.py` |
| `StopMaster`, `EnableMaster`, `StartMaster` | `ensure_salt_master_activation`; a stop that fails is ignored (`raise_on_error = False`), and a start of what runs does nothing |
| `Raise`, `Fail` | an exception; a command that fails, a kill, a reboot. A link, copy or dump can be cut short |
| `EditConf`, `RestoreConf`, `Tick`, `OtherStates` | the operator, the clock and other runs of the states, which link sources (`ensure_source_link.sh`) where there is no link |

Correctness properties:

- `SettingsKept`: what the operator has set last is in the configuration or in
  a whole backup named by its second, unless the run was `rushed`. It takes the
  comparison with the last backup, the two copies, the load and the dump
  together: a torn `.backup.last` must not make the next run skip its backup.
- `Configured`: a completed run leaves the links to its project and to each
  project's states, and a Salt master that runs with a configuration that has the
  script's keys and settings from since it was loaded, whatever runs for whichever
  projects came before. Two things the code does are not held against it:
  of several projects `main.sls` and the layer `defaults` must be those of the one
  the loop over the projects ends on, which is the selected one whenever there is
  no other (`OfProject`), and a master that could not be stopped keeps its
  settings (`unstopped`). Both are among the
  [limitations](#limitations-of-the-code).
- `ConfiguredInTheEnd`: nothing a failed run leaves keeps later ones from
  completing but a configuration that does not load, which the operator restores.

## The build branches

A chain of Jenkins jobs builds what a developer has in several git repositories,
committed or not: `start_new_build`, `reset_previous_build`,
`describe_repositories_state`, `create_build_branches` and then the jobs that
build. `create_build_branches` makes of every repository's local changes a commit
on a detached `HEAD` (the restore point), and a build branch from it or from
a parent build. `reset_previous_build`, first in every chain and in the poll
pipeline, takes the repositories back to the developer's branches and puts the
local changes back. What one job knows it tells the next in descriptors, YAML
files.

| Variable | Code |
|---|---|
| `branch`, `head`, `at`, `tree`, `stash` | of every repository: branches, what is checked out, the commit of a detached `HEAD`, the work tree, stashes. A commit is its content, a content a version per file |
| `latest`, `job`, `recovery`, `history`, `unclean` | the descriptors on disk: the one handed on, the job's own, the one to recover from, the ones committed per build title, and whether that repository has changes not committed |
| `phase`, `todo`, `cur`, `status` | which loop of which job runs, repositories left, the one in hand, `JOB_STATUS` |
| `build` | the chain's parameters: a fresh build, a rebuild of a parent, a check-out of one, or the poll pipeline |
| `approved` | the flag file `approve_jenkins_poll_pipeline`, which the user makes and removes |
| `work`, `before` | history: local work of the developer, and what `create_build_branches` found |

| Action | Template |
|---|---|
| `StartNewBuild` | `init_pipeline-start_new_build.xml`, which requires the flag file too |
| `StartPoll` | `poll_pipeline-verify_approval.xml`: the timer is that job's (`00-01`), which starts `00-02-poll_pipeline-reset_previous_build` if it succeeds, and is unstable without the flag file |
| `BeginReset` ... `ForgetBuild` | `init_pipeline-reset_previous_build.xml`, one action per git command that changes something |
| `PullBranch` | `poll_pipeline-update_sources.xml` |
| `DescribeRepositories` | `init_pipeline-describe_repositories_state.xml` |
| `BeginCreate` ... `CreateBranch` | `init_pipeline-create_build_branches.xml` |
| `TellNextJob`, `KeepInHistory` | the macro `update_dynamic_build_descriptor` |
| `CommitGenerated`, `EndBuild` | commits of later jobs on the build branch; the end of the chain |
| `Refuse`, `Interrupt` | a test or a checkout that fails for what it finds; a command that fails for another reason, or a job that is killed, in the phases `FailAt` |
| `EditFiles`, `CommitFiles`, `MergeInto`, `RepairHead`, `CleanHistory` | the developer |
| `Approve`, `Withdraw` | the user makes and removes the flag file |

`git checkout` is `Fits` and `Carried`: local changes go along unless a changed
file differs between the two commits. Merging the restore point into a build
branch that has just been made is one step with making it. One chain runs at a
time, which the templates presuppose (`promotion-template.xml`: "Maintains
single active/running pipeline at a time"); how Jenkins sees to it is not modelled.

Correctness properties:

- `WorkKept`: every local work is in a work tree, a stash or a restore point
  that a recovery will find, at every moment of every job and after every kill.
- `ResetRestores`: a reset that does not fail gives back the branch and, if that
  has not moved, the local changes that the build found.
- `BuildRecorded`, `WorkIsBuilt`: what later jobs find is on the build branch, is
  what the descriptors name, in the history too, and is the developer's work (a
  rebuild: the parent's).
- `RecoveryPending`: a repository off the developer's branches has a recovery
  descriptor; `RevertedInTheEnd`: and is brought back, if the user's approval
  of the polls is there from some time on.
- `WorkRestored`, violated: see the findings.

## The orchestration

`run_salt_orchestrate` of the deploy pipeline runs
`common.orchestrate.run_all_stages`. A stage is a file of Salt states with a flag
file on the Salt master. Its states require the flag files of its
prerequisites; the flag file is made when the states of
`orchestrate_dep_list` have succeeded, unless it is one to be made by hand.

| Variable | Code |
|---|---|
| `flags` | the flag files |
| `inForce` | states that have succeeded on the hosts there are |
| `at`, `checked`, `result`, `made` | a run: its stage, and the results of its `file.exists` states, its `salt.state`s and the states of the flag files |
| `outcome`, `auto` | of the last run; the stages with `enable_auto_creation` |
| `trouble` | history: something has failed of its own, or a flag file is to be created by hand |

| Action | Code |
|---|---|
| `BeginRun`, `GiveUp`, `EndRun`, `KillRun` | `deploy_pipeline-run_salt_orchestrate.xml`, its `test.ping` loop and the check of the output |
| `CheckFlag`, `MakeFlag`, `NextStage` | the macros of `orchestrate/lib.sls`; `run_all_stages.sls` |
| `RunSaltState` | a `salt.state` or `salt.function` of a stage: it succeeds, fails or is skipped |
| `CreateByHand`, `DestroyHosts` | the user; the jobs that destroy and instantiate the hosts |

`CheckFlag` records what the file was when it was looked at: Salt executes a
state once per run, so a flag file made later is not seen. `MCOrchestrate` has
the twelve stages of the common profile with their states and requisites.

Correctness properties:

- `StagesInOrder`: a state is executed only when the prerequisites of its stage
  are in force, in whichever run they came to be (until hosts are destroyed).
- `PassedMeansDeployed`: a run that passes has put every state in force on the
  hosts there are now, though the flag files may be older than the hosts.
- `OneRunSuffices`: a run fails only when something in it fails of its own or
  waits for the user; which is to say that the order of the stages suits their
  prerequisites (`OrderSuits`, an assumption TLC evaluates for the common profile).
- `DeployedInTheEnd`: failures, kills and flag files to be made by hand put the
  deployment off, but not for ever.

## The highstate job and its output

`run_salt_highstate` submits a highstate to all minions, polls with
`check_running_jobs.sh` until nothing runs, looks up the returns and has
`check_salt_output.py` judge them. A look-up that fails fails the job, as
its pipe to `tee` is run under `set -o pipefail` (`LookUp`).

`SaltOutput` has the checker as functions: `ObjectLines` splits the output into
objects by the first character of each line, `traverse_output_data` walks
through lists and dicts and takes a dict with a key `result` for the result of
a state, `describe_result` judges one, `consolidate_results` counts,
`check_output_data` gives the verdict. What raises an exception (an object that
does not parse, a failed result without a comment) is a failure. A value is a
number; its children are larger numbers, so that the walk is a recursive
function, and no value is below two others, as JSON has no references.
`ResultsIn` is the reference: the results reachable through nodes that are
none, without order, lines or recursion.

`RunHighstate` is the job with its minions: `highstate[m]` is where the
highstate of a minion is (published, running, returning, returned, lost), `other` the
minions on which another job runs. The poll hears the minions one after
the other (`Ask`, `NoAnswer`), while they begin and end.

Correctness properties:

- `VerdictMatchesReference`: for every output the job can see and check, it passes iff
  every result reachable succeeded and there are at least `MinCount`.
- `WaitsForRunning`: when the returns are looked up, no highstate runs but those
  of minions that had not begun when they were asked, or did not answer.
- `WaitEnds`: the job does not wait for ever, whatever is lost.

## Runs

`CHECK_DEADLOCK FALSE` because a system whose budget of runs is spent stops.

### `MCIncrementalReport`

All use two artifacts (`lib`, third-party; `app`, built here) and two versions,
and `passes` two pom files (`appPom` builds `app`; `topPom` uses both). That is
the least with which an item depends on another of each kind, in both directions
of the shuffle, and with a dependency that can fail after another has succeeded.
A descriptor of each shape and a pom file of each status occur in some world.
`restarts` leaves out `topPom`: a save can be cut in many places, and with
`appPom` alone there still is an artifact that depends on a pom file, a pom file
that depends on two artifacts, and an entry before and after each cut.

| Run | Worlds and bounds | Shows |
|---|---|---|
| `passes` | 7 pillars × 6 trees, 2 runs, 2 edits, counters to 8 | the verdict, the assertion, the counters and the progress of the passes for every kind of input and every shuffle; verdicts stay about the definitions in the report when the operator edits the pillar and the report |
| `restarts` | one pom file, which builds `app` and uses `lib`, valid or not; 4 pillars (`lib` valid, invalid, not used, of another version); 2 runs, 1 interrupt, 1 kill | refinement of `ReportVerdict`, order and persistence of stages across any way a run can end, and that each does end |
| `assertion` | as small as shows it | the [finding](#findings) |

Two runs are enough for `restarts`: one cut short, and one that must come to a
verdict on what it left, torn entries included. Longer histories are covered by the proof of
`ReportRefinesVerdict`. The counters saturate at 1 where they do not matter, and
at 8, twice the largest true value, where they do (retries count references
again).

Fairness: `FairSpec` is weak fairness of `Work`, the steps of the one
sequential process. Nobody is obliged to start a run or to edit anything.
`restarts` checks `RunEnds` under it. Interrupts and kills are bounded, but they
end a run and cannot put off its end.

### `MCBootstrapDeploy`

| Run | Hosts and bounds | Shows |
|---|---|---|
| `reruns` | a rhel5 master, 2 packages, both use cases, `/etc/hosts` with a right, a wrong and no entry for `salt`, 2 failures, 2 runs after completed ones | what a completed run leaves, on the remains of runs for other packages and use cases |
| `network` | a rhel5 master and a rhel7 node, online runs of one package, 2 failures | every host comes to be deployed, in whatever order and at whatever pace the two runs go; what a completed run leaves on rhel7 |

A failure is a command that fails, a kill or a reboot. Two of them are what the
interesting cases need: one that leaves a torn file and a reboot that starts a
service with it, or a failure between the two halves of an operation, and
another in the rerun that should have repaired it. A run that failed can be
repeated without limit; one after a completed run counts
as a rerun, and two allow online, offline and online again, or old, new and old.
In `network` there are no reruns of completed runs, so that everything that
happens comes from failures and the order of the two hosts. The proofs have
none of these bounds.

`network` starts with both lines in `/etc/sysconfig/network`
(`NetworkFileSet`), as an installed rhel5 has them; without them a reboot does
lose the route, which is one of the [limitations](#limitations-of-the-code).

Fairness in `FairSpec`: a script that runs takes its next step; the operator of
a host runs it until it has completed; a minion that was not accepted tries
again, as the Salt minion does. All are weak fairness, of each host by itself.
Failures are bounded, which is what "comes to" means: in the end nothing
fails for long enough.

### `MCConfigureSalt`

| Run | Bounds | Shows |
|---|---|---|
| `configure` | two properties files, for project `a` by itself and for `b` of `a` and `b`; one setting; 2 failures, 1 edit, 2 seconds, 1 run after a completed one | kept settings, what a completed run leaves, and that one completes |

Two failures allow one in the run that leaves something torn and one in the
rerun that should have repaired it; the second properties file has the loop
over the projects assign `project_name`. Two seconds are enough for a backup
with a date of its own and one in the same second. Failures include runs
of other states that link sources in between (`OtherStates`).

Fairness: the script runs on, the operator runs it until it completes (weak), and
restores a configuration that does not load (strong, as runs that raise come
in between).

### `MCBuildBranches`

| Run | Bounds | Shows |
|---|---|---|
| `builds` | a repository and one of pillars, one file in two versions, 2 branches, 2 builds (fresh, rebuild), 2 edits, 1 failure outside of the phases in which the restore points are taken | `WorkKept` and what a build and a reset leave |
| `reverts` | one repository, 2 branches, 2 builds of every kind, 1 edit, 1 failure anywhere | that a recovery is pending where one is needed, and is done in the end |
| `lost_work` | one repository and branch, 1 failure | the [finding](#findings) |
| `checked_out` | one repository and branch, a build that is only checked out, no failure | the [finding](#findings) |

Two repositories are the least in which a job can be cut short between them, two
builds in which the second chain finds what the first has left, and two
contents in which local work differs from its branch. `reverts` uses one
repository, as the temporal property costs more, and every kind of chain instead.
`CHECK_DEADLOCK` is left on: the user can always approve of the polls, and an
approved poll always comes back. Withdrawing the approval counts as one of the edits.

Fairness: jobs that run go on (weak), the poll pipeline, while it is approved,
is started every ten minutes (weak: only `00-01` has a timer, and without the
user's flag file it triggers nothing), and somebody attends to a detached
`HEAD` and to a build history with changes in it, which no job repairs (strong:
chains of jobs run in between). Nobody has to start a build, to edit, or to
approve of the polls: hence the premise `<>[]approved` of `RevertedInTheEnd`.
Without it the property fails, as it should: a build that nobody polls after
stays.

### `MCOrchestrate`

| Run | Bounds | Shows |
|---|---|---|
| `orchestrate` | the stages of the common profile, all automatic or one by hand, 2 failures, hosts destroyed once | all properties of the orchestration |

Fairness: a build a day starts the job, a run goes on (weak), and the user
creates a flag file when the output asks for it and the hosts are as it says
(strong: between two runs).

### `MCRunHighstate`

| Run | Bounds | Shows |
|---|---|---|
| `highstate` | 2 minions, 6 kinds of returns over 15 nodes (dicts in lists, a result below a result, a failed one without a comment, `None`, requisites, text, nothing), at least 3 results required, 1 other job, 1 message late or lost | the verdict on every combination of returns and framing; the wait |

Fairness: the job runs on, and each minion ends what it has begun (weak).

## Proofs

### The incremental report

Assumptions are those of the constants in `IncrementalReport`: bounds are
naturals, artifacts and pom files are disjoint, inputs have their types. Only
`ReferencesAreCounted` assumes that there are finitely many items, as it is
about how many references they have.

| Theorem | For every instance |
|---|---|
| `TypeCorrect` | `[]TypeOK` |
| `StagesAreOrdered` | `[]StagesInOrder` |
| `VerdictIsSound` | `[]VerdictMatchesReference` |
| `VerifiedItemsAreClean` | `[]VerifiedIsClean` |
| `SavedStagesAreKept` | `SavedStagesStick` |
| `PassesMakeProgress` | `PassesProgress` |
| `ReferencesAreCounted` | `[]ReferencesCounted`, if the counters do not saturate |
| `AssertionNeverFails` | without interrupts and kills, `[]AssertionHolds` |
| `ReportRefinesVerdict` | without edits, `Spec => ImplementsVerdict`: interrupts, kills and saves cut anywhere included |

The inductive invariant (`IncrementalReportInvariant`) is needed because none
of these is inductive. `Verified \in passed[i]` says something of the inputs
only if one knows that all earlier stages were passed, that each passed stage
had no failure *when it ran*, and that what it read of other items still holds:
`inited` of another item is monotone as long as entries are not removed, and
`outdated` names the pom files for which they were. Soundness is therefore
carried stage by stage, for the memory and for the file, through every save.
A kill takes it apart for one entry (`CutShort`): the invariants are about the
items that are not `torn`. `KillLeaves` says that a kill leaves the last report
saved or a part of the one in memory (`LeftOf`); `LostMeans`, that losing entries
and cutting one voids what was verified against them, which is then `outdated`,
and nothing else; `KillSaves`, that nothing comes out of the cut as verified which
does not meet the pillar.
The other direction, needed by the refinement (a run that ends verified all it
could), rests on the order of the last pass: an item that failed there failed
because of an item that was already in its final state, since nothing
progressed in that pass.

`PassLog` relates the report in memory to the one saved before the pass: an item
not reached has the stages it has there, and one that progressed has more. It is
the variant of the loop over the passes, of which `RunEnds` is the liveness.

`CountInv` says that the references of all verified items, and of the item whose
last stage has run without a failure but is not recorded (`AboutToVerify`), are
in the counters, of the report in memory and, without edits and kills, of the one
saved. References are counted as pairs of a referrer and a number (`ReferencesOf`),
so that no sum needs an induction: one more referrer adds at most what it
counts (`ReferencesGrow`), and a stage that logs no failure has counted all of
its references (`CountsAll`). `EnoughRefs` says that the bound at which the
model's counters saturate is out of reach; those of the code have no bound.

The proofs of a step have one case per action. The temporal steps are `PTL`.

### The bootstrap deployment

Assumptions are those of the constants in `BootstrapDeploy`: the values used as
marks (`Original`, `Damaged`, `Missing`, `Nothing`) differ from each other
and from packages and runs. Hosts, packages and bounds are arbitrary.

| Theorem | For every instance |
|---|---|
| `TypeCorrect` | `[]TypeOK` |
| `DeploymentIsCorrect` | `[]DeploymentHolds`, if `/etc/sysconfig/network` has both lines at first |
| `OriginalReposAreKept` | `[]OriginalReposKept` |
| `MasterConfigurationIsUsed` | `[]MasterUsesItsConfiguration`, if the master's platform is rhel5 and its two steps are enabled |

`DeploymentHolds` speaks of runs that completed. The invariant `DeployInv` says
of a run under way that the steps before the present one are `DoneForGood`:
what `Done` says, and that the files a reboot restores it from say the same.
That it is kept has two halves. Each step makes its own part true, on any state
of the right types (one lemma `...Result` per step). And it undoes no other
part: `Better` lists what a step may do to a host (a setting stays or becomes
this run's, nothing enabled is disabled but the firewall, and so on), and
`BetterKeeps` shows that `DoneForGood` survives it, for every step at once
instead of one step against every other. A reboot keeps `DoneForGood`
(`RebootKeeps`). The hypothesis on `NetworkFiles` is needed: see the
[limitations](#limitations-of-the-code). `ReposState`, on how `repos` and `backup`
can be combined, is the
invariant for the repositories and needs no hypothesis.

`ConfigurationInv` follows the configuration of the Salt master through a run:
past `install_salt_master` the file is this run's, past `activate_salt_master`
the master is enabled and runs with it, which a reboot then repeats. What earlier
runs left, a master started with another configuration or with a torn file
included, is undone in between, because on rhel5 the activation stops the master
before it starts it (`ActivateKeepsConfiguration`), unless that stop fails
(`unstopped`, of which the invariant says nothing more). Every other step leaves file,
service and process alone (`SameService`). On rhel7 the code does not stop a
running master and the property does not hold: hence the hypothesis.

### The Salt master's configuration

Assumptions: `ConfigureAssumption`, `LinksAssumption` and `MarksAssumption`
(names of projects and marks differ from each other). Projects, properties,
settings and bounds are arbitrary.

| Theorem | For every instance |
|---|---|
| `TypeCorrect` | `[]TypeOK` |
| `SettingsAreKept` | `[]SettingsKept` |
| `CompletedIsConfigured` | `[]Configured` |

The invariant `Inv` has one part for each thing that goes through the script.
`Backups`: as long as the file is not written there is a dated copy of it, either
the one just taken or the one `.backup.last` was copied from; so a whole
`.backup.last` always has a dated twin, which is what makes the skipped backup
safe. `Linked`: the links made so far, and that the loop over the projects leaves
one of them in `project_name` (the selected one if it is the only one).
`Restarted`: from the dump on the file is the script's, the master does not run
between stop and start, and runs with it after, unless the stop has failed.

### The build branches

Assumptions: `ReposAssumption`, `NoneAssumption`.

| Theorem | For every instance |
|---|---|
| `BuildBranchesProofs.TypeCorrect` | `[]TypeOK` |
| `BuildBranchesProofs.RecoveryIsPending` | `[]RecoveryPending` |
| `BuildBranchesWorkProofs.WorkIsKept` | `[]WorkKept`, if no job is cut short in the phases `Snapshot` |
| `BuildBranchesWorkProofs.WorkIsRestored` | `[]WorkRestored`, under the same proviso |
| `BuildBranchesWorkProofs.BuildIsRecorded` | `[]BuildRecorded` |
| `BuildBranchesWorkProofs.WorkIsBuiltAlways` | `[]WorkIsBuilt` |
| `BuildBranchesWorkProofs.BranchesAreReturned` | where a reset gets to the end, every repository is on its former branch |
| `BuildBranchesWorkProofs.ResetIsFaithful` | `[]ResetRestores`, under the same proviso and if no build is only checked out |

`Sound` follows the descriptors from file to file (`Handed`, `Described`), says
what the restore points are (`Pointed`, `Commits`) and where each loop has left
`HEAD` and the work tree of the repositories it is through with (`Looping`,
`Heads`, `CleanTrees`). On it rests `WorkSafe`: where the work of each repository
is in each phase. Before the restore points are taken and after they are put
back it is in the work tree or a stash; between, also in the recovery
descriptor's restore point. The step that needs the most is `RestorePoint`: the
checkout refuses rather than overwrites, and `git stash` has put aside what is
in its way. The proviso is needed, as `lost_work` shows.

`Recorded` is about what descriptors say of the repositories, and needs no
proviso. `Tipped`: the commit a descriptor names for a repository is the one its
build branch is at, as soon as there is one. `PutBack`: a build that is only
checked out is the one in the history. `Based`: descriptors name the branch and
commit the build found each repository on. `Noted`: the restore points taken so far
are the work trees it found. `Returned`: so far the reset has put repositories on
their former branches. With `Sound` these give `BuildRecorded`, `WorkIsBuilt`
and `BranchesReturned`.

`Restoring` is about the contents of the work trees. Outside of `Snapshot` the
restore points of the recovery descriptor are the work trees that the build has
found (`Points`), and the loops of the reset leave each repository they are
through with `Restored`. Both provisos are needed: `lost_work` cuts a job short in
`Snapshot`, and `checked_out` leaves restore points of another build in the
recovery descriptor.

### The orchestration

Assumption: `StagesAssumption`; stages, order, prerequisites and states are
arbitrary.

| Theorem | For every instance |
|---|---|
| `TypeCorrect` | `[]TypeOK` |
| `StagesAreInOrder` | `StagesInOrder` |
| `PassedIsDeployed` | `[]PassedMeansDeployed` |
| `OneRunIsEnough` | `[]OneRunSuffices`, if the order suits the prerequisites (`OrderSuits`) |

`FlagsMeanDone` says what a flag file stands for: one that a run has found is
there and, until hosts are destroyed, the states of its stage are in force, as are
those a run has noted as succeeded. `RunSoFar` says that a run has executed, with the result it has
noted, every state of the stages behind it on the present hosts, whatever the
flag files are. `Unhindered` says that in a run without trouble nothing has
failed or been skipped so far and the stages behind it have their flag files; the
files a stage looks at are those of earlier stages (`IncludedStages`), which is
where `OrderSuits` is used. It is about constants alone, and TLC evaluates it for
the stages of the common profile (`ProfileSuits`): the run and the theorem together
say that any profile has the property whose lists pass this test.

### The highstate job

Assumptions: `NodesAssumption` (values are numbered so that what is below a value
comes later), `TreeAssumption` and `MinionsAssumption`. Values, minions, returns
and `MinCount` are arbitrary.

| Theorem | For every instance |
|---|---|
| `RunHighstateProofs.TypeCorrect` | `[]TypeOK`: in whichever of the three forms, the output is a sequence of lines |
| `RunHighstateProofs.WaitIsForRunning` | `[]WaitsForRunning` |
| `RunHighstateProofs.VerdictIsRight` | `[]VerdictMatchesReference` |
| `SaltOutputProofs.VerdictOfFramed` | the checker passes an output (`Framed`) iff there are at least `MinCount` results and all succeeded |

`WaitInvariant`: a minion that was asked, and is not excused, has ended its
highstate or was found busy, and a highstate that has ended does not begin again.

`VerdictOfFramed` is about recursive functions on data of any depth. The
induction theorems of the library take a predicate as a parameter, which the
provers cannot instantiate; a set takes its place (`NaturalsBySteps`, from the
library's theorem that `<` is well-founded, and `SubsetsBySteps`). It gives that
each recursive function is what its definition says (`TotalDefined`,
`TraverseDefined`, `LoaderDefined`): there is such a function on the values above
each number, the lines behind each line, the sets of up to each size. `Describes`
is the invariant of the computation: a record with counts and a flag that says
how many results there are in a set and whether all succeeded. One result is
described by its record (`ResultDescribes`); what `consolidate_results` makes of
records describes the union of their sets, if these are disjoint
(`ConsolidateDescribes`, `TotalCounts`); so the walk describes `ResultsIn` of a
value, what is loaded from an object the results between its lines, and the
loader all results of the output (`TraverseDescribes`, `LoadedDescribes`,
`LoaderDescribes`). Without `TreeAssumption` the sets are not disjoint and the
walk counts a result twice. `Framed` is what the three forms of the returns have
in common: whole objects, values in objects only, an object without keys last
(`FramedOneObject`, `FramedObjectEach`). The last is needed, as the splitter
takes the lines behind such an object for a part of it.

### Model-checked only

Liveness (`RunEnds`, `EveryHostIsDeployed`, `ConfiguredInTheEnd`,
`RevertedInTheEnd`, `DeployedInTheEnd`, `WaitEnds`), which the prover cannot do.
Every invariant and every action property of a passing run is stated by a
theorem, some under the provisos in the tables.

## Findings

- `assertion`: interrupting a run between a failed step and the recording of its
  stage saves a report on which every later run stops at the assertion.
- `lost_work`: a job `create_build_branches` that fails or is killed after it has
  committed a restore point, and before it copies its descriptor to the recovery
  descriptor, leaves local work that no recovery restores. The comment before
  the copy says that it must not come too late; it comes after the loop over all
  repositories.
- `checked_out`: the pipeline that checks out an earlier build takes no restore
  points, but leaves those of that build in the recovery descriptor. The reset of
  the next chain takes them for the developer's local changes, and the work tree
  is not as it was when the build was checked out.

## Limitations of the code

What the models take as the code has it, and no run states otherwise:

- `overall_result` in a saved report of `process_maven_data.py` is always the
  placeholder True (line 2619); the verdict is the exit code.
- `set_net_config_var` changes a line of `/etc/sysconfig/network` and adds none:
  where there was no `GATEWAY` line the default route is lost at a reboot.
  `DeploymentHolds` is checked and proved for hosts that have both lines.
- An offline run on a host deployed online leaves the Salt services running, which
  `docs/bootstrap/design.md` says it does not.
- A copy cut short in `install_salt_minion` leaves a damaged rpm in
  the directory that `install_salt_master`, the earlier step, installs from: every
  later run fails there (`LeftoverRpms`).
- With several projects `main.sls` and the layer `defaults` of the pillars are
  linked to whichever project the loop of `set_salt_states_and_pillars_symlinks`
  ends with, not to the one selected, though its comment says "required project"
  (`OfProject`).
- A Salt master that cannot be stopped is left running: the error is ignored,
  starting it again does nothing, and the deployment, or `configure_salt.py`,
  completes with the old configuration in use (`unstopped`).
- A report whose last write was cut inside an entry loads, and that entry is never
  completed: what reads its lost fields fails or raises in every run, what refers to
  it may stay unverified, and what was verified against it stays verified
  (`torn`, `outdated`). Its step logs and `last_stage_result` may contradict each other, so that
  the assertion can stop later runs; `AssertionNeverFails` excludes kills.
- Two backups of one second are one file, and an edit between backup and dump of
  `/etc/salt/master` is overwritten (`rushed`). After a dump that was cut short
  the operator's settings are in a backup only: a rerun does not look there.
- `configure_salt.py` restarts the Salt master; its comment says the minion too.
- `reset_previous_build` refuses when a branch has got other commits since the
  build (`Moved`), though its comments speak of rebasing on them; a `HEAD` that
  a killed job left detached, and changes left in the build history, wait for
  a person. Local branches of builds are deleted with the commits on them.
- Flag files of the orchestration outlive the hosts: after
  `destroy_vagrant_hosts` the later stages no longer wait for the earlier ones
  to succeed. A stage whose feature is disabled never gets its flag file, as
  that requires the state left out. Comments call `salt_minions_ready` a stage
  whose flag file is made by hand; its pillar makes it automatic.
- Text that a minion returns in place of results counts for nothing in
  `check_salt_output.py`: a job passes if another minion has a result.
  A `result` anywhere hides what is below it. A minion that has not begun, or
  does not answer, when `check_running_jobs.sh` asks is not waited for.
- The package build copies without `--delete`: what was removed from the sources
  stays in later packages.
- A pom file verified against a descriptor that was removed from the report
  afterwards is not verified again against the new one (`outdated`).
- `reference_counter` counts a reference again when the verification of the pom
  file is retried.
- On rhel7 the Salt master, and on both platforms the Salt minion, is started
  without being stopped: deployed again while it runs, it keeps its old
  configuration. `MasterUsesItsConfiguration` is therefore checked and proved on rhel5, where
  the code stops the master.

## What is left out

Not modelled and not planned: the rendering of Salt states and pillars, the
formatting of reports and log messages, the contents of packages, the scripts
that only run a fixed list of commands. `PROJECT.json` lists each component
with its reason. Of `process_maven_data.py`, the commands that only produce the
inputs of the report are left out. Of the bootstrap, the Windows platform
(Fedora takes the steps of rhel7) and the package build, a sequence of copies,
are left out. Of `hosts_file.py`, the patching of host names is seen only as
one write. Of the pipelines, what is Jenkins's own is left out: the queue,
blocking of jobs, promotions; and the jobs that only call a program modelled
elsewhere.

## Plan

1. `IncrementalReport` and its proofs (done).
2. `BootstrapDeploy` and its proofs (done).
3. `SaltOutput` and `RunHighstate`, `Orchestrate`, `BuildBranches`,
   `ConfigureSalt` and their proofs (done).
4. The patcher of `hosts_file.py`: pure operators; theorem: patching twice is
   patching once.
5. Pom files that come and go between runs of the report.
