--------------------------- MODULE BuildBranches ---------------------------
(***************************************************************************)
(* The jobs that put the git repositories of a developer's work space on   *)
(* build branches and take them off again:                                 *)
(*                                                                         *)
(*   start_new_build -> reset_previous_build                               *)
(*       -> describe_repositories_state -> create_build_branches -> ...    *)
(*                                                                         *)
(* (templates init_pipeline-*.xml, which the init, package, release and    *)
(* checkout pipelines share) and, in the poll pipeline,                    *)
(*                                                                         *)
(*   reset_previous_build -> update_sources.                               *)
(*                                                                         *)
(* A job works through the repositories in a loop, one git command after   *)
(* another, and any command can fail and any job can be killed: the next   *)
(* chain finds what is on disk.  That is the repositories, the descriptors *)
(* `latest` (handed from job to job), `job` (the working copy of one job), *)
(* `recovery` (there iff a build is to be reverted) and, per build title,  *)
(* the one committed to the repository of the build history.               *)
(*                                                                         *)
(* A commit is its content, and a content is a version for every file:     *)
(* which commit a branch points to, what is changed locally and what a     *)
(* checkout keeps or refuses is all the scripts depend on.                 *)
(***************************************************************************)
EXTENDS Naturals, FiniteSets

CONSTANTS
    Repos,          \* repositories but the one of the build history
    Pillars,        \* those of target_profile_pillars_role
    Files, Versions,
    UserBranches,   \* branches of the developer
    Profile,        \* the branch SALT_PROFILE_NAME of a target profile repository
    MaxBuilds,      \* build titles 1 .. MaxBuilds
    MaxEdits,       \* bound on what the developer does
    MaxFailures,    \* bound on commands that fail and jobs that are killed
    FailAt,         \* the phases in which that happens
    Kinds,          \* subset of {"fresh", "rebuild", "checkout"}
    None, Detached

ASSUME ReposAssumption ==
    /\ IsFiniteSet(Repos)
    /\ Pillars \subseteq Repos
    /\ Profile \in UserBranches
    /\ Kinds \subseteq {"fresh", "rebuild", "checkout"}
    /\ MaxBuilds \in Nat /\ MaxEdits \in Nat /\ MaxFailures \in Nat
    /\ Detached \notin UserBranches \cup (1 .. MaxBuilds)
    /\ UserBranches \cap (1 .. MaxBuilds) = {}
    /\ None \notin UserBranches \cup (1 .. MaxBuilds) \cup [Files -> Versions]

Builds == 1 .. MaxBuilds
Names == UserBranches \cup Builds
Contents == [Files -> Versions]

VARIABLES
    branch,     \* [Repos -> [Names -> commit, or None]]
    head,       \* [Repos -> the branch checked out, or Detached]
    at,         \* [Repos -> the commit of a detached HEAD]
    tree,       \* [Repos -> the files in the work tree]
    stash,      \* [Repos -> set of contents put aside by git stash]
    latest, job, recovery,      \* the descriptors on disk
    history,    \* [Builds -> the descriptor committed for the title, or None]
    unclean,    \* the repository of the build history has uncommitted changes
    phase, todo, cur, status,   \* the running job: loop, repositories left, JOB_STATUS
    build,      \* parameters of the running chain
    edits, failures,
    approved,   \* the flag file of the user's approval exists
    work,       \* history variable: local work of the developer, per repository
    before      \* history variable: what create_build_branches found

repoVars == <<branch, head, at, tree, stash>>
descVars == <<latest, job, recovery, history, unclean>>
loopVars == <<phase, todo, cur, status>>
vars == <<branch, head, at, tree, stash, latest, job, recovery, history,
          unclean, phase, todo, cur, status, build, edits, failures, approved,
          work, before>>

-----------------------------------------------------------------------------
(* Descriptors *)

Descriptor ==
    [recBranch : [Repos -> UserBranches \cup {None}],
     recCommit : [Repos -> Contents \cup {None}],
     point     : [Repos -> Contents \cup {None}],
     required  : [Repos -> Contents \cup {None}],
     tip       : [Repos -> Contents \cup {None}],
     title     : Builds \cup {None}]

ASSUME NoneAssumption == None \notin Descriptor

Unset == [r \in Repos |-> None]

NewDescriptor(t) ==
    [recBranch |-> Unset, recCommit |-> Unset, point |-> Unset,
     required |-> Unset, tip |-> Unset, title |-> t]

Params == [kind : {"fresh", "rebuild", "checkout", "poll"},
           title : Builds \cup {None}, parent : Builds \cup {None}]

-----------------------------------------------------------------------------
(* git: what the scripts use of it *)

HeadCommit(r) == IF head[r] = Detached THEN at[r] ELSE branch[r][head[r]]

Dirty(r) == tree[r] # HeadCommit(r)

\* git checkout keeps a local change of a file the two commits agree on,
\* and refuses when it would overwrite one.
Fits(t, from, to) == \A f \in Files : t[f] # from[f] => to[f] = from[f]
Carried(t, from, to) == [f \in Files |-> IF t[f] # from[f] THEN t[f] ELSE to[f]]

\* HEAD of r moves to `name` at commit c; the local work goes with the tree.
MoveTo(r, name, c) ==
    LET new == Carried(tree[r], HeadCommit(r), c)
    IN  /\ head' = [head EXCEPT ![r] = name]
        /\ at' = [at EXCEPT ![r] = IF name = Detached THEN c ELSE None]
        /\ tree' = [tree EXCEPT ![r] = new]
        /\ work' = [work EXCEPT ![r] =
                        IF Dirty(r) /\ tree[r] \in @
                        THEN (@ \ {tree[r]}) \cup {new} ELSE @]

CheckoutFits(r, c) == Fits(tree[r], HeadCommit(r), c)

-----------------------------------------------------------------------------
(* Loops over the repositories, and how jobs end *)

\* r is done: on with the loop of phase p, or with the next phase.
Done(r, p, next) ==
    /\ todo' = IF todo = {r} THEN Repos ELSE todo \ {r}
    /\ phase' = IF todo = {r} THEN next ELSE p
    /\ cur' = None

Enter(p) == phase' = p /\ todo' = Repos /\ cur' = None

\* Mutant of Raise: warnings add up.
RaiseAdding(s) == status' = status + s

Raise(s) == status' = IF status < s THEN s ELSE status

\* `set -e`: a command or a test fails, the job with it, and no job follows.
Stop == phase' = "idle" /\ todo' = {} /\ cur' = None /\ status' = 0

JobFails ==
    /\ Stop
    /\ UNCHANGED <<repoVars, descVars, build, edits, failures, approved, work, before>>

ReposOnly == UNCHANGED <<descVars, build, edits, failures, approved, before>>
DescsOnly == UNCHANGED <<repoVars, build, edits, failures, approved, work, before>>

-----------------------------------------------------------------------------
(* init_pipeline-start_new_build.xml *)

Titled == {b \in Builds : history[b] # None}

Clean == \A r \in Repos : ~Dirty(r)

\* A build without a parent starts from the branches as they are, a rebuild
\* from a parent under a new title, and the checkout pipeline puts the parent
\* itself back, which takes work trees without local changes.
StartNewBuild(kind, parent) ==
    LET title == IF kind = "checkout" THEN parent ELSE Cardinality(Titled) + 1
        first == IF parent = None THEN NewDescriptor(title)
                 ELSE [history[parent] EXCEPT !.title = title]
    IN  /\ phase = "idle" /\ approved
        /\ kind \in Kinds
        /\ (kind = "fresh") <=> (parent = None)
        /\ kind = "checkout" => Clean
        /\ title \in Builds
        /\ ~unclean
        /\ build' = [kind |-> kind, title |-> title, parent |-> parent]
        /\ latest' = first
        /\ job' = first
        /\ history' = IF kind = "checkout" THEN history
                      ELSE [history EXCEPT ![title] = first]
        /\ Enter("reset") /\ status' = 0
        /\ UNCHANGED <<repoVars, recovery, unclean, edits, failures, approved, work, before>>

\* Every ten minutes verify_approval looks for the flag file: without it the job
\* is unstable and triggers nothing, with it reset_previous_build starts the poll.
StartPoll ==
    /\ phase = "idle" /\ approved
    /\ build' = [kind |-> "poll", title |-> None, parent |-> None]
    /\ Enter("reset") /\ status' = 0
    /\ UNCHANGED <<repoVars, descVars, edits, failures, approved, work, before>>

-----------------------------------------------------------------------------
(* init_pipeline-reset_previous_build.xml *)

AfterReset == IF build.kind = "poll" THEN "pull" ELSE "describe"

\* Mutant of BeginReset: the recovery descriptor is moved, not copied.
BeginResetMoving ==
    /\ phase = "reset"
    /\ job' = IF recovery = None THEN latest ELSE recovery
    /\ recovery' = None
    /\ Enter(IF recovery = None THEN AfterReset ELSE "stash")
    /\ UNCHANGED <<latest, history, unclean, status>>
    /\ DescsOnly

BeginReset ==
    /\ phase = "reset"
    /\ job' = IF recovery = None THEN latest ELSE recovery
    /\ Enter(IF recovery = None THEN AfterReset ELSE "stash")
    /\ UNCHANGED <<latest, recovery, history, unclean, status>>
    /\ DescsOnly

\* Mutant of StashChanges: what a build leaves behind stays in the way.
StashChangesNot(r) ==
    /\ phase = "stash" /\ r \in todo
    /\ Done(r, "stash", "switch")
    /\ UNCHANGED <<repoVars, work, status>>
    /\ ReposOnly

StashChanges(r) ==
    /\ phase = "stash" /\ r \in todo
    /\ IF Dirty(r)
       THEN /\ stash' = [stash EXCEPT ![r] = @ \cup {tree[r]}]
            /\ tree' = [tree EXCEPT ![r] = HeadCommit(r)]
            /\ Raise(1)
       ELSE UNCHANGED <<stash, tree, status>>
    /\ Done(r, "stash", "switch")
    /\ UNCHANGED <<branch, head, at, work>>
    /\ ReposOnly

SwitchBack(r) ==
    /\ phase = "switch" /\ r \in todo
    /\ head[r] # Detached
    /\ IF job.recBranch[r] # None
       THEN /\ CheckoutFits(r, branch[r][job.recBranch[r]])
            /\ MoveTo(r, job.recBranch[r], branch[r][job.recBranch[r]])
            /\ UNCHANGED status
       ELSE Raise(2) /\ UNCHANGED <<head, at, tree, work>>
    /\ Done(r, "switch", "restore")
    /\ UNCHANGED <<branch, stash>>
    /\ ReposOnly

Available(r) ==
    /\ job.recBranch[r] # None
    /\ job.recCommit[r] # None
    /\ job.point[r] # None

\* git checkout RESTORE_POINT_COMMIT
RestorePoint(r) ==
    /\ phase = "restore" /\ r \in todo
    /\ head[r] # Detached
    /\ IF Available(r)
       THEN /\ head[r] = job.recBranch[r]
            /\ CheckoutFits(r, job.point[r])
            /\ MoveTo(r, Detached, job.point[r])
            /\ phase' = "uncommit" /\ cur' = r
            /\ UNCHANGED <<todo, status>>
       ELSE /\ Raise(2)
            /\ Done(r, "restore", "delete")
            /\ UNCHANGED <<head, at, tree, work>>
    /\ UNCHANGED <<branch, stash>>
    /\ ReposOnly

\* Mutant of Uncommit: the restore point stays committed.
UncommitNot ==
    /\ phase = "uncommit"
    /\ phase' = "rebase"
    /\ UNCHANGED <<repoVars, work, todo, cur, status>>
    /\ ReposOnly

\* git reset RECOVERY_COMMIT_ID
Uncommit ==
    /\ phase = "uncommit"
    /\ at' = [at EXCEPT ![cur] = job.recCommit[cur]]
    /\ phase' = "rebase"
    /\ UNCHANGED <<branch, head, tree, stash, work, todo, cur, status>>
    /\ ReposOnly

\* git checkout RECOVERY_BRANCH
RebaseOnBranch ==
    LET tip == branch[cur][job.recBranch[cur]]
    IN  /\ phase = "rebase"
        /\ CheckoutFits(cur, tip)
        /\ MoveTo(cur, job.recBranch[cur], tip)
        /\ Done(cur, "restore", "delete")
        /\ UNCHANGED <<branch, stash, status>>
        /\ ReposOnly

DeleteBuildBranch(r) ==
    /\ phase = "delete" /\ r \in todo
    /\ head[r] # Detached
    /\ IF job.recBranch[r] # None /\ job.title # None
       THEN /\ head[r] = job.recBranch[r]
            /\ branch' = [branch EXCEPT ![r][job.title] = None]
            /\ IF branch[r][job.title] = None THEN Raise(1) ELSE UNCHANGED status
       ELSE Raise(2) /\ UNCHANGED branch
    /\ Done(r, "delete", "forget")
    /\ UNCHANGED <<head, at, tree, stash, work>>
    /\ ReposOnly

\* rm of the recovery descriptor; a status of 2 fails the job only after it.
ForgetBuild ==
    /\ phase = "forget"
    /\ recovery' = None
    /\ IF status = 2 THEN Stop ELSE Enter(AfterReset) /\ status' = 0
    /\ UNCHANGED <<latest, job, history, unclean>>
    /\ DescsOnly

-----------------------------------------------------------------------------
(* poll_pipeline-update_sources.xml *)

\* git pull --ff-only of the branch checked out: no news, or a new commit c.
PullBranch(r) ==
    /\ phase = "pull" /\ r \in todo
    /\ head[r] \in UserBranches
    /\ \/ UNCHANGED <<branch, head, at, tree, work, edits>>
       \/ \E c \in Contents :
            /\ edits < MaxEdits /\ edits' = edits + 1
            /\ c # HeadCommit(r) /\ CheckoutFits(r, c)
            /\ branch' = [branch EXCEPT ![r][head[r]] = c]
            /\ MoveTo(r, head[r], c)
    /\ IF todo = {r} THEN Stop ELSE Done(r, "pull", "idle") /\ UNCHANGED status
    /\ UNCHANGED <<stash, descVars, build, failures, approved, before>>

-----------------------------------------------------------------------------
(* init_pipeline-describe_repositories_state.xml *)

Required(r) ==
    IF r \in Pillars THEN branch[r][Profile]
    ELSE IF build.parent # None THEN history[build.parent].tip[r]
    ELSE HeadCommit(r)

\* The keys of a parent are read without a default.
Describable ==
    \A r \in Repos :
        /\ head[r] # Detached
        /\ build.parent # None => history[build.parent].tip[r] # None

DescribeRepositories ==
    /\ phase = "describe"
    /\ Describable
    /\ job' = [latest EXCEPT !.recBranch = head,
                             !.recCommit = [r \in Repos |-> HeadCommit(r)],
                             !.required = [r \in Repos |-> Required(r)],
                             !.tip = [r \in Repos |-> Required(r)]]
    /\ Enter("tellDescribed")
    /\ UNCHANGED <<latest, recovery, history, unclean, status>>
    /\ DescsOnly

-----------------------------------------------------------------------------
(* update_dynamic_build_descriptor of common_xml_templates.lib.sls *)

ReadOnly == build.kind = "checkout"

\* The next job gets the descriptor, and the build history an uncommitted copy.
TellNextJob(p, next) ==
    /\ phase = p
    /\ latest' = job
    /\ unclean' = ~ReadOnly
    /\ Enter(next)
    /\ UNCHANGED <<job, recovery, history, status>>
    /\ DescsOnly

KeepInHistory(p, next) ==
    /\ phase = p
    /\ history' = IF ReadOnly THEN history ELSE [history EXCEPT ![build.title] = job]
    /\ unclean' = FALSE
    /\ Enter(next)
    /\ UNCHANGED <<latest, job, status>>
    /\ DescsOnly

KeepDescribed == KeepInHistory("keepDescribed", "create") /\ UNCHANGED recovery

\* The last step of create_build_branches updates the recovery descriptor.
KeepCreated == KeepInHistory("keepCreated", "later") /\ recovery' = latest

-----------------------------------------------------------------------------
(* init_pipeline-create_build_branches.xml *)

BeginCreate ==
    /\ phase = "create"
    /\ job' = latest
    /\ recovery' = latest
    /\ before' = [r \in Repos |-> [branch |-> head[r], commit |-> HeadCommit(r),
                                   tree |-> tree[r]]]
    /\ Enter("point")
    /\ UNCHANGED <<repoVars, latest, history, unclean, status, build, edits,
                   failures, approved, work>>

\* git checkout of the commit id that is checked out: HEAD detaches.
DetachHead(r) ==
    /\ phase = "point" /\ r \in todo
    /\ head[r] # Detached
    /\ MoveTo(r, Detached, HeadCommit(r))
    /\ phase' = "commit" /\ cur' = r
    /\ UNCHANGED <<branch, stash, todo, status>>
    /\ ReposOnly

\* The restore point: everything local is committed on the detached HEAD.
CommitPoint ==
    /\ phase = "commit"
    /\ IF ReadOnly THEN UNCHANGED <<at, job>>
       ELSE /\ at' = [at EXCEPT ![cur] = tree[cur]]
            /\ job' = [job EXCEPT !.point[cur] = tree[cur]]
    /\ phase' = "back"
    /\ UNCHANGED <<branch, head, tree, stash, work, latest, recovery, history,
                   unclean, todo, cur, status, build, edits, failures, approved, before>>

\* git checkout CURRENT_BRANCH
BackOnBranch ==
    LET name == job.recBranch[cur]
    IN  /\ phase = "back"
        /\ CheckoutFits(cur, branch[cur][name])
        /\ MoveTo(cur, name, branch[cur][name])
        /\ Done(cur, "point", "save")
        /\ UNCHANGED <<branch, stash, status>>
        /\ ReposOnly

\* Mutant of SavePoints: the descriptor copied is the one without the points.
SavePointsOfLatest ==
    /\ phase = "save"
    /\ recovery' = latest
    /\ Enter("branch")
    /\ UNCHANGED <<latest, job, history, unclean, status>>
    /\ DescsOnly

SavePoints ==
    /\ phase = "save"
    /\ recovery' = job
    /\ Enter("branch")
    /\ UNCHANGED <<latest, job, history, unclean, status>>
    /\ DescsOnly

\* git checkout -B BUILD_BRANCH REQUIRED_COMMIT_ID and, in a build without a
\* parent, git merge --ff-only RESTORE_POINT_COMMIT.
\* Mutant of Merges: the target profile's repository is merged too.
MergesPillars(r) == build.parent = None

Merges(r) == build.parent = None /\ r \notin Pillars

BuildCommit(r) == IF Merges(r) THEN job.point[r] ELSE job.required[r]

\* Mutant of CreateBranch: latest_commit_ids is not recorded.
CreateBranchUnrecorded(r) ==
    LET c == BuildCommit(r)
    IN  /\ phase = "branch" /\ r \in todo
        /\ head[r] \notin {Detached, build.title}
        /\ CheckoutFits(r, job.required[r]) /\ CheckoutFits(r, c)
        /\ branch' = [branch EXCEPT ![r][build.title] = c]
        /\ MoveTo(r, build.title, c)
        /\ Done(r, "branch", "tellCreated")
        /\ UNCHANGED <<stash, descVars, status, build, edits, failures, approved, before>>

CreateBranch(r) ==
    LET c == BuildCommit(r)
    IN  /\ phase = "branch" /\ r \in todo
        /\ head[r] \notin {Detached, build.title}
        /\ CheckoutFits(r, job.required[r]) /\ CheckoutFits(r, c)
        /\ branch' = [branch EXCEPT ![r][build.title] = c]
        /\ MoveTo(r, build.title, c)
        /\ job' = IF Merges(r) THEN [job EXCEPT !.tip[r] = c] ELSE job
        /\ Done(r, "branch", "tellCreated")
        /\ UNCHANGED <<stash, latest, recovery, history, unclean, status, build,
                       edits, failures, approved, before>>

-----------------------------------------------------------------------------
(* The later jobs of the pipelines *)

\* A job commits what it generates and records it in latest_commit_ids.
CommitGenerated(r, c) ==
    /\ phase = "later" /\ ~ReadOnly
    /\ edits < MaxEdits /\ edits' = edits + 1
    /\ branch' = [branch EXCEPT ![r][build.title] = c]
    /\ tree' = [tree EXCEPT ![r] = c]
    /\ job' = [latest EXCEPT !.tip[r] = c]
    /\ latest' = job'
    /\ history' = [history EXCEPT ![build.title] = job']
    /\ UNCHANGED <<head, at, stash, recovery, unclean, loopVars, build, failures, approved,
                   work, before>>

\* The chain of jobs ends, passed or failed.
EndBuild ==
    /\ phase = "later"
    /\ Stop
    /\ UNCHANGED <<repoVars, descVars, build, edits, failures, approved, work, before>>

-----------------------------------------------------------------------------
(* The developer, while no job runs *)

EditFiles(r, c) ==
    /\ phase = "idle"
    /\ edits < MaxEdits /\ edits' = edits + 1
    /\ c # tree[r]
    /\ tree' = [tree EXCEPT ![r] = c]
    /\ work' = [work EXCEPT ![r] = (@ \ {tree[r]})
                                     \cup (IF c = HeadCommit(r) THEN {} ELSE {c})]
    /\ UNCHANGED <<branch, head, at, stash, descVars, loopVars, build, failures, approved,
                   before>>

CommitFiles(r) ==
    /\ phase = "idle"
    /\ head[r] \in UserBranches /\ Dirty(r)
    /\ branch' = [branch EXCEPT ![r][head[r]] = tree[r]]
    /\ work' = [work EXCEPT ![r] = @ \ {tree[r]}]
    /\ UNCHANGED <<head, at, tree, stash, descVars, loopVars, build, edits,
                   failures, approved, before>>

\* A branch that is not checked out gets a commit: a release is merged.
MergeInto(r, b, c) ==
    /\ phase = "idle"
    /\ edits < MaxEdits /\ edits' = edits + 1
    /\ b # head[r] /\ c # branch[r][b]
    /\ branch' = [branch EXCEPT ![r][b] = c]
    /\ UNCHANGED <<head, at, tree, stash, descVars, loopVars, build, failures, approved,
                   work, before>>

\* A detached HEAD takes a person: put changes aside, check a branch out.
RepairHead(r, b) ==
    /\ phase = "idle"
    /\ head[r] = Detached
    /\ head' = [head EXCEPT ![r] = b]
    /\ at' = [at EXCEPT ![r] = None]
    /\ tree' = [tree EXCEPT ![r] = branch[r][b]]
    /\ stash' = [stash EXCEPT ![r] = IF Dirty(r) THEN @ \cup {tree[r]} ELSE @]
    /\ UNCHANGED <<branch, descVars, loopVars, build, edits, failures, approved, work, before>>

\* Nothing but a person creates or removes the flag file.  (It is looked for at
\* the start of a chain only: that it comes and goes between chains is enough.)
Approve ==
    /\ phase = "idle" /\ ~approved
    /\ approved' = TRUE
    /\ UNCHANGED <<repoVars, descVars, loopVars, build, edits, failures, work, before>>

Withdraw ==
    /\ phase = "idle" /\ approved
    /\ edits < MaxEdits /\ edits' = edits + 1
    /\ approved' = FALSE
    /\ UNCHANGED <<repoVars, descVars, loopVars, build, failures, work, before>>

CleanHistory ==
    /\ phase = "idle" /\ unclean
    /\ unclean' = FALSE
    /\ UNCHANGED <<latest, job, recovery, history, loopVars>>
    /\ DescsOnly

-----------------------------------------------------------------------------
(* Failures *)

\* A test or a checkout fails for what it finds in repository r.
Blocked(r) ==
    \/ /\ head[r] = Detached
       /\ phase \in {"switch", "restore", "delete", "point", "branch", "pull"}
    \/ /\ phase = "switch" /\ job.recBranch[r] # None
       /\ ~CheckoutFits(r, branch[r][job.recBranch[r]])
    \/ /\ phase = "restore" /\ Available(r)
       /\ job.recBranch[r] # head[r] \/ ~CheckoutFits(r, job.point[r])
    \/ /\ phase = "delete" /\ job.recBranch[r] # None /\ job.title # None
       /\ job.recBranch[r] # head[r]
    \/ /\ phase = "branch"
       /\ \/ head[r] = build.title
          \/ ~CheckoutFits(r, job.required[r])
          \/ ~CheckoutFits(r, BuildCommit(r))
    \/ phase = "pull" /\ head[r] \notin UserBranches

Refuse ==
    /\ \/ \E r \in todo : Blocked(r)
       \/ phase = "describe" /\ ~Describable
       \/ phase \in {"rebase", "back"}
             /\ ~CheckoutFits(cur, branch[cur][job.recBranch[cur]])
    /\ JobFails

\* A command fails for a reason of its own, or the job is killed.
Interrupt ==
    /\ phase \in FailAt
    /\ failures < MaxFailures
    /\ failures' = failures + 1
    /\ Stop
    /\ UNCHANGED <<repoVars, descVars, build, edits, approved, work, before>>

-----------------------------------------------------------------------------
Init ==
    /\ \E c \in Contents :
          /\ branch = [r \in Repos |->
                        [n \in Names |-> IF n \in UserBranches THEN c ELSE None]]
          /\ tree = [r \in Repos |-> c]
    /\ head \in [Repos -> UserBranches]
    /\ at = Unset
    /\ stash = [r \in Repos |-> {}]
    /\ latest = NewDescriptor(None) /\ job = NewDescriptor(None)
    /\ recovery = None /\ history = [b \in Builds |-> None] /\ unclean = FALSE
    /\ phase = "idle" /\ todo = {} /\ cur = None /\ status = 0
    /\ build = [kind |-> "poll", title |-> None, parent |-> None]
    /\ edits = 0 /\ failures = 0 /\ approved = FALSE
    /\ work = [r \in Repos |-> {}]
    /\ before = Unset

Reset ==
    \/ BeginReset \/ Uncommit \/ RebaseOnBranch \/ ForgetBuild
    \/ \E r \in Repos : \/ StashChanges(r) \/ SwitchBack(r) \/ RestorePoint(r)
                        \/ DeleteBuildBranch(r)

Create ==
    \/ BeginCreate \/ CommitPoint \/ BackOnBranch \/ SavePoints
    \/ \E r \in Repos : DetachHead(r) \/ CreateBranch(r)

Update ==
    \/ TellNextJob("tellDescribed", "keepDescribed") \/ KeepDescribed
    \/ TellNextJob("tellCreated", "keepCreated") \/ KeepCreated

JobStep ==
    \/ Reset \/ DescribeRepositories \/ Update \/ Create \/ EndBuild \/ Refuse
    \/ \E r \in Repos : PullBranch(r)

Developer ==
    \/ Approve \/ Withdraw
    \/ \E r \in Repos : \/ \E c \in Contents : EditFiles(r, c)
                        \/ CommitFiles(r)
                        \/ \E b \in UserBranches, c \in Contents : MergeInto(r, b, c)

Repair ==
    \/ CleanHistory
    \/ \E r \in Repos, b \in UserBranches : RepairHead(r, b)

StartBuild == \E kind \in Kinds, parent \in Titled \cup {None} :
                 StartNewBuild(kind, parent)

Next ==
    \/ StartBuild \/ StartPoll \/ JobStep \/ Interrupt
    \/ \E r \in Repos, c \in Contents : CommitGenerated(r, c)
    \/ Developer \/ Repair

Spec == Init /\ [][Next]_vars

\* Jobs run to their end, a timer starts the poll pipeline while it is approved, and
\* somebody attends to what no job repairs.  The approval is not fair.
FairSpec ==
    /\ Spec
    /\ WF_vars(JobStep) /\ WF_vars(StartPoll) /\ SF_vars(Repair)

-----------------------------------------------------------------------------
(* Properties *)

Phases ==
    {"idle", "reset", "stash", "switch", "restore", "uncommit", "rebase",
     "delete", "forget", "pull", "describe", "tellDescribed", "keepDescribed",
     "create", "point", "commit", "back", "save", "branch", "tellCreated",
     "keepCreated", "later"}

\* Type invariant.
TypeOK ==
    /\ branch \in [Repos -> [Names -> Contents \cup {None}]]
    /\ head \in [Repos -> Names \cup {Detached}]
    /\ at \in [Repos -> Contents \cup {None}]
    /\ tree \in [Repos -> Contents]
    /\ stash \in [Repos -> SUBSET Contents]
    /\ latest \in Descriptor /\ job \in Descriptor
    /\ recovery \in Descriptor \cup {None}
    /\ history \in [Builds -> Descriptor \cup {None}]
    /\ unclean \in BOOLEAN
    /\ phase \in Phases /\ todo \subseteq Repos /\ cur \in Repos \cup {None}
    /\ status \in 0 .. 2 /\ build \in Params
    /\ edits \in 0 .. MaxEdits /\ failures \in 0 .. MaxFailures
    /\ approved \in BOOLEAN
    /\ work \in [Repos -> SUBSET Contents]

\* create_build_branches has detached HEAD or not yet saved its restore points
Snapshot == {"point", "commit", "back", "save"}

\* Where the scripts keep a local work w: in the work tree, in a stash, in the
\* restore point of the recovery descriptor or, while create_build_branches
\* takes the restore points, in its own descriptor.
Kept(r, w) ==
    \/ tree[r] = w
    \/ w \in stash[r]
    \/ recovery # None /\ recovery.point[r] = w
    \/ phase \in Snapshot /\ job.point[r] = w

\* No local work of the developer is ever lost, wherever a job fails or is
\* killed, and whatever build follows.
WorkKept == \A r \in Repos : \A w \in work[r] : Kept(r, w)

\* A recovery restores "all local modifications": when no job runs and no
\* build is left to be reverted, each is in its work tree or in a stash.
WorkRestored ==
    phase = "idle" /\ recovery = None =>
        \A r \in Repos : \A w \in work[r] : tree[r] = w \/ w \in stash[r]

\* The jobs that follow work on what the descriptor names, and a rebuild or a
\* checkout finds the same in the build history: every repository is on the
\* build branch, at its latest commit.  (The target profile's repository is
\* checked out at the profile of the day.)
BuildRecorded ==
    phase = "later" =>
        \A r \in Repos :
            /\ head[r] = build.title
            /\ latest.tip[r] = HeadCommit(r)
            /\ r \notin Pillars => history[build.title].tip[r] = HeadCommit(r)

\* A build without a parent builds the local changes too, and one of another
\* build or of a target profile none of them: they stay behind in the restore
\* points (or, in the checkout pipeline, which takes none, in the work tree).
WorkIsBuilt ==
    phase = "tellCreated" =>
        \A r \in Repos :
            /\ HeadCommit(r) = IF build.kind = "fresh" /\ r \notin Pillars
                               THEN before[r].tree ELSE job.required[r]
            /\ ~ReadOnly => ~Dirty(r)

\* A reset that does not fail leaves every repository on the branch it was on
\* before the build and, unless the branch has got commits since, with the
\* local changes it had.
ResetRestores ==
    phase = "forget" /\ status < 2 =>
        \A r \in Repos :
            /\ head[r] = before[r].branch
            /\ branch[r][head[r]] = before[r].commit => tree[r] = before[r].tree

\* A repository that is not on a branch of the developer is one that the
\* recovery descriptor is there to bring back.
RecoveryPending ==
    \A r \in Repos : head[r] \notin UserBranches => recovery # None

\* A branch to which a build is to be reverted has got other commits.
Moved ==
    recovery # None /\ \E r \in Repos :
        recovery.recBranch[r] # None
        /\ branch[r][recovery.recBranch[r]] # recovery.recCommit[r]

\* A build is reverted in the end, unless its branches have moved, once the user's
\* approval of the polls stays: nothing in the code makes it come or stay.
RevertedInTheEnd == <>[]approved => (recovery # None ~> recovery = None \/ Moved)

=============================================================================
