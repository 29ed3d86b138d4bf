---------------------- MODULE BuildBranchesWorkProofs ----------------------
(***************************************************************************)
(* The work trees of a developer go through the hands of every job:        *)
(* create_build_branches commits local changes on a detached HEAD, records *)
(* what it found and moves the repository to a build branch, and           *)
(* reset_previous_build reads the records and puts everything back.  The   *)
(* theorems, for every set of repositories, branches and contents and      *)
(* every number of builds, edits and failures:                             *)
(*                                                                         *)
(*   WorkIsKept, WorkIsRestored  no local work is lost, and all of it is   *)
(*                 back when no build is left to be reverted;              *)
(*   BuildIsRecorded, WorkIsBuiltAlways  what is built is what was found   *)
(*                 or required, and what the descriptors say was built;    *)
(*   BranchesAreReturned, ResetIsFaithful  a reset that ends leaves every  *)
(*                 repository on its branch and with its local changes.    *)
(*                                                                         *)
(* Three of them have provisos.  Local work is safe only if no job is cut  *)
(* short while create_build_branches takes the restore points, and a reset *)
(* is faithful only if, besides, nothing is checked out: the runs          *)
(* lost_work and checked_out show what happens otherwise.                  *)
(***************************************************************************)
EXTENDS BuildBranchesProofs

-----------------------------------------------------------------------------
(* The invariant *)

\* The work w is a local change of r, or put aside.
Safe(r, w) == (tree[r] = w /\ Dirty(r)) \/ w \in stash[r]

\* It is the restore point of r in d, and not the commit the point is based on.
Taken(d, r, w) == d # None /\ d.point[r] = w /\ d.recCommit[r] # w

SafeIn(d, r, w) == Safe(r, w) \/ Taken(d, r, w)

AllSafe(repos) == \A r \in repos : \A w \in work[r] : Safe(r, w)

AllSafeIn(d) == \A r \in Repos : \A w \in work[r] : SafeIn(d, r, w)

WorkSafe ==
    /\ phase \notin Snapshot => AllSafeIn(recovery)
    /\ phase \in Snapshot => AllSafeIn(job)
    /\ phase \in {"point", "commit"} => AllSafe(todo)
    /\ phase = "back" => AllSafe(todo \ {cur})
    /\ phase \in {"restore", "uncommit", "rebase"} => AllSafe(Repos \ todo)
    /\ phase \in {"delete", "forget"} => AllSafe(Repos)

USE DEF Snapshot, ResetPhases, DescribePhases, BranchPhases

-----------------------------------------------------------------------------
(* Repositories as they were, and repositories moved *)

\* The repositories, the work and what `recovery` puts back are as they were.
LEMMA SameRepos ==
    ASSUME UNCHANGED <<repoVars, work>>
    PROVE  \A r \in Repos : \A w : Safe(r, w)' <=> Safe(r, w)
BY DEF Safe, Dirty, HeadCommit, repoVars

LEMMA SameWork ==
    ASSUME WorkSafe, UNCHANGED <<repoVars, work, recovery>>,
           phase \notin Snapshot, phase' \notin Snapshot,
           phase' \notin {"restore", "uncommit", "rebase", "delete", "forget"}
    PROVE  WorkSafe'
<1>1. AllSafeIn(recovery)'
    BY SameRepos DEF WorkSafe, AllSafeIn, SafeIn, Taken
<1> QED
    BY <1>1 DEF WorkSafe

\* A checkout that fits keeps what is safe.
LEMMA MoveSafe ==
    ASSUME TypeOK, NEW r \in Repos, NEW name, NEW c \in Contents,
           MoveTo(r, name, c), CheckoutFits(r, c),
           HeadCommit(r) \in Contents, HeadCommit(r)' = c, UNCHANGED stash
    PROVE  \A w \in work'[r] : Safe(r, w)' \/ (w \in work[r] /\ ~Safe(r, w))
<1> SUFFICES ASSUME NEW w \in work'[r], ~(w \in work[r] /\ ~Safe(r, w))
             PROVE  Safe(r, w)'
    OBVIOUS
<1>1. CASE Dirty(r)
    <2>1. /\ tree'[r] # c
          /\ work'[r] = IF tree[r] \in work[r]
                        THEN (work[r] \ {tree[r]}) \cup {tree'[r]} ELSE work[r]
        BY <1>1, MoveDirty
    <2>2. CASE w = tree'[r]
        BY <2>1, <2>2 DEF Safe, Dirty
    <2>3. CASE w # tree'[r]
        <3>1. w \in work[r] /\ w # tree[r]
            BY <2>1, <2>3
        <3> QED
            BY <3>1 DEF Safe
    <2> QED
        BY <2>2, <2>3
<1>2. CASE ~Dirty(r)
    BY <1>2, MoveClean DEF Safe
<1> QED
    BY <1>1, <1>2

LEMMA OthersSafe ==
    ASSUME TypeOK, NEW r \in Repos, NEW name, NEW c, MoveTo(r, name, c),
           \A q \in Repos \ {r} : branch'[q] = branch[q], UNCHANGED stash
    PROVE  \A q \in Repos \ {r} : /\ work'[q] = work[q]
                                   /\ \A w : Safe(q, w)' <=> Safe(q, w)
BY MoveEffect DEF Safe, Dirty, HeadCommit

-----------------------------------------------------------------------------
(* While no job runs *)

LEMMA DeveloperKeeps ==
    ASSUME Sound, WorkSafe, Developer \/ Repair
    PROVE  WorkSafe'
<1>1. phase = "idle" /\ phase' = "idle" /\ UNCHANGED recovery
    BY DEF Developer, Repair, Approve, Withdraw, EditFiles, CommitFiles, MergeInto, RepairHead, CleanHistory,
           descVars, loopVars, DescsOnly
<1>2. TypeOK /\ AllSafeIn(recovery)
    BY <1>1 DEF Sound, WorkSafe
<1>3. AllSafeIn(recovery)'
    <2> SUFFICES ASSUME NEW q \in Repos, NEW w \in work'[q], ~Taken(recovery, q, w)
                 PROVE  Safe(q, w)'
        BY <1>1 DEF AllSafeIn, SafeIn, Taken
    <2> USE DEF AllSafeIn, SafeIn, Safe
    <2>1. ASSUME NEW r \in Repos, NEW c \in Contents, EditFiles(r, c)
          PROVE  Safe(q, w)'
        BY <1>2, <2>1 DEF EditFiles, Dirty, HeadCommit, TypeOK
    <2>2. ASSUME NEW r \in Repos, CommitFiles(r)
          PROVE  Safe(q, w)'
        BY <1>2, <2>2 DEF CommitFiles, Dirty, HeadCommit, TypeOK
    <2>3. ASSUME NEW r \in Repos, NEW b \in UserBranches, NEW c \in Contents, MergeInto(r, b, c)
          PROVE  Safe(q, w)'
        <3>1. HeadCommit(q)' = HeadCommit(q)
            <4>1. branch'[q] = IF q = r THEN [branch[r] EXCEPT ![b] = c] ELSE branch[q]
                BY <1>2, <2>3 DEF MergeInto, TypeOK
            <4>2. head' = head /\ at' = at /\ b # head[r]
                BY <2>3 DEF MergeInto
            <4>3. branch[r] = [n \in Names |-> branch[r][n]] /\ head[r] \in Names \cup {Detached}
                BY <1>2 DEF TypeOK
            <4> QED
                BY <4>1, <4>2, <4>3 DEF HeadCommit
        <3> QED
            BY <1>2, <2>3, <3>1 DEF MergeInto, Dirty
    <2>4. ASSUME NEW r \in Repos, NEW b \in UserBranches, RepairHead(r, b)
          PROVE  Safe(q, w)'
        BY <1>2, <2>4 DEF RepairHead, Dirty, HeadCommit, TypeOK
    <2>5. CASE CleanHistory \/ Approve \/ Withdraw
        BY <1>2, <2>5 DEF CleanHistory, Approve, Withdraw, DescsOnly, repoVars, Dirty, HeadCommit
    <2> QED
        BY <2>1, <2>2, <2>3, <2>4, <2>5 DEF Developer, Repair
<1> QED
    BY <1>1, <1>3 DEF WorkSafe

\* Jobs that start, that hand a descriptor on, or that stop outside Snapshot.
LEMMA HandOverKeeps ==
    ASSUME Sound, WorkSafe,
           \/ StartBuild \/ StartPoll \/ DescribeRepositories \/ Update \/ EndBuild
           \/ BeginReset /\ recovery = None
    PROVE  WorkSafe'
<1>1. CASE \/ StartBuild \/ StartPoll \/ DescribeRepositories \/ EndBuild
           \/ TellNextJob("tellDescribed", "keepDescribed") \/ KeepDescribed
           \/ TellNextJob("tellCreated", "keepCreated")
           \/ BeginReset /\ recovery = None
    <2>1. /\ UNCHANGED <<repoVars, work, recovery>>
          /\ phase \notin Snapshot /\ phase' \notin Snapshot
          /\ phase' \notin {"restore", "uncommit", "rebase", "delete", "forget"}
        BY <1>1 DEF StartBuild, StartNewBuild, StartPoll, DescribeRepositories, TellNextJob,
                    KeepDescribed, KeepInHistory, EndBuild, BeginReset, AfterReset, Enter, Stop,
                    DescsOnly, descVars
    <2> QED
        BY <2>1, SameWork
<1>2. CASE KeepCreated
    <2>1. /\ phase = "keepCreated" /\ phase' = "later" /\ recovery' = latest
          /\ UNCHANGED <<repoVars, work>>
        BY <1>2 DEF KeepCreated, KeepInHistory, Enter, DescsOnly
    <2>2. Good(latest) /\ SamePoints(latest) /\ AllSafeIn(recovery)
        BY <2>1 DEF Sound, Consistent, Described, WorkSafe
    <2>3. latest # None
        BY <2>2, NoneAssumption DEF Good
    <2>4. AllSafeIn(recovery)'
        BY <2>1, <2>2, <2>3, SameRepos DEF AllSafeIn, SafeIn, Taken, SamePoints
    <2> QED
        BY <2>1, <2>4 DEF WorkSafe
<1> QED
    BY <1>1, <1>2 DEF Update

-----------------------------------------------------------------------------
(* init_pipeline-reset_previous_build.xml *)

LEMMA BeginResetKeeps ==
    ASSUME Sound, WorkSafe, BeginReset
    PROVE  WorkSafe'
<1>1. CASE recovery = None
    BY <1>1, HandOverKeeps
<1>2. CASE recovery # None
    <2>1. /\ UNCHANGED <<repoVars, work, recovery>> /\ phase = "reset" /\ phase' = "stash"
        BY <1>2 DEF BeginReset, Enter, DescsOnly
    <2> QED
        BY <2>1, SameWork
<1> QED
    BY <1>1, <1>2

LEMMA StashKeeps ==
    ASSUME Sound, WorkSafe, NEW r \in Repos, StashChanges(r)
    PROVE  WorkSafe'
<1>1. /\ phase = "stash" /\ Done(r, "stash", "switch") /\ phase' \in {"stash", "switch"}
      /\ UNCHANGED <<branch, head, at, work, recovery>>
      /\ IF Dirty(r) THEN /\ stash' = [stash EXCEPT ![r] = @ \cup {tree[r]}]
                          /\ tree' = [tree EXCEPT ![r] = HeadCommit(r)]
         ELSE UNCHANGED <<stash, tree>>
    BY DEF StashChanges, ReposOnly, descVars, Done
<1>2. \A q \in Repos : \A w : Safe(q, w) => Safe(q, w)'
    BY <1>1 DEF Safe, Dirty, HeadCommit, Sound, TypeOK
<1>3. AllSafeIn(recovery)'
    BY <1>1, <1>2 DEF WorkSafe, AllSafeIn, SafeIn, Taken
<1> QED
    BY <1>1, <1>3 DEF WorkSafe

\* A clean repository is moved: its work is in a stash or in the descriptor.
LEMMA MoveCleanKeeps ==
    ASSUME Sound, NEW r \in Repos, ~Dirty(r), NEW name, NEW c \in Contents,
           MoveTo(r, name, c), UNCHANGED <<branch, stash>>
    PROVE  /\ work' = work
           /\ \A q \in Repos : \A w : Safe(q, w) => Safe(q, w)'
<1>1. TypeOK
    BY DEF Sound
<1>2. work' = work /\ \A w : Safe(r, w) => Safe(r, w)'
    BY <1>1, MoveClean DEF Safe
<1> QED
    BY <1>1, <1>2, OthersSafe

LEMMA SwitchKeeps ==
    ASSUME Sound, WorkSafe, NEW r \in Repos, SwitchBack(r)
    PROVE  WorkSafe'
<1>1. /\ phase = "switch" /\ r \in todo /\ phase' \in {"switch", "restore"}
      /\ phase' = "restore" => todo' = Repos
      /\ UNCHANGED <<branch, stash, recovery>>
    BY DEF SwitchBack, ReposOnly, descVars, Done
<1>2. ~Dirty(r)
    BY <1>1 DEF Sound, Consistent, CleanTrees
<1>3. job.recBranch[r] \in UserBranches /\ branch[r][job.recBranch[r]] \in Contents
    BY <1>1 DEF Sound, Consistent, Handed, Good, Commits
<1>4. MoveTo(r, job.recBranch[r], branch[r][job.recBranch[r]])
    BY <1>3, ReposAssumption DEF SwitchBack
<1>5. work' = work /\ \A q \in Repos : \A w : Safe(q, w) => Safe(q, w)'
    BY <1>1, <1>2, <1>3, <1>4, MoveCleanKeeps
<1>6. AllSafeIn(recovery)'
    BY <1>1, <1>5 DEF WorkSafe, AllSafeIn, SafeIn, Taken
<1> QED
    BY <1>1, <1>6 DEF WorkSafe, AllSafe

LEMMA RestoreKeeps ==
    ASSUME Sound, WorkSafe, NEW r \in Repos, RestorePoint(r)
    PROVE  WorkSafe'
<1>1. /\ phase = "restore" /\ r \in todo /\ job = recovery /\ Good(recovery)
      /\ UNCHANGED <<branch, stash, recovery>>
    BY DEF RestorePoint, ReposOnly, descVars, Sound, Consistent, Handed
<1>2. AllSafeIn(recovery) /\ AllSafe(Repos \ todo)
    BY <1>1 DEF WorkSafe
<1>3. CASE Available(r)
    <2>1. /\ MoveTo(r, Detached, job.point[r]) /\ job.point[r] \in Contents
          /\ phase' = "uncommit" /\ UNCHANGED todo
        BY <1>3 DEF RestorePoint, Available, Sound, TypeOK, Descriptor
    <2>2. ~Dirty(r)
        BY <1>1 DEF Sound, Consistent, CleanTrees
    <2>3. work' = work /\ \A q \in Repos : \A w : Safe(q, w) => Safe(q, w)'
        BY <1>1, <2>1, <2>2, MoveCleanKeeps
    <2> QED
        BY <1>1, <1>2, <2>1, <2>3 DEF WorkSafe, AllSafe, AllSafeIn, SafeIn, Taken
<1>4. CASE ~Available(r)
    <2>1. /\ UNCHANGED <<repoVars, work>> /\ Done(r, "restore", "delete")
        BY <1>1, <1>4 DEF RestorePoint, repoVars
    <2>2. recovery.point[r] = None
        BY <1>1, <1>4, ReposAssumption DEF Available, Good, Contents
    <2>3. work[r] \subseteq Contents /\ None \notin Contents
        BY ReposAssumption DEF Sound, TypeOK, Contents
    <2>4. AllSafe({r} \cup (Repos \ todo))
        BY <1>2, <2>2, <2>3 DEF AllSafe, AllSafeIn, SafeIn, Taken
    <2>5. /\ \A q \in {r} \cup (Repos \ todo) : \A w \in work'[q] : Safe(q, w)'
          /\ AllSafeIn(recovery)'
        BY <1>1, <1>2, <2>1, <2>4, SameRepos DEF AllSafe, AllSafeIn, SafeIn, Taken
    <2>6. /\ phase' \in {"restore", "delete"} /\ Repos \ todo' \subseteq {r} \cup (Repos \ todo)
          /\ phase' = "delete" => Repos \subseteq {r} \cup (Repos \ todo)
        BY <2>1 DEF Done
    <2> QED
        BY <2>5, <2>6 DEF WorkSafe, AllSafe
<1> QED
    BY <1>3, <1>4

LEMMA UncommitKeeps ==
    ASSUME Sound, WorkSafe, Uncommit, NEW r \in Repos, cur = r
    PROVE  WorkSafe'
<1>1. /\ phase = "uncommit" /\ phase' = "rebase" /\ r \in todo
      /\ at' = [at EXCEPT ![r] = job.recCommit[r]]
      /\ UNCHANGED <<branch, head, tree, stash, work, todo, recovery>>
    BY DEF Uncommit, ReposOnly, descVars, Sound, Consistent, Looping
<1>2. ~Dirty(r)
    BY <1>1 DEF Sound, Consistent, Looping, Dirty, HeadCommit
<1>3. \A q \in Repos : \A w : Safe(q, w) => Safe(q, w)'
    BY <1>1, <1>2 DEF Safe, Dirty, HeadCommit, Sound, TypeOK
<1> QED
    BY <1>1, <1>3 DEF WorkSafe, AllSafe, AllSafeIn, SafeIn, Taken

LEMMA RebaseKeeps ==
    ASSUME Sound, WorkSafe, RebaseOnBranch, NEW r \in Repos, cur = r
    PROVE  WorkSafe'
<1> DEFINE name == job.recBranch[r]
           tip == branch[r][name]
<1>1. /\ phase = "rebase" /\ MoveTo(r, name, tip) /\ Done(r, "restore", "delete")
      /\ CheckoutFits(r, tip) /\ UNCHANGED <<branch, stash, recovery>>
    BY DEF RebaseOnBranch, ReposOnly, descVars
<1>2. /\ r \in todo /\ job = recovery /\ TypeOK
      /\ HeadCommit(r) = job.recCommit[r] /\ HeadCommit(r) \in Contents
      /\ tree[r] = job.point[r]
    BY <1>1 DEF Sound, Consistent, Looping, Handed, HeadCommit, Commits
<1>3. name \in UserBranches /\ name # Detached /\ tip \in Contents
    BY <1>1, ReposAssumption DEF Sound, Consistent, Handed, Good, Commits
<1> HIDE DEF name
<1>4. HeadCommit(r)' = tip
    <2>1. branch' = branch
        BY <1>1
    <2> QED
        BY <1>1, <1>2, <1>3, <2>1, MoveEffect DEF HeadCommit
<1> HIDE DEF tip
<1>5. \A w \in work'[r] : Safe(r, w)' \/ (w \in work[r] /\ ~Safe(r, w))
    BY <1>1, <1>2, <1>3, <1>4, MoveSafe
<1>6. \A w \in work[r] : Safe(r, w)
    BY <1>1, <1>2 DEF WorkSafe, AllSafeIn, SafeIn, Taken, Safe, Dirty
<1>7. \A q \in Repos \ {r} : work'[q] = work[q] /\ \A w : Safe(q, w)' <=> Safe(q, w)
    BY <1>1, <1>2, OthersSafe
<1>8. /\ AllSafeIn(recovery)'
      /\ \A q \in {r} \cup (Repos \ todo) : \A w \in work'[q] : Safe(q, w)'
    BY <1>1, <1>5, <1>6, <1>7 DEF WorkSafe, AllSafe, AllSafeIn, SafeIn, Taken
<1>9. /\ phase' \in {"restore", "delete"} /\ Repos \ todo' \subseteq {r} \cup (Repos \ todo)
      /\ phase' = "delete" => Repos \subseteq {r} \cup (Repos \ todo)
    BY <1>1 DEF Done
<1> QED
    BY <1>8, <1>9 DEF WorkSafe, AllSafe

LEMMA DeleteKeeps ==
    ASSUME Sound, WorkSafe, NEW r \in Repos, DeleteBuildBranch(r)
    PROVE  WorkSafe'
<1> USE ReposAssumption
<1>1. /\ phase = "delete" /\ phase' \in {"delete", "forget"}
      /\ UNCHANGED <<head, at, tree, stash, work, recovery>>
    BY DEF DeleteBuildBranch, ReposOnly, descVars, Done
<1>2. job.recBranch[r] \in UserBranches /\ job.title \in Builds
    BY <1>1 DEF Sound, Consistent, Handed, Good
<1>3. /\ head[r] = job.recBranch[r] /\ head[r] # job.title
      /\ branch' = [branch EXCEPT ![r][job.title] = None]
    BY <1>2 DEF DeleteBuildBranch, Builds
<1>4. \A q \in Repos : HeadCommit(q)' = HeadCommit(q)
    BY <1>1, <1>2, <1>3 DEF HeadCommit, Sound, TypeOK, Names
<1>5. \A q \in Repos : \A w : Safe(q, w)' <=> Safe(q, w)
    BY <1>1, <1>4 DEF Safe, Dirty
<1>6. AllSafe(Repos)' /\ AllSafeIn(recovery)'
    BY <1>1, <1>5 DEF WorkSafe, AllSafe, AllSafeIn, SafeIn
<1> QED
    BY <1>1, <1>6 DEF WorkSafe

LEMMA ForgetKeeps ==
    ASSUME Sound, WorkSafe, ForgetBuild
    PROVE  WorkSafe'
<1>1. phase = "forget" /\ phase' \in {"idle", "pull", "describe"} /\ UNCHANGED <<repoVars, work>>
    BY DEF ForgetBuild, DescsOnly, Stop, Enter, AfterReset
<1>2. AllSafeIn(recovery)'
    BY <1>1, SameRepos DEF WorkSafe, AllSafe, AllSafeIn, SafeIn
<1> QED
    BY <1>1, <1>2 DEF WorkSafe

-----------------------------------------------------------------------------
(* poll_pipeline-update_sources.xml *)

LEMMA PullKeeps ==
    ASSUME Sound, WorkSafe, NEW r \in Repos, PullBranch(r)
    PROVE  WorkSafe'
<1>1. /\ phase = "pull" /\ phase' \in {"pull", "idle"}
      /\ head[r] \in UserBranches /\ UNCHANGED <<stash, recovery>>
    BY DEF PullBranch, Stop, Done, descVars
<1>2. TypeOK /\ HeadCommit(r) \in Contents /\ AllSafeIn(recovery)
    BY <1>1 DEF Sound, Consistent, Commits, WorkSafe
<1>3. AllSafeIn(recovery)'
    <2>1. CASE UNCHANGED <<branch, head, at, tree, work, edits>>
        BY <1>1, <1>2, <2>1 DEF AllSafeIn, SafeIn, Safe, Taken, Dirty, HeadCommit
    <2>2. ASSUME NEW c \in Contents, CheckoutFits(r, c),
                 branch' = [branch EXCEPT ![r][head[r]] = c], MoveTo(r, head[r], c)
          PROVE  AllSafeIn(recovery)'
        <3>1. branch'[r][head[r]] = c /\ \A q \in Repos \ {r} : branch'[q] = branch[q]
            BY <1>1, <1>2, <2>2 DEF TypeOK, Names
        <3>2. HeadCommit(r)' = c
            <4>1. head'[r] = head[r] /\ head[r] # Detached
                BY <1>1, <1>2, <2>2, MoveEffect, ReposAssumption
            <4> QED
                BY <3>1, <4>1 DEF HeadCommit
        <3>3. \A w \in work'[r] : Safe(r, w)' \/ (w \in work[r] /\ ~Safe(r, w))
            BY <1>1, <1>2, <2>2, <3>2, MoveSafe
        <3>4. \A q \in Repos \ {r} : work'[q] = work[q] /\ \A w : Safe(q, w)' <=> Safe(q, w)
            BY <1>1, <1>2, <2>2, <3>1, OthersSafe
        <3> QED
            BY <1>1, <1>2, <3>3, <3>4 DEF AllSafeIn, SafeIn, Taken
    <2> QED
        BY <2>1, <2>2 DEF PullBranch
<1> QED
    BY <1>1, <1>3 DEF WorkSafe

-----------------------------------------------------------------------------
(* init_pipeline-create_build_branches.xml *)

LEMMA BeginCreateKeeps ==
    ASSUME Sound, WorkSafe, BeginCreate
    PROVE  WorkSafe'
<1>1. /\ phase = "create" /\ phase' = "point" /\ todo' = Repos
      /\ UNCHANGED <<repoVars, work>>
    BY DEF BeginCreate, Enter
<1>2. recovery = None
    BY <1>1 DEF Sound, Consistent, Handed
<1>3. AllSafe(todo)' /\ AllSafeIn(job)'
    BY <1>1, <1>2, SameRepos DEF WorkSafe, AllSafe, AllSafeIn, SafeIn, Taken
<1> QED
    BY <1>1, <1>3 DEF WorkSafe

LEMMA DetachKeeps ==
    ASSUME Sound, WorkSafe, NEW r \in Repos, DetachHead(r)
    PROVE  WorkSafe'
<1>1. /\ phase = "point" /\ phase' = "commit" /\ r \in todo
      /\ MoveTo(r, Detached, HeadCommit(r))
      /\ UNCHANGED <<branch, stash, todo, job>>
    BY DEF DetachHead, ReposOnly, descVars
<1>2. TypeOK /\ HeadCommit(r) \in Contents /\ todo \subseteq Repos
    BY DEF Sound, Consistent, Commits, TypeOK
<1>3. CheckoutFits(r, HeadCommit(r))
    BY DEF CheckoutFits, Fits
<1>4. HeadCommit(r)' = HeadCommit(r)
    <2>1. head'[r] = Detached /\ at'[r] = HeadCommit(r)
        BY <1>1, <1>2, MoveEffect
    <2> QED
        BY <2>1 DEF HeadCommit
<1>5. \A w \in work'[r] : Safe(r, w)' \/ (w \in work[r] /\ ~Safe(r, w))
    BY <1>1, <1>2, <1>3, <1>4, MoveSafe
<1>6. \A q \in Repos \ {r} : work'[q] = work[q] /\ \A w : Safe(q, w)' <=> Safe(q, w)
    BY <1>1, <1>2, OthersSafe
<1>7. AllSafe(todo)' /\ AllSafeIn(job)'
    BY <1>1, <1>2, <1>5, <1>6 DEF WorkSafe, AllSafe, AllSafeIn, SafeIn, Taken
<1> QED
    BY <1>1, <1>7 DEF WorkSafe

LEMMA CommitPointKeeps ==
    ASSUME Sound, WorkSafe, CommitPoint, NEW r \in Repos, cur = r
    PROVE  WorkSafe'
<1>1. /\ phase = "commit" /\ phase' = "back" /\ r \in todo /\ todo \subseteq Repos
      /\ UNCHANGED <<branch, head, tree, stash, work, todo, cur>>
      /\ head[r] = Detached /\ at[r] = job.recCommit[r] /\ Ready(job) /\ job \in Descriptor
    BY DEF CommitPoint, Sound, TypeOK, Consistent, Looping, Described
<1>2. AllSafeIn(job) /\ AllSafe(todo)
    BY <1>1 DEF WorkSafe
<1>3. CASE ReadOnly
    <2>1. UNCHANGED <<at, job>>
        BY <1>3 DEF CommitPoint
    <2> QED
        BY <1>1, <1>2, <2>1, SameRepos DEF WorkSafe, AllSafe, AllSafeIn, SafeIn, Taken, repoVars
<1>4. CASE ~ReadOnly
    <2>1. /\ at' = [at EXCEPT ![r] = tree[r]]
          /\ job' = [job EXCEPT !.point[r] = tree[r]]
        BY <1>4 DEF CommitPoint
    <2>2. /\ job' \in Descriptor /\ job'.recCommit = job.recCommit
          /\ job'.point[r] = tree[r]
          /\ \A q \in Repos \ {r} : job'.point[q] = job.point[q]
        BY <1>1, <2>1 DEF Descriptor, Sound, TypeOK
    <2>3. job' # None /\ job # None
        BY <1>1, <2>2, NoneAssumption
    <2>4. \A q \in Repos \ {r} : \A w : Safe(q, w)' <=> Safe(q, w)
        BY <1>1, <2>1 DEF Safe, Dirty, HeadCommit, Sound, TypeOK
    <2>5. \A w : Safe(r, w) => SafeIn(job, r, w)'
        BY <1>1, <2>2, <2>3 DEF Safe, SafeIn, Taken, Dirty, HeadCommit
    <2>6. AllSafeIn(job)'
        BY <1>1, <1>2, <2>2, <2>3, <2>4, <2>5 DEF AllSafe, AllSafeIn, SafeIn, Taken
    <2>7. AllSafe(todo \ {cur})'
        BY <1>1, <1>2, <2>4 DEF AllSafe
    <2> QED
        BY <1>1, <2>6, <2>7 DEF WorkSafe
<1> QED
    BY <1>3, <1>4

LEMMA BackKeeps ==
    ASSUME Sound, WorkSafe, BackOnBranch, NEW r \in Repos, cur = r
    PROVE  WorkSafe'
<1> DEFINE name == job.recBranch[r]
           tip == branch[r][name]
<1>1. /\ phase = "back" /\ MoveTo(r, name, tip) /\ Done(r, "point", "save")
      /\ phase' \in {"point", "save"}
      /\ CheckoutFits(r, tip) /\ UNCHANGED <<branch, stash, job>>
    BY DEF BackOnBranch, ReposOnly, descVars, Done
<1>2. TypeOK /\ HeadCommit(r) \in Contents /\ Ready(job) /\ todo \subseteq Repos
    BY <1>1 DEF Sound, TypeOK, Consistent, Commits, Described
<1>3. name \in UserBranches /\ name # Detached /\ tip \in Contents
    BY <1>2, ReposAssumption DEF Ready, Good, Sound, Consistent, Commits
<1> HIDE DEF name
<1>4. HeadCommit(r)' = tip
    <2>1. branch' = branch
        BY <1>1
    <2> QED
        BY <1>1, <1>2, <1>3, <2>1, MoveEffect DEF HeadCommit
<1> HIDE DEF tip
<1>5. \A w \in work'[r] : Safe(r, w)' \/ (w \in work[r] /\ ~Safe(r, w))
    BY <1>1, <1>2, <1>3, <1>4, MoveSafe
<1>6. \A q \in Repos \ {r} : work'[q] = work[q] /\ \A w : Safe(q, w)' <=> Safe(q, w)
    BY <1>1, <1>2, OthersSafe
<1>7. AllSafeIn(job)'
    BY <1>1, <1>5, <1>6 DEF WorkSafe, AllSafeIn, SafeIn, Taken
<1>8. phase' = "point" => AllSafe(todo)'
    <2>1. phase' = "point" => todo' = todo \ {r}
        BY <1>1 DEF Done
    <2> QED
        BY <1>1, <1>2, <1>6, <2>1 DEF WorkSafe, AllSafe
<1> QED
    BY <1>1, <1>7, <1>8 DEF WorkSafe

LEMMA SaveKeeps ==
    ASSUME Sound, WorkSafe, SavePoints
    PROVE  WorkSafe'
<1>1. /\ phase = "save" /\ phase' = "branch" /\ recovery' = job
      /\ UNCHANGED <<repoVars, work>>
    BY DEF SavePoints, Enter, DescsOnly
<1>2. AllSafeIn(recovery)'
    BY <1>1, SameRepos DEF WorkSafe, AllSafeIn, SafeIn, Taken
<1> QED
    BY <1>1, <1>2 DEF WorkSafe

LEMMA CreateKeeps ==
    ASSUME Sound, WorkSafe, NEW r \in Repos, CreateBranch(r)
    PROVE  WorkSafe'
<1> DEFINE c == BuildCommit(r)
           title == build.title
<1>1. /\ phase = "branch" /\ phase' \in {"branch", "tellCreated"}
      /\ branch' = [branch EXCEPT ![r][title] = c]
      /\ MoveTo(r, title, c) /\ CheckoutFits(r, c)
      /\ UNCHANGED <<stash, recovery>>
    BY DEF CreateBranch, Done
<1>2. TypeOK /\ HeadCommit(r) \in Contents /\ title \in Names /\ title # Detached
    BY <1>1, ReposAssumption DEF Sound, Consistent, Commits, Handed, Builds, Names
<1>3. HeadCommit(r)' \in Contents
    BY CreateSound DEF Sound, Consistent, Commits
<1> HIDE DEF c, title
<1>4. branch'[r][title] = c /\ \A q \in Repos \ {r} : branch'[q] = branch[q]
    BY <1>1, <1>2 DEF TypeOK
<1>5. HeadCommit(r)' = c
    BY <1>1, <1>2, <1>4, MoveEffect DEF HeadCommit
<1>6. \A w \in work'[r] : Safe(r, w)' \/ (w \in work[r] /\ ~Safe(r, w))
    BY <1>1, <1>2, <1>3, <1>5, MoveSafe
<1>7. \A q \in Repos \ {r} : work'[q] = work[q] /\ \A w : Safe(q, w)' <=> Safe(q, w)
    BY <1>1, <1>2, <1>4, OthersSafe
<1>8. AllSafeIn(recovery)'
    BY <1>1, <1>6, <1>7 DEF WorkSafe, AllSafeIn, SafeIn, Taken
<1> QED
    BY <1>1, <1>8 DEF WorkSafe

LEMMA GeneratedKeeps ==
    ASSUME Sound, WorkSafe, NEW r \in Repos, NEW c \in Contents, CommitGenerated(r, c)
    PROVE  WorkSafe'
<1>1. /\ phase = "later" /\ phase' = "later" /\ ~ReadOnly
      /\ branch' = [branch EXCEPT ![r][build.title] = c] /\ tree' = [tree EXCEPT ![r] = c]
      /\ UNCHANGED <<head, at, stash, recovery, work>>
    BY DEF CommitGenerated, loopVars
<1>2. ~Dirty(r)
    BY <1>1 DEF Sound, Consistent, CleanTrees
<1>3. \A q \in Repos : \A w : Safe(q, w) => Safe(q, w)'
    BY <1>1, <1>2 DEF Safe, Dirty, HeadCommit, Sound, TypeOK
<1>4. AllSafeIn(recovery)'
    BY <1>1, <1>3 DEF WorkSafe, AllSafeIn, SafeIn, Taken
<1> QED
    BY <1>1, <1>4 DEF WorkSafe

-----------------------------------------------------------------------------
(* Jobs that fail, and every step *)

\* Nothing that create_build_branches finds while it takes the restore points
\* makes it fail: the commits it checks out are those the branches point to.
LEMMA NeverRefused ==
    ASSUME Sound, Refuse
    PROVE  phase \notin Snapshot
<1> SUFFICES ASSUME phase \in Snapshot
             PROVE  FALSE
    OBVIOUS
<1>1. CASE \E r \in todo : Blocked(r)
    <2>1. PICK r \in todo : Blocked(r)
        BY <1>1
    <2>2. phase = "point" /\ head[r] = Detached /\ r \in Repos
        BY <2>1 DEF Blocked, Sound, TypeOK
    <2>3. At(job, r) /\ Good(job)
        BY <2>1, <2>2 DEF Sound, Consistent, Looping, Described, Ready
    <2> QED
        BY <2>2, <2>3, ReposAssumption DEF At, Good
<1>2. CASE phase = "back" /\ ~CheckoutFits(cur, branch[cur][job.recBranch[cur]])
    <2>1. /\ cur \in Repos /\ Ready(job) /\ Unmoved(job) /\ head[cur] = Detached
          /\ IF ReadOnly THEN at[cur] = job.recCommit[cur] ELSE at[cur] = tree[cur]
        BY <1>2, CurInLoop DEF Sound, Consistent, Looping, Described
    <2>2. branch[cur][job.recBranch[cur]] = job.recCommit[cur]
        BY <2>1 DEF Unmoved
    <2> QED
        BY <1>2, <2>1, <2>2 DEF CheckoutFits, Fits, HeadCommit
<1> QED
    BY <1>1, <1>2 DEF Refuse

LEMMA StopKeeps ==
    ASSUME Sound, WorkSafe, Refuse \/ Interrupt, FailAt \cap Snapshot = {}
    PROVE  WorkSafe'
<1>1. /\ UNCHANGED <<repoVars, work, recovery>> /\ phase' = "idle"
    BY DEF Refuse, JobFails, Interrupt, Stop, descVars
<1>2. phase \notin Snapshot
    BY NeverRefused DEF Interrupt
<1> QED
    BY <1>1, <1>2, SameWork

LEMMA NextKeeps ==
    ASSUME Sound, WorkSafe, [Next]_vars, FailAt \cap Snapshot = {}
    PROVE  WorkSafe'
<1>1. CASE Reset
    <2>1. CASE BeginReset BY <2>1, BeginResetKeeps
    <2>2. CASE Uncommit BY <2>2, CurInLoop, UncommitKeeps DEF Uncommit
    <2>3. CASE RebaseOnBranch BY <2>3, CurInLoop, RebaseKeeps DEF RebaseOnBranch
    <2>4. CASE ForgetBuild BY <2>4, ForgetKeeps
    <2>5. CASE \E r \in Repos : \/ StashChanges(r) \/ SwitchBack(r) \/ RestorePoint(r)
                                \/ DeleteBuildBranch(r)
        BY <2>5, StashKeeps, SwitchKeeps, RestoreKeeps, DeleteKeeps
    <2> QED
        BY <1>1, <2>1, <2>2, <2>3, <2>4, <2>5 DEF Reset
<1>2. CASE Create
    <2>1. CASE BeginCreate BY <2>1, BeginCreateKeeps
    <2>2. CASE CommitPoint BY <2>2, CurInLoop, CommitPointKeeps DEF CommitPoint
    <2>3. CASE BackOnBranch BY <2>3, CurInLoop, BackKeeps DEF BackOnBranch
    <2>4. CASE SavePoints BY <2>4, SaveKeeps
    <2>5. CASE \E r \in Repos : DetachHead(r) \/ CreateBranch(r)
        BY <2>5, DetachKeeps, CreateKeeps
    <2> QED
        BY <1>2, <2>1, <2>2, <2>3, <2>4, <2>5 DEF Create
<1>3. CASE StartBuild \/ StartPoll \/ DescribeRepositories \/ Update \/ EndBuild
    BY <1>3, HandOverKeeps
<1>4. CASE \E r \in Repos : PullBranch(r)
    BY <1>4, PullKeeps
<1>5. CASE Refuse \/ Interrupt
    BY <1>5, StopKeeps
<1>6. CASE \E r \in Repos, c \in Contents : CommitGenerated(r, c)
    BY <1>6, GeneratedKeeps
<1>7. CASE Developer \/ Repair
    BY <1>7, DeveloperKeeps
<1>8. CASE UNCHANGED vars
    BY <1>8 DEF vars, WorkSafe, AllSafe, AllSafeIn, SafeIn, Taken, Safe, Dirty, HeadCommit
<1> QED
    BY <1>1, <1>2, <1>3, <1>4, <1>5, <1>6, <1>7, <1>8 DEF Next, JobStep

LEMMA WorkStaysSafe ==
    ASSUME FailAt \cap Snapshot = {}
    PROVE  Spec => []WorkSafe
<1>1. Init => WorkSafe
    BY DEF Init, WorkSafe, AllSafeIn
<1>2. Sound /\ WorkSafe /\ [Next]_vars => WorkSafe'
    BY NextKeeps
<1> QED
    BY <1>1, <1>2, InductiveInvariant, PTL DEF Spec

\* No local work of the developer is lost, whichever command fails, whenever a
\* job is killed and whatever builds, rebuilds and polls follow: as long as
\* create_build_branches is not cut short between the first restore point it
\* commits and the copy of its descriptor that holds them all.
THEOREM WorkIsKept ==
    ASSUME FailAt \cap Snapshot = {}
    PROVE  Spec => []WorkKept
<1>1. WorkSafe => WorkKept
    BY DEF WorkSafe, AllSafeIn, SafeIn, Safe, Taken, WorkKept, Kept
<1> QED
    BY <1>1, WorkStaysSafe, PTL

\* Under the same proviso, when no build is left to be reverted, all of it is
\* back in the work trees or in a stash: what the run lost_work refutes without
\* the proviso.
THEOREM WorkIsRestored ==
    ASSUME FailAt \cap Snapshot = {}
    PROVE  Spec => []WorkRestored
<1>1. WorkSafe => WorkRestored
    BY DEF WorkSafe, AllSafeIn, SafeIn, Safe, Taken, WorkRestored
<1> QED
    BY <1>1, WorkStaysSafe, PTL

-----------------------------------------------------------------------------
(* What the descriptors record: the invariant *)

\* latest_commit_ids is what a build branch is at, as soon as there is one.
Tipped ==
    /\ phase \in {"tellDescribed"} \cup Snapshot => job.tip = job.required
    /\ phase \in {"keepDescribed", "create"} => latest.tip = latest.required
    /\ phase = "branch" =>
          \A r \in Repos :
              IF r \in todo THEN job.tip[r] = job.required[r]
              ELSE job.tip[r] = HeadCommit(r) /\ HeadCommit(r) = BuildCommit(r)
    /\ phase = "tellCreated" =>
          \A r \in Repos : job.tip[r] = HeadCommit(r) /\ HeadCommit(r) = BuildCommit(r)
    /\ phase = "keepCreated" => job = latest
    /\ phase \in {"keepCreated", "later"} =>
          \A r \in Repos : latest.tip[r] = HeadCommit(r)
    /\ phase = "later" /\ ~ReadOnly => history[build.title] = latest

OfParent(commits) ==
    \A r \in Repos \ Pillars : commits[r] = history[build.title].tip[r]

\* The checkout pipeline puts back what the build history has for the title.
PutBack ==
    ReadOnly =>
        /\ build.title = build.parent
        /\ phase \in {"tellDescribed", "branch", "tellCreated"} \cup Snapshot =>
              OfParent(job.required)
        /\ phase \in {"keepDescribed", "create"} => OfParent(latest.required)
        /\ phase \in {"keepCreated", "later"} =>
              \A r \in Repos \ Pillars : HeadCommit(r) = history[build.title].tip[r]

\* d says where every repository was when the build came upon it.
Basis(d) ==
    \A r \in Repos : /\ d.recBranch[r] = before[r].branch
                     /\ d.recCommit[r] = before[r].commit

Based ==
    /\ recovery # None => Basis(recovery)
    /\ phase \in Snapshot \cup {"branch", "tellCreated"} => Basis(job)
    /\ phase = "keepCreated" => Basis(latest)

PointTaken(r) == ~ReadOnly => job.point[r] = before[r].tree

\* The restore points are the work trees that the build found.
Noted ==
    /\ phase \in {"point", "commit"} =>
          /\ \A r \in todo : tree[r] = before[r].tree
          /\ \A r \in Repos \ todo : PointTaken(r)
    /\ phase = "back" =>
          /\ \A r \in todo \ {cur} : tree[r] = before[r].tree
          /\ \A r \in (Repos \ todo) \cup {cur} : PointTaken(r)
    /\ phase \in {"save", "branch", "tellCreated"} => \A r \in Repos : PointTaken(r)

OnFormerBranch(r) == head[r] = before[r].branch

Returned ==
    /\ phase = "delete" => \A r \in Repos \ todo : OnFormerBranch(r)
    /\ phase = "forget" => \A r \in Repos : OnFormerBranch(r)

Recorded == Tipped /\ PutBack /\ Based /\ Noted /\ Returned

-----------------------------------------------------------------------------
(* Steps that start, revert or end a build *)

Recording ==
    {"tellDescribed", "keepDescribed", "create", "delete", "forget"}
        \cup Snapshot \cup BranchPhases

\* Phases in which nothing is being recorded.
LEMMA NothingRecorded ==
    ASSUME Recorded, recovery' \in {recovery, None}, UNCHANGED before,
           phase' \notin Recording, ReadOnly' => build'.title = build'.parent
    PROVE  Recorded'
<1>1. Tipped' /\ PutBack' /\ Noted' /\ Returned'
    BY DEF Recording, Tipped, PutBack, Noted, Returned
<1>2. Based'
    BY DEF Recording, Recorded, Based, Basis
<1> QED
    BY <1>1, <1>2 DEF Recorded

LEMMA StartRecords ==
    ASSUME Recorded, StartBuild \/ StartPoll
    PROVE  Recorded'
<1>1. CASE StartPoll
    <2>1. /\ UNCHANGED <<recovery, before>> /\ phase' = "reset"
          /\ build'.kind = "poll"
        BY <1>1 DEF StartPoll, Enter, descVars
    <2> QED
        BY <2>1, NothingRecorded DEF Recording, ReadOnly
<1>2. ASSUME NEW kind \in Kinds, NEW parent \in Titled \cup {None}, StartNewBuild(kind, parent)
      PROVE  Recorded'
    <2>1. /\ UNCHANGED <<recovery, before>> /\ phase' = "reset"
          /\ build' = [kind |-> kind, parent |-> parent,
                       title |-> IF kind = "checkout" THEN parent ELSE Cardinality(Titled) + 1]
        BY <1>2 DEF StartNewBuild, Enter
    <2> QED
        BY <2>1, NothingRecorded DEF Recording, ReadOnly
<1> QED
    BY <1>1, <1>2 DEF StartBuild

\* The steps that keep the build and enter no phase that records.
LEMMA PassiveRecords ==
    ASSUME Recorded,
           \/ Developer \/ Repair \/ EndBuild \/ Refuse \/ Interrupt
           \/ BeginReset \/ Uncommit \/ ForgetBuild
           \/ \E r \in Repos : StashChanges(r) \/ SwitchBack(r) \/ PullBranch(r)
    PROVE  Recorded'
<1>1. UNCHANGED <<before, build>> /\ recovery' \in {recovery, None}
    BY DEF Developer, Repair, Approve, Withdraw, EditFiles, CommitFiles, MergeInto, RepairHead, CleanHistory,
           EndBuild, Refuse, JobFails, Interrupt, BeginReset, StashChanges, SwitchBack,
           Uncommit, ForgetBuild, PullBranch, DescsOnly, ReposOnly, descVars
<1>2. phase' \notin Recording
    <2>1. CASE Developer \/ Repair
        <3>1. phase' = "idle"
            BY <2>1 DEF Developer, Repair, Approve, Withdraw, EditFiles, CommitFiles, MergeInto,
                        RepairHead, CleanHistory, loopVars
        <3> QED
            BY <3>1 DEF Recording
    <2>2. CASE EndBuild \/ Refuse \/ Interrupt
        BY <2>2 DEF EndBuild, Refuse, JobFails, Interrupt, Stop, Recording
    <2>3. CASE BeginReset \/ Uncommit \/ ForgetBuild
        BY <2>3 DEF BeginReset, Uncommit, ForgetBuild, AfterReset, Enter, Stop, Recording
    <2>4. CASE \E r \in Repos : StashChanges(r) \/ SwitchBack(r) \/ PullBranch(r)
        BY <2>4 DEF StashChanges, SwitchBack, PullBranch, Done, Stop, Recording
    <2> QED
        BY <2>1, <2>2, <2>3, <2>4
<1>3. ReadOnly' => build'.title = build'.parent
    BY <1>1 DEF Recorded, PutBack, ReadOnly
<1> QED
    BY <1>1, <1>2, <1>3, NothingRecorded

\* The steps of reset_previous_build that lead to the removal of the branches.
LEMMA RestoreRecords ==
    ASSUME Recorded, \/ RebaseOnBranch
                     \/ \E r \in Repos : RestorePoint(r)
    PROVE  Recorded'
<1>1. UNCHANGED <<before, build, recovery>>
    BY DEF RebaseOnBranch, RestorePoint, ReposOnly, descVars
<1>2. phase' \in {"restore", "uncommit"} \/ (phase' = "delete" /\ todo' = Repos)
    BY DEF RebaseOnBranch, RestorePoint, Done
<1>3. ReadOnly' => build'.title = build'.parent
    BY <1>1 DEF Recorded, PutBack, ReadOnly
<1>4. CASE phase' \in {"restore", "uncommit"}
    BY <1>1, <1>3, <1>4, NothingRecorded DEF Recording
<1>5. CASE phase' = "delete" /\ todo' = Repos
    <2>1. Tipped' /\ PutBack' /\ Noted' /\ Returned'
        BY <1>3, <1>5 DEF Tipped, PutBack, Noted, Returned
    <2>2. Based'
        BY <1>1, <1>5 DEF Recorded, Based, Basis
    <2> QED
        BY <2>1, <2>2 DEF Recorded
<1> QED
    BY <1>2, <1>4, <1>5

LEMMA DeleteRecords ==
    ASSUME Sound, Recorded, NEW r \in Repos, DeleteBuildBranch(r)
    PROVE  Recorded'
<1> USE ReposAssumption
<1>1. /\ phase = "delete" /\ Done(r, "delete", "forget")
      /\ UNCHANGED <<before, build, recovery, head>>
    BY DEF DeleteBuildBranch, ReposOnly, descVars
<1>2. /\ job = recovery /\ recovery # None
      /\ job.recBranch[r] \in UserBranches /\ job.title \in Builds
    BY <1>1 DEF Sound, Consistent, Handed, Good
<1>3. head[r] = job.recBranch[r]
    BY <1>2 DEF DeleteBuildBranch, Builds
<1>4. OnFormerBranch(r)
    BY <1>2, <1>3 DEF Recorded, Based, Basis, OnFormerBranch
<1>5. \A q \in (Repos \ todo) \cup {r} : OnFormerBranch(q)'
    BY <1>1, <1>4 DEF Recorded, Returned, OnFormerBranch
<1>6. phase' \in {"delete", "forget"}
    BY <1>1 DEF Done
<1>7. Returned'
    BY <1>1, <1>5 DEF Returned, Done
<1>8. Tipped' /\ Noted' /\ PutBack'
    BY <1>1, <1>6 DEF Recorded, Tipped, Noted, PutBack, ReadOnly
<1>9. Based'
    BY <1>1, <1>6 DEF Recorded, Based, Basis
<1> QED
    BY <1>7, <1>8, <1>9 DEF Recorded

-----------------------------------------------------------------------------
(* Steps that describe the repositories and hand the description on *)

LEMMA DescribeRecords ==
    ASSUME Sound, Recorded, DescribeRepositories
    PROVE  Recorded'
<1>1. /\ phase' = "tellDescribed" /\ UNCHANGED <<before, build, recovery, history>>
      /\ job' = [latest EXCEPT !.recBranch = head,
                               !.recCommit = [r \in Repos |-> HeadCommit(r)],
                               !.required = [r \in Repos |-> Required(r)],
                               !.tip = [r \in Repos |-> Required(r)]]
    BY DEF DescribeRepositories, Enter, DescsOnly
<1>2. latest \in Descriptor
    BY DEF Sound, TypeOK
<1>3. /\ job'.required = [r \in Repos |-> Required(r)]
      /\ job'.tip = [r \in Repos |-> Required(r)]
    BY <1>1, <1>2 DEF Descriptor
<1>4. ASSUME ReadOnly PROVE OfParent(job.required)'
    <2>1. build.parent # None /\ build.title = build.parent
        BY <1>4, ReposAssumption DEF ReadOnly, Sound, Consistent, Handed, Recorded, PutBack
    <2> QED
        BY <1>1, <1>3, <2>1 DEF OfParent, Required
<1>5. PutBack'
    BY <1>1, <1>4 DEF Recorded, PutBack, ReadOnly
<1>6. Tipped' /\ Noted' /\ Returned'
    BY <1>1, <1>3 DEF Tipped, Noted, Returned
<1>7. Based'
    BY <1>1 DEF Recorded, Based, Basis
<1> QED
    BY <1>5, <1>6, <1>7 DEF Recorded

LEMMA TellRecords ==
    ASSUME Sound, Recorded,
           \/ TellNextJob("tellDescribed", "keepDescribed")
           \/ TellNextJob("tellCreated", "keepCreated")
    PROVE  Recorded'
<1>1. /\ UNCHANGED <<before, build, recovery, history, job, repoVars>>
      /\ latest' = job
      /\ \/ phase = "tellDescribed" /\ phase' = "keepDescribed"
         \/ phase = "tellCreated" /\ phase' = "keepCreated"
    BY DEF TellNextJob, Enter, DescsOnly
<1>2. \A r \in Repos : HeadCommit(r)' = HeadCommit(r)
    BY <1>1 DEF HeadCommit, repoVars
<1>3. Tipped'
    BY <1>1, <1>2 DEF Recorded, Tipped
<1>4. PutBack'
    <2>1. CASE phase = "tellDescribed"
        BY <1>1, <2>1 DEF Recorded, PutBack, ReadOnly, OfParent
    <2>2. ASSUME phase = "tellCreated", ReadOnly, NEW r \in Repos \ Pillars
          PROVE  HeadCommit(r) = history[build.title].tip[r]
        <3>1. ~Merges(r)
            BY <2>2, ReposAssumption DEF Merges, ReadOnly, Sound, Consistent, Handed
        <3> QED
            BY <2>2, <3>1 DEF Recorded, Tipped, PutBack, OfParent, BuildCommit
    <2> QED
        BY <1>1, <1>2, <2>1, <2>2 DEF Recorded, PutBack, ReadOnly
<1>5. Based' /\ Noted' /\ Returned'
    BY <1>1 DEF Recorded, Based, Basis, Noted, Returned
<1> QED
    BY <1>3, <1>4, <1>5 DEF Recorded

LEMMA KeepRecords ==
    ASSUME Sound, Recorded, KeepDescribed \/ KeepCreated
    PROVE  Recorded'
<1>1. /\ UNCHANGED <<before, build, latest, job, repoVars>>
      /\ history' = IF ReadOnly THEN history ELSE [history EXCEPT ![build.title] = job]
      /\ \/ phase = "keepDescribed" /\ phase' = "create" /\ recovery' = recovery
         \/ phase = "keepCreated" /\ phase' = "later" /\ recovery' = latest
    BY DEF KeepDescribed, KeepCreated, KeepInHistory, Enter, DescsOnly
<1>2. \A r \in Repos : HeadCommit(r)' = HeadCommit(r)
    BY <1>1 DEF HeadCommit, repoVars
<1>3. phase = "keepCreated" /\ ~ReadOnly => history'[build.title] = job
    <2>1. phase = "keepCreated" => build.title \in Builds
        BY DEF Sound, Consistent, Handed
    <2> QED
        BY <1>1, <2>1 DEF Sound, TypeOK
<1>4. Tipped'
    BY <1>1, <1>2, <1>3 DEF Recorded, Tipped, ReadOnly
<1>5. PutBack'
    BY <1>1, <1>2 DEF Recorded, PutBack, ReadOnly, OfParent
<1>6. Based' /\ Noted' /\ Returned'
    BY <1>1 DEF Recorded, Based, Basis, Noted, Returned
<1> QED
    BY <1>4, <1>5, <1>6 DEF Recorded

-----------------------------------------------------------------------------
(* Steps of create_build_branches *)

LEMMA BeginCreateRecords ==
    ASSUME Sound, Recorded, BeginCreate
    PROVE  Recorded'
<1>1. /\ phase = "create" /\ phase' = "point" /\ todo' = Repos
      /\ job' = latest /\ recovery' = latest
      /\ before' = [r \in Repos |-> [branch |-> head[r], commit |-> HeadCommit(r),
                                     tree |-> tree[r]]]
      /\ UNCHANGED <<repoVars, build, history>>
    BY DEF BeginCreate, Enter
<1>2. \A r \in Repos : At(latest, r)
    BY <1>1 DEF Sound, Consistent, Described
<1>3. Based'
    BY <1>1, <1>2 DEF Based, Basis, At
<1>4. Noted' /\ Returned'
    BY <1>1 DEF Noted, Returned, repoVars
<1>5. Tipped' /\ PutBack'
    BY <1>1 DEF Recorded, Tipped, PutBack, OfParent, ReadOnly
<1> QED
    BY <1>3, <1>4, <1>5 DEF Recorded

\* Within the loop that takes the restore points only Noted is at stake.
LEMMA PointsRecord ==
    ASSUME Recorded, UNCHANGED <<before, build, recovery, history>>,
           job'.tip = job.tip, job'.required = job.required,
           job'.recBranch = job.recBranch, job'.recCommit = job.recCommit,
           phase \in Snapshot, phase' \in Snapshot, Noted'
    PROVE  Recorded'
<1>1. Tipped' /\ PutBack' /\ Based' /\ Returned'
    BY DEF Recorded, Tipped, PutBack, OfParent, Based, Basis, Returned, ReadOnly
<1> QED
    BY <1>1 DEF Recorded

\* A checkout of the commit that is checked out changes no file.
LEMMA CarriedAlong ==
    ASSUME NEW t \in Contents, NEW c \in Contents
    PROVE  Carried(t, c, c) = t
BY DEF Carried, Contents

LEMMA DetachRecords ==
    ASSUME Sound, Recorded, NEW r \in Repos, DetachHead(r)
    PROVE  Recorded'
<1>1. /\ phase = "point" /\ phase' = "commit"
      /\ MoveTo(r, Detached, HeadCommit(r))
      /\ UNCHANGED <<todo, job, before, build, recovery, history>>
    BY DEF DetachHead, ReposOnly, descVars
<1>2. TypeOK /\ tree \in [Repos -> Contents] /\ HeadCommit(r) \in Contents
    BY DEF Sound, Consistent, Commits, TypeOK
<1>3. tree' = tree
    <2>1. tree' = [tree EXCEPT ![r] = Carried(tree[r], HeadCommit(r), HeadCommit(r))]
        BY <1>1 DEF MoveTo
    <2> QED
        BY <1>2, <2>1, CarriedAlong
<1>4. Noted'
    BY <1>1, <1>3 DEF Recorded, Noted, PointTaken, ReadOnly
<1> QED
    BY <1>1, <1>4, PointsRecord

LEMMA CommitPointRecords ==
    ASSUME Sound, Recorded, CommitPoint, NEW r \in Repos, cur = r
    PROVE  Recorded'
<1>1. /\ phase = "commit" /\ phase' = "back" /\ r \in todo
      /\ IF ReadOnly THEN job' = job ELSE job' = [job EXCEPT !.point[r] = tree[r]]
      /\ UNCHANGED <<tree, todo, cur, before, build, recovery, history>>
    BY DEF CommitPoint, Sound, Consistent, Looping
<1>2. job \in Descriptor
    BY DEF Sound, TypeOK
<1>3. /\ job'.tip = job.tip /\ job'.required = job.required
      /\ job'.recBranch = job.recBranch /\ job'.recCommit = job.recCommit
      /\ ~ReadOnly => job'.point[r] = tree[r]
      /\ \A q \in Repos \ {r} : job'.point[q] = job.point[q]
    BY <1>1, <1>2 DEF Descriptor
<1>4. Noted'
    BY <1>1, <1>3 DEF Recorded, Noted, PointTaken, ReadOnly
<1> QED
    BY <1>1, <1>3, <1>4, PointsRecord

LEMMA BackRecords ==
    ASSUME Sound, Recorded, BackOnBranch, NEW r \in Repos, cur = r
    PROVE  Recorded'
<1>1. /\ phase = "back" /\ r \in todo /\ phase' \in {"point", "save"}
      /\ \E name, c : MoveTo(r, name, c)
      /\ Done(r, "point", "save")
      /\ UNCHANGED <<job, before, build, recovery, history>>
    BY DEF BackOnBranch, ReposOnly, descVars, Done, Sound, Consistent, Looping
<1>2. \A q \in Repos \ {r} : tree'[q] = tree[q]
    BY <1>1, MoveEffect DEF Sound
<1>3. /\ \A q \in todo \ {r} : tree[q] = before[q].tree
      /\ \A q \in (Repos \ todo) \cup {r} : PointTaken(q)
    BY <1>1 DEF Recorded, Noted
<1>4. \A q \in Repos : PointTaken(q) => PointTaken(q)'
    BY <1>1 DEF PointTaken, ReadOnly
<1>5. Noted'
    <2>1. CASE phase' = "point"
        <3>1. todo' = todo \ {r} /\ todo \subseteq Repos
            BY <1>1, <2>1 DEF Done, Sound, TypeOK
        <3>2. /\ \A q \in todo' : tree'[q] = before'[q].tree
              /\ \A q \in Repos \ todo' : PointTaken(q)'
            BY <1>1, <1>2, <1>3, <1>4, <3>1
        <3> QED
            BY <2>1, <3>2 DEF Noted
    <2>2. CASE phase' = "save"
        <3>1. todo = {r}
            BY <1>1, <2>2 DEF Done
        <3> QED
            BY <1>3, <1>4, <2>2, <3>1 DEF Noted
    <2> QED
        BY <1>1, <2>1, <2>2
<1> QED
    BY <1>1, <1>5, PointsRecord

LEMMA SaveRecords ==
    ASSUME Sound, Recorded, SavePoints
    PROVE  Recorded'
<1>1. /\ phase = "save" /\ phase' = "branch" /\ todo' = Repos /\ recovery' = job
      /\ UNCHANGED <<job, before, build, history>>
    BY DEF SavePoints, Enter, DescsOnly
<1>2. Tipped' /\ PutBack' /\ Based' /\ Noted' /\ Returned'
    BY <1>1 DEF Recorded, Tipped, PutBack, OfParent, Based, Basis, Noted, PointTaken,
                Returned, ReadOnly
<1> QED
    BY <1>2 DEF Recorded

LEMMA CreateRecords ==
    ASSUME Sound, Recorded, NEW r \in Repos, CreateBranch(r)
    PROVE  Recorded'
<1> USE ReposAssumption
<1> DEFINE c == BuildCommit(r)
           title == build.title
<1>1. /\ phase = "branch" /\ r \in todo /\ Done(r, "branch", "tellCreated")
      /\ phase' \in {"branch", "tellCreated"}
      /\ branch' = [branch EXCEPT ![r][title] = c]
      /\ MoveTo(r, title, c)
      /\ job' = IF Merges(r) THEN [job EXCEPT !.tip[r] = c] ELSE job
      /\ UNCHANGED <<latest, recovery, history, build, before>>
    BY DEF CreateBranch, Done
<1>2. job \in Descriptor /\ title \in Names /\ title # Detached
    BY <1>1 DEF Sound, TypeOK, Consistent, Handed, Builds, Names
<1>3. /\ job'.recBranch = job.recBranch /\ job'.recCommit = job.recCommit
      /\ job'.required = job.required /\ job'.point = job.point
      /\ \A q \in Repos \ {r} : job'.tip[q] = job.tip[q]
      /\ job'.tip[r] = c
    <2>1. CASE Merges(r)
        BY <1>1, <1>2, <2>1 DEF Descriptor
    <2>2. CASE ~Merges(r)
        BY <1>1, <2>2 DEF Recorded, Tipped, BuildCommit
    <2> QED
        BY <2>1, <2>2
<1>4. \A q \in Repos : BuildCommit(q)' = BuildCommit(q)
    BY <1>1, <1>3 DEF BuildCommit, Merges
<1> HIDE DEF c, title
<1>5. /\ HeadCommit(r)' = c
      /\ \A q \in Repos \ {r} : HeadCommit(q)' = HeadCommit(q)
    <2>1. /\ TypeOK /\ branch'[r][title] = c
          /\ \A q \in Repos \ {r} : branch'[q] = branch[q]
        BY <1>1, <1>2 DEF Sound, TypeOK
    <2> QED
        BY <1>1, <1>2, <2>1, MoveEffect DEF HeadCommit
<1>6. \A q \in (Repos \ todo) \cup {r} :
         job'.tip[q] = HeadCommit(q)' /\ HeadCommit(q)' = BuildCommit(q)'
    <2>1. HeadCommit(r)' = BuildCommit(r)'
        BY <1>4, <1>5 DEF c
    <2>2. \A q \in Repos \ todo : job.tip[q] = HeadCommit(q) /\ HeadCommit(q) = BuildCommit(q)
        BY <1>1 DEF Recorded, Tipped
    <2> QED
        BY <1>1, <1>3, <1>4, <1>5, <2>1, <2>2
<1>7. Tipped'
    <2>1. phase' = "branch" => todo' = todo \ {r}
        BY <1>1 DEF Done
    <2>2. phase' = "tellCreated" => Repos \subseteq (Repos \ todo) \cup {r}
        BY <1>1 DEF Done
    <2>3. \A q \in todo \ {r} : q \in Repos => job'.tip[q] = job'.required[q]
        BY <1>1, <1>3 DEF Recorded, Tipped
    <2> QED
        BY <1>1, <1>6, <2>1, <2>2, <2>3 DEF Tipped
<1>8. PutBack' /\ Based' /\ Noted' /\ Returned'
    BY <1>1, <1>3 DEF Recorded, PutBack, OfParent, Based, Basis, Noted, PointTaken, Returned,
                      ReadOnly
<1> QED
    BY <1>7, <1>8 DEF Recorded

LEMMA GeneratedRecords ==
    ASSUME Sound, Recorded, NEW r \in Repos, NEW c \in Contents, CommitGenerated(r, c)
    PROVE  Recorded'
<1>1. /\ phase = "later" /\ phase' = "later" /\ ~ReadOnly
      /\ branch' = [branch EXCEPT ![r][build.title] = c]
      /\ latest' = [latest EXCEPT !.tip[r] = c]
      /\ history' = [history EXCEPT ![build.title] = latest']
      /\ UNCHANGED <<head, at, recovery, build, before>>
    BY DEF CommitGenerated, loopVars
<1>2. /\ latest \in Descriptor /\ build.title \in Builds /\ build.title \in Names
      /\ build.title # Detached /\ \A q \in Repos : head[q] = build.title
    BY <1>1, ReposAssumption DEF Sound, TypeOK, Consistent, Handed, Heads, Builds, Names
<1>3. /\ HeadCommit(r)' = c
      /\ \A q \in Repos \ {r} : HeadCommit(q)' = HeadCommit(q)
    BY <1>1, <1>2 DEF HeadCommit, Sound, TypeOK
<1>4. latest'.tip[r] = c /\ \A q \in Repos \ {r} : latest'.tip[q] = latest.tip[q]
    BY <1>1, <1>2 DEF Descriptor
<1>5. history'[build.title] = latest'
    BY <1>1, <1>2 DEF Sound, TypeOK
<1>6. Tipped'
    BY <1>1, <1>3, <1>4, <1>5 DEF Recorded, Tipped, ReadOnly
<1>7. PutBack' /\ Based' /\ Noted' /\ Returned'
    BY <1>1 DEF Recorded, PutBack, ReadOnly, Based, Basis, Noted, Returned
<1> QED
    BY <1>6, <1>7 DEF Recorded

-----------------------------------------------------------------------------
(* Every step *)

LEMMA NextRecords ==
    ASSUME Sound, Recorded, [Next]_vars
    PROVE  Recorded'
<1>1. CASE StartBuild \/ StartPoll
    BY <1>1, StartRecords
<1>2. CASE Reset
    BY <1>2, PassiveRecords, RestoreRecords, DeleteRecords DEF Reset
<1>3. CASE Create
    <2>1. CASE CommitPoint BY <2>1, CurInLoop, CommitPointRecords DEF CommitPoint
    <2>2. CASE BackOnBranch BY <2>2, CurInLoop, BackRecords DEF BackOnBranch
    <2> QED
        BY <1>3, <2>1, <2>2, BeginCreateRecords, SaveRecords, DetachRecords, CreateRecords
        DEF Create
<1>4. CASE Update
    BY <1>4, TellRecords, KeepRecords DEF Update
<1>5. CASE DescribeRepositories
    BY <1>5, DescribeRecords
<1>6. CASE \/ Developer \/ Repair \/ EndBuild \/ Refuse \/ Interrupt
           \/ \E r \in Repos : PullBranch(r)
    BY <1>6, PassiveRecords
<1>7. CASE \E r \in Repos, c \in Contents : CommitGenerated(r, c)
    BY <1>7, GeneratedRecords
<1>8. CASE UNCHANGED vars
    BY <1>8 DEF vars, Recorded, Tipped, PutBack, OfParent, Based, Basis, Noted, PointTaken,
                Returned, OnFormerBranch, HeadCommit, BuildCommit, Merges, ReadOnly
<1> QED
    BY <1>1, <1>2, <1>3, <1>4, <1>5, <1>6, <1>7, <1>8 DEF Next, JobStep

THEOREM RecordedInvariant == Spec => []Recorded
<1>1. Init => Recorded
    BY DEF Init, Recorded, Tipped, PutBack, Based, Noted, Returned, ReadOnly
<1> QED
    BY <1>1, NextRecords, InductiveInvariant, PTL DEF Spec

\* The jobs that follow create_build_branches find every repository on the build
\* branch, at the commit that latest_commit_ids has for it, and a rebuild or a
\* checkout of the title will find the same commits in the build history:
\* whatever builds, checkouts, failures and polls came before.
THEOREM BuildIsRecorded == Spec => []BuildRecorded
<1>1. Sound /\ Recorded => BuildRecorded
    BY DEF Sound, Consistent, Heads, Recorded, Tipped, PutBack, BuildRecorded
<1> QED
    BY <1>1, InductiveInvariant, RecordedInvariant, PTL

\* A build without a parent is built from the work trees the job found, local
\* changes included, and every other build from the commits the descriptor
\* requires and nothing else.
THEOREM WorkIsBuiltAlways == Spec => []WorkIsBuilt
<1>1. ASSUME Sound, Recorded, phase = "tellCreated", NEW r \in Repos
      PROVE  /\ HeadCommit(r) = IF build.kind = "fresh" /\ r \notin Pillars
                                THEN before[r].tree ELSE job.required[r]
             /\ ~ReadOnly => ~Dirty(r)
    <2>1. build.kind = "fresh" <=> build.parent = None
        BY <1>1 DEF Sound, Consistent, Handed
    <2>2. ~ReadOnly => job.point[r] = before[r].tree
        BY <1>1 DEF Recorded, Noted, PointTaken
    <2>3. HeadCommit(r) = BuildCommit(r)
        BY <1>1 DEF Recorded, Tipped
    <2>4. ~ReadOnly => ~Dirty(r)
        BY <1>1 DEF Sound, Consistent, CleanTrees
    <2> QED
        BY <2>1, <2>2, <2>3, <2>4 DEF BuildCommit, Merges, ReadOnly
<1>2. Sound /\ Recorded => WorkIsBuilt
    BY <1>1 DEF WorkIsBuilt
<1> QED
    BY <1>2, InductiveInvariant, RecordedInvariant, PTL

BranchesReturned == phase = "forget" => \A r \in Repos : OnFormerBranch(r)

\* When reset_previous_build gets as far as removing the recovery descriptor,
\* every repository is on the branch that the build found it on: after a build,
\* a rebuild or a checkout, and however the build ended.
THEOREM BranchesAreReturned == Spec => []BranchesReturned
<1>1. Recorded => BranchesReturned
    BY DEF Recorded, Returned, BranchesReturned
<1> QED
    BY <1>1, RecordedInvariant, PTL

-----------------------------------------------------------------------------
(* What reset_previous_build puts back: the invariant *)

\* The restore points of d are the work trees that the build found.
Points(d) ==
    \A r \in Repos : d.point[r] \in Contents /\ d.point[r] = before[r].tree

\* The repository is on the branch it was on and, unless the branch has got
\* commits since, with the local changes it had.
Restored(r) ==
    /\ OnFormerBranch(r)
    /\ branch[r][head[r]] = before[r].commit => tree[r] = before[r].tree

Restoring ==
    /\ ~ReadOnly
    /\ recovery # None /\ phase \notin Snapshot => Points(recovery)
    /\ phase \in {"restore", "uncommit", "rebase"} =>
          \A r \in Repos \ todo : Restored(r)
    /\ phase \in {"delete", "forget"} => \A r \in Repos : Restored(r)

-----------------------------------------------------------------------------
(* The steps that put back *)

\* Outside of the loops that put back, the restore points are what counts.
LEMMA PointsStay ==
    ASSUME Restoring, UNCHANGED before, ~ReadOnly',
           recovery' = recovery \/ recovery' = None,
           recovery = None \/ phase \notin Snapshot \/ phase' \in Snapshot,
           phase' \notin {"restore", "uncommit", "rebase", "delete", "forget"}
    PROVE  Restoring'
BY DEF Restoring, Points

LEMMA SwitchRestores ==
    ASSUME Restoring, NEW r \in Repos, SwitchBack(r)
    PROVE  Restoring'
<1>1. /\ phase = "switch" /\ phase' \in {"switch", "restore"}
      /\ phase' = "restore" => todo' = Repos
      /\ UNCHANGED <<before, build, recovery>>
    BY DEF SwitchBack, ReposOnly, descVars, Done
<1> QED
    BY <1>1 DEF Restoring, ReadOnly, Points

LEMMA RestoreRestores ==
    ASSUME Sound, Restoring, NEW r \in Repos, RestorePoint(r)
    PROVE  Restoring'
<1>1. /\ phase = "restore" /\ r \in todo /\ job = recovery /\ Good(recovery)
      /\ UNCHANGED <<branch, before, build, recovery>>
    BY DEF RestorePoint, ReposOnly, descVars, Sound, Consistent, Handed
<1>2. Points(recovery)
    BY <1>1, NoneAssumption DEF Restoring, Good
<1>3. Available(r)
    BY <1>1, <1>2, ReposAssumption DEF Available, Good, Points, Contents
<1>4. MoveTo(r, Detached, job.point[r]) /\ phase' = "uncommit" /\ todo' = todo
    BY <1>3 DEF RestorePoint
<1>5. \A q \in Repos \ {r} : head'[q] = head[q] /\ tree'[q] = tree[q]
    BY <1>4, MoveEffect DEF Sound
<1>6. \A q \in Repos \ todo : Restored(q)'
    BY <1>1, <1>5 DEF Restoring, Restored, OnFormerBranch
<1> QED
    BY <1>1, <1>2, <1>4, <1>6 DEF Restoring, ReadOnly, Points

LEMMA UncommitRestores ==
    ASSUME Restoring, Uncommit
    PROVE  Restoring'
<1>1. /\ phase = "uncommit" /\ phase' = "rebase"
      /\ UNCHANGED <<branch, head, tree, todo, before, build, recovery>>
    BY DEF Uncommit, ReposOnly, descVars
<1> QED
    BY <1>1 DEF Restoring, ReadOnly, Points, Restored, OnFormerBranch

LEMMA RebaseRestores ==
    ASSUME Sound, Recorded, Restoring, RebaseOnBranch, NEW r \in Repos, cur = r
    PROVE  Restoring'
<1> DEFINE name == job.recBranch[r]
           tip == branch[r][name]
<1>1. /\ phase = "rebase" /\ MoveTo(r, name, tip) /\ Done(r, "restore", "delete")
      /\ UNCHANGED <<branch, before, build, recovery>>
    BY DEF RebaseOnBranch, ReposOnly, descVars
<1>2. /\ job = recovery /\ recovery # None /\ Good(recovery) /\ TypeOK
      /\ HeadCommit(r) = job.recCommit[r] /\ HeadCommit(r) \in Contents
      /\ tree[r] = job.point[r] /\ tree[r] \in Contents
    BY <1>1 DEF Sound, TypeOK, Consistent, Looping, Handed, HeadCommit, Commits
<1>3. name = before[r].branch /\ job.recCommit[r] = before[r].commit /\ tree[r] = before[r].tree
    BY <1>1, <1>2 DEF Recorded, Based, Basis, Restoring, Points
<1>4. head'[r] = name /\ tree'[r] = Carried(tree[r], HeadCommit(r), tip)
    BY <1>1, <1>2 DEF MoveTo, TypeOK
<1>5. tip = before[r].commit => tree'[r] = tree[r]
    BY <1>2, <1>3, <1>4, CarriedAlong
<1>6. Restored(r)'
    BY <1>1, <1>3, <1>4, <1>5 DEF Restored, OnFormerBranch
<1> HIDE DEF name, tip
<1>7. \A q \in Repos \ {r} : head'[q] = head[q] /\ tree'[q] = tree[q]
    BY <1>1, <1>2, MoveEffect
<1>8. \A q \in {r} \cup (Repos \ todo) : Restored(q)'
    BY <1>1, <1>6, <1>7 DEF Restoring, Restored, OnFormerBranch
<1>9. /\ phase' \in {"restore", "delete"} /\ Repos \ todo' \subseteq {r} \cup (Repos \ todo)
      /\ phase' = "delete" => Repos \subseteq {r} \cup (Repos \ todo)
    BY <1>1 DEF Done
<1> QED
    BY <1>1, <1>8, <1>9 DEF Restoring, ReadOnly, Points

LEMMA DeleteRestores ==
    ASSUME Sound, Restoring, NEW r \in Repos, DeleteBuildBranch(r)
    PROVE  Restoring'
<1> USE ReposAssumption
<1>1. /\ phase = "delete" /\ phase' \in {"delete", "forget"}
      /\ UNCHANGED <<head, tree, before, build, recovery>>
    BY DEF DeleteBuildBranch, ReposOnly, descVars, Done
<1>2. job.recBranch[r] \in UserBranches /\ job.title \in Builds
    BY <1>1 DEF Sound, Consistent, Handed, Good
<1>3. /\ head[r] # job.title
      /\ branch' = [branch EXCEPT ![r][job.title] = None]
    BY <1>2 DEF DeleteBuildBranch, Builds
<1>4. \A q \in Repos : branch'[q][head[q]] = branch[q][head[q]]
    BY <1>3 DEF Sound, TypeOK
<1>5. \A q \in Repos : Restored(q)'
    BY <1>1, <1>4 DEF Restoring, Restored, OnFormerBranch
<1> QED
    BY <1>1, <1>5 DEF Restoring, ReadOnly, Points

-----------------------------------------------------------------------------
(* The steps that take the restore points, and all the others *)

LEMMA SaveRestores ==
    ASSUME Sound, Recorded, Restoring, SavePoints
    PROVE  Restoring'
<1>1. /\ phase = "save" /\ phase' = "branch" /\ recovery' = job
      /\ UNCHANGED <<before, build>>
    BY DEF SavePoints, Enter, DescsOnly
<1>2. Points(job)
    BY <1>1 DEF Sound, Consistent, Pointed, Recorded, Noted, PointTaken, Restoring, Points
<1> QED
    BY <1>1, <1>2 DEF Restoring, ReadOnly, Points

LEMMA KeepCreatedRestores ==
    ASSUME Sound, Restoring, KeepCreated
    PROVE  Restoring'
<1>1. /\ phase = "keepCreated" /\ phase' = "later" /\ recovery' = latest
      /\ UNCHANGED <<before, build>>
    BY DEF KeepCreated, KeepInHistory, Enter, DescsOnly
<1>2. recovery # None /\ latest.point = recovery.point
    BY <1>1 DEF Sound, Consistent, Handed, Described, SamePoints
<1> QED
    BY <1>1, <1>2 DEF Restoring, ReadOnly, Points

LEMMA StartRestores ==
    ASSUME Restoring, StartBuild \/ StartPoll, "checkout" \notin Kinds
    PROVE  Restoring'
<1>1. /\ phase = "idle" /\ phase' = "reset" /\ UNCHANGED <<before, recovery>>
      /\ build'.kind \in Kinds \cup {"poll"}
    <2>1. CASE StartPoll
        BY <2>1 DEF StartPoll, Enter, descVars
    <2>2. ASSUME NEW kind \in Kinds, NEW parent, StartNewBuild(kind, parent)
          PROVE  /\ phase = "idle" /\ phase' = "reset" /\ UNCHANGED <<before, recovery>>
                 /\ build'.kind = kind
        BY <2>2 DEF StartNewBuild, Enter
    <2> QED
        BY <2>1, <2>2 DEF StartBuild
<1> QED
    BY <1>1, PointsStay DEF ReadOnly

LEMMA StopRestores ==
    ASSUME Sound, Restoring, EndBuild \/ Refuse \/ Interrupt, FailAt \cap Snapshot = {}
    PROVE  Restoring'
<1>1. phase' = "idle" /\ UNCHANGED <<before, recovery, build>>
    BY DEF EndBuild, Refuse, JobFails, Interrupt, Stop, descVars
<1>2. phase \notin Snapshot
    BY NeverRefused DEF EndBuild, Interrupt
<1> QED
    BY <1>1, <1>2, PointsStay DEF Restoring, ReadOnly

LEMMA OthersRestore ==
    ASSUME Restoring,
           \/ Developer \/ Repair \/ BeginReset \/ ForgetBuild \/ DescribeRepositories
           \/ TellNextJob("tellDescribed", "keepDescribed") \/ KeepDescribed
           \/ TellNextJob("tellCreated", "keepCreated") \/ CommitPoint \/ BackOnBranch
           \/ \E r \in Repos : \/ StashChanges(r) \/ PullBranch(r) \/ DetachHead(r)
                               \/ CreateBranch(r)
                               \/ \E c \in Contents : CommitGenerated(r, c)
    PROVE  Restoring'
<1>1. UNCHANGED <<before, build>> /\ (recovery' = recovery \/ recovery' = None)
    BY DEF Developer, Repair, Approve, Withdraw, EditFiles, CommitFiles, MergeInto, RepairHead, CleanHistory,
           BeginReset, ForgetBuild, DescribeRepositories, TellNextJob, KeepDescribed,
           KeepInHistory, CommitPoint, BackOnBranch, StashChanges, PullBranch, DetachHead,
           CreateBranch, CommitGenerated, DescsOnly, ReposOnly, descVars
<1>2. phase \in Snapshot => phase' \in Snapshot
    BY DEF Developer, Repair, Approve, Withdraw, EditFiles, CommitFiles, MergeInto, RepairHead, CleanHistory,
           BeginReset, ForgetBuild, DescribeRepositories, TellNextJob, KeepDescribed,
           KeepInHistory, CommitPoint, BackOnBranch, StashChanges, PullBranch, DetachHead,
           CreateBranch, CommitGenerated, Done
<1>3. phase' \notin {"restore", "uncommit", "rebase", "delete", "forget"}
    <2>1. CASE Developer \/ Repair
        BY <2>1 DEF Developer, Repair, Approve, Withdraw, EditFiles, CommitFiles, MergeInto,
                    RepairHead, CleanHistory, loopVars
    <2>2. CASE \/ BeginReset \/ ForgetBuild \/ DescribeRepositories \/ KeepDescribed
               \/ TellNextJob("tellDescribed", "keepDescribed")
               \/ TellNextJob("tellCreated", "keepCreated")
        BY <2>2 DEF BeginReset, ForgetBuild, AfterReset, DescribeRepositories, TellNextJob,
                    KeepDescribed, KeepInHistory, Enter, Stop
    <2>3. CASE \/ CommitPoint \/ BackOnBranch
               \/ \E r \in Repos : \/ StashChanges(r) \/ PullBranch(r) \/ DetachHead(r)
                                   \/ CreateBranch(r)
                                   \/ \E c \in Contents : CommitGenerated(r, c)
        BY <2>3 DEF CommitPoint, BackOnBranch, StashChanges, PullBranch, DetachHead,
                    CreateBranch, CommitGenerated, Done, Stop, loopVars
    <2> QED
        BY <2>1, <2>2, <2>3
<1>4. ~ReadOnly'
    BY <1>1 DEF Restoring, ReadOnly
<1> QED
    BY <1>1, <1>2, <1>3, <1>4, PointsStay

LEMMA NextRestores ==
    ASSUME Sound, Recorded, Restoring, [Next]_vars,
           FailAt \cap Snapshot = {}, "checkout" \notin Kinds
    PROVE  Restoring'
<1>1. CASE Reset
    <2>1. CASE RebaseOnBranch BY <2>1, CurInLoop, RebaseRestores DEF RebaseOnBranch
    <2> QED
        BY <1>1, <2>1, OthersRestore, UncommitRestores, SwitchRestores, RestoreRestores,
           DeleteRestores DEF Reset
<1>2. CASE Create
    <2>1. CASE BeginCreate
        <3>1. phase' = "point" /\ build' = build
            BY <2>1 DEF BeginCreate, Enter
        <3> QED
            BY <3>1 DEF Restoring, ReadOnly
    <2> QED
        BY <1>2, <2>1, OthersRestore, SaveRestores DEF Create
<1>3. CASE StartBuild \/ StartPoll
    BY <1>3, StartRestores
<1>4. CASE EndBuild \/ Refuse \/ Interrupt
    BY <1>4, StopRestores
<1>5. CASE KeepCreated
    BY <1>5, KeepCreatedRestores
<1>6. CASE \/ Developer \/ Repair \/ DescribeRepositories \/ Update
           \/ \E r \in Repos : PullBranch(r)
           \/ \E r \in Repos, c \in Contents : CommitGenerated(r, c)
    BY <1>5, <1>6, OthersRestore DEF Update
<1>7. CASE UNCHANGED vars
    BY <1>7 DEF vars, Restoring, ReadOnly, Points, Restored, OnFormerBranch
<1> QED
    BY <1>1, <1>2, <1>3, <1>4, <1>5, <1>6, <1>7 DEF Next, JobStep

\* A reset that does not fail restores every work tree whose branch has not got
\* other commits since.  The proviso is that of WorkIsKept and that no build is
\* checked out: the checkout pipeline takes no restore points but leaves those of
\* the build it checks out in the recovery descriptor, as the run checked_out
\* shows.
THEOREM ResetIsFaithful ==
    ASSUME FailAt \cap Snapshot = {}, "checkout" \notin Kinds
    PROVE  Spec => []ResetRestores
<1>1. Init => Restoring
    BY DEF Init, Restoring, ReadOnly
<1>2. Sound /\ Recorded /\ Restoring /\ [Next]_vars => Restoring'
    BY NextRestores
<1>3. Restoring => ResetRestores
    BY DEF Restoring, Restored, OnFormerBranch, ResetRestores
<1> QED
    BY <1>1, <1>2, <1>3, InductiveInvariant, RecordedInvariant, PTL DEF Spec

=============================================================================
