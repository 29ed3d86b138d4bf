------------------------ MODULE BuildBranchesProofs ------------------------
(***************************************************************************)
(* Proofs about BuildBranches, for every set of repositories, branches and *)
(* contents and every number of builds and edits:                          *)
(*                                                                         *)
(*   TypeCorrect           the type invariant;                             *)
(*   RecoveryIsPending     a repository that is not on a branch of the     *)
(*                         developer is one a recovery descriptor is for.  *)
(*                                                                         *)
(* The invariant Sound follows the descriptors from job to job, and HEAD   *)
(* and the work tree of every repository through the loops.  The proof     *)
(* about local work (BuildBranchesWorkProofs) rests on it.                 *)
(***************************************************************************)
EXTENDS BuildBranches, TLAPS

ResetPhases == {"stash", "switch", "restore", "uncommit", "rebase", "delete", "forget"}
DescribePhases == {"describe", "tellDescribed", "keepDescribed", "create"}
BranchPhases == {"branch", "tellCreated", "keepCreated", "later"}

-----------------------------------------------------------------------------
(* The invariant: descriptors *)

\* A descriptor that names a build and what to put back.
Good(d) ==
    /\ d \in Descriptor /\ d.title \in Builds
    /\ \A r \in Repos : d.recBranch[r] \in UserBranches /\ d.recCommit[r] \in Contents

\* One that names the commit of every build branch, too.
Ready(d) == Good(d) /\ \A r \in Repos : d.required[r] \in Contents

\* d says where repository r is now.
At(d, r) == d.recBranch[r] = head[r] /\ d.recCommit[r] = HeadCommit(r)

Unmoved(d) == \A r \in Repos : branch[r][d.recBranch[r]] = d.recCommit[r]

SamePoints(d) == d.point = recovery.point /\ d.recCommit = recovery.recCommit

Handed ==
    /\ recovery # None => Good(recovery)
    /\ phase \in ResetPhases => recovery # None /\ job = recovery
    /\ phase \in DescribePhases \cup {"pull"} => recovery = None
    /\ phase \in Snapshot \cup BranchPhases => recovery # None
    /\ phase \in DescribePhases \cup Snapshot \cup BranchPhases => build.kind # "poll"
    /\ build.kind # "poll" => /\ build.title \in Builds
                              /\ build.kind = "fresh" <=> build.parent = None
    /\ build.kind # "poll" /\ phase \in ResetPhases \cup {"reset", "describe"} =>
          latest.title \in Builds
    /\ build.parent # None => /\ build.parent \in Builds
                              /\ history[build.parent] \in Descriptor

Described ==
    /\ phase = "tellDescribed" => Ready(job) /\ \A r \in Repos : At(job, r)
    /\ phase \in {"keepDescribed", "create"} =>
          Ready(latest) /\ \A r \in Repos : At(latest, r)
    /\ phase \in Snapshot \cup {"branch", "tellCreated"} => Ready(job)
    /\ phase \in Snapshot => Unmoved(job)
    /\ phase \in {"branch", "tellCreated"} => SamePoints(job)
    /\ phase = "keepCreated" => Good(latest) /\ SamePoints(latest)

\* The restore points that have been taken.
Pointed ==
    ~ReadOnly =>
        /\ phase \in {"point", "commit", "back"} =>
              \A r \in Repos \ todo : job.point[r] \in Contents
        /\ phase \in {"save", "branch"} => \A r \in Repos : job.point[r] \in Contents

-----------------------------------------------------------------------------
(* The invariant: repositories *)

Commits ==
    \A r \in Repos :
        /\ \A b \in UserBranches : branch[r][b] \in Contents
        /\ HeadCommit(r) \in Contents

Looping ==
    /\ phase \in {"uncommit", "rebase", "commit", "back"} => cur \in todo
    /\ phase \in {"uncommit", "rebase"} =>
          /\ head[cur] = Detached
          /\ tree[cur] = job.point[cur] /\ job.point[cur] \in Contents
    /\ phase = "uncommit" => at[cur] = job.point[cur]
    /\ phase = "rebase" => at[cur] = job.recCommit[cur]
    /\ phase = "point" => \A r \in todo : At(job, r)
    /\ phase \in {"commit", "back"} =>
          /\ \A r \in todo \ {cur} : At(job, r)
          /\ head[cur] = Detached
    /\ phase = "commit" => at[cur] = job.recCommit[cur]
    /\ phase = "back" =>
          IF ReadOnly THEN at[cur] = job.recCommit[cur]
          ELSE at[cur] = tree[cur] /\ job.point[cur] = tree[cur]

Heads ==
    /\ recovery = None => \A r \in Repos : head[r] \in UserBranches
    /\ phase = "delete" => \A r \in Repos \ todo : head[r] \in UserBranches
    /\ phase = "forget" => \A r \in Repos : head[r] \in UserBranches
    /\ phase = "branch" => \A r \in Repos \ todo : head[r] = build.title
    /\ phase \in {"tellCreated", "keepCreated", "later"} =>
          \A r \in Repos : head[r] = build.title

CleanTrees ==
    /\ phase = "stash" => \A r \in Repos \ todo : ~Dirty(r)
    /\ phase = "switch" => \A r \in Repos : ~Dirty(r)
    /\ phase = "restore" => \A r \in todo : ~Dirty(r)
    /\ phase \in {"uncommit", "rebase"} => \A r \in todo \ {cur} : ~Dirty(r)
    /\ ~ReadOnly =>
          /\ phase \in {"point", "commit", "back"} => \A r \in Repos \ todo : ~Dirty(r)
          /\ phase \in {"save"} \cup BranchPhases => \A r \in Repos : ~Dirty(r)

Consistent ==
    Handed /\ Described /\ Pointed /\ Commits /\ Looping /\ Heads /\ CleanTrees

Sound == TypeOK /\ Consistent

USE DEF Snapshot, ResetPhases, DescribePhases, BranchPhases

-----------------------------------------------------------------------------
(* Contents and checkouts *)

LEMMA CarriedTyped ==
    ASSUME NEW t \in Contents, NEW from, NEW to \in Contents
    PROVE  Carried(t, from, to) \in Contents
BY DEF Carried, Contents

LEMMA CarriedClean ==
    ASSUME NEW t \in Contents, NEW to \in Contents
    PROVE  Carried(t, t, to) = to
BY DEF Carried, Contents

\* A local change that is carried along is a local change.
LEMMA CarriedDirty ==
    ASSUME NEW t \in Contents, NEW from \in Contents, NEW to \in Contents,
           Fits(t, from, to), t # from
    PROVE  Carried(t, from, to) # to
<1>1. PICK f \in Files : t[f] # from[f]
    BY DEF Contents
<1>2. Carried(t, from, to)[f] # to[f]
    BY <1>1 DEF Carried, Fits
<1> QED
    BY <1>2

LEMMA MoveTyped ==
    ASSUME TypeOK, NEW r \in Repos, NEW name \in Names \cup {Detached},
           NEW c \in Contents, MoveTo(r, name, c)
    PROVE  /\ head' \in [Repos -> Names \cup {Detached}]
           /\ at' \in [Repos -> Contents \cup {None}]
           /\ tree' \in [Repos -> Contents]
           /\ work' \in [Repos -> SUBSET Contents]
<1> DEFINE new == Carried(tree[r], HeadCommit(r), c)
<1>1. new \in Contents
    BY CarriedTyped DEF TypeOK
<1> HIDE DEF new
<1>2. /\ head' = [head EXCEPT ![r] = name]
      /\ at' = [at EXCEPT ![r] = IF name = Detached THEN c ELSE None]
      /\ tree' = [tree EXCEPT ![r] = new]
      /\ work' = [work EXCEPT ![r] = IF Dirty(r) /\ tree[r] \in @
                                     THEN (@ \ {tree[r]}) \cup {new} ELSE @]
    BY DEF MoveTo, new
<1>3. work' \in [Repos -> SUBSET Contents]
    <2>1. (work[r] \ {tree[r]}) \cup {new} \in SUBSET Contents
        BY <1>1 DEF TypeOK
    <2> QED
        BY <1>2, <2>1 DEF TypeOK
<1> QED
    BY <1>1, <1>2, <1>3 DEF TypeOK

\* What a checkout does to the repository and to the others.
LEMMA MoveEffect ==
    ASSUME TypeOK, NEW r \in Repos, NEW name, NEW c, MoveTo(r, name, c)
    PROVE  /\ head'[r] = name
           /\ at'[r] = IF name = Detached THEN c ELSE None
           /\ \A q \in Repos \ {r} : /\ head'[q] = head[q] /\ at'[q] = at[q]
                                      /\ tree'[q] = tree[q] /\ work'[q] = work[q]
BY DEF MoveTo, TypeOK

LEMMA MoveClean ==
    ASSUME TypeOK, NEW r \in Repos, NEW name, NEW c \in Contents,
           MoveTo(r, name, c), ~Dirty(r)
    PROVE  tree'[r] = c /\ work' = work
<1>1. tree[r] = HeadCommit(r) /\ tree[r] \in Contents
    BY DEF Dirty, TypeOK
<1>2. Carried(tree[r], HeadCommit(r), c) = c
    BY <1>1, CarriedClean
<1>3. work'[r] = work[r]
    BY DEF MoveTo, TypeOK
<1> QED
    BY <1>2, <1>3 DEF MoveTo, TypeOK

LEMMA MoveDirty ==
    ASSUME TypeOK, NEW r \in Repos, NEW name, NEW c \in Contents,
           HeadCommit(r) \in Contents,
           MoveTo(r, name, c), CheckoutFits(r, c), Dirty(r)
    PROVE  /\ tree'[r] # c
           /\ work'[r] = IF tree[r] \in work[r]
                         THEN (work[r] \ {tree[r]}) \cup {tree'[r]} ELSE work[r]
<1>1. Carried(tree[r], HeadCommit(r), c) # c
    BY CarriedDirty DEF Dirty, CheckoutFits, TypeOK
<1> QED
    BY <1>1 DEF MoveTo, TypeOK

-----------------------------------------------------------------------------
(* Initial states, and jobs that stop *)

LEMMA InitTyped == Init => TypeOK
<1> SUFFICES ASSUME Init
             PROVE  TypeOK
    OBVIOUS
<1> USE ReposAssumption
<1>1. PICK c \in Contents :
          /\ branch = [r \in Repos |->
                         [n \in Names |-> IF n \in UserBranches THEN c ELSE None]]
          /\ tree = [r \in Repos |-> c]
    BY DEF Init
<1>2. /\ branch \in [Repos -> [Names -> Contents \cup {None}]]
      /\ tree \in [Repos -> Contents]
    BY <1>1
<1>3. head \in [Repos -> Names \cup {Detached}] /\ at \in [Repos -> Contents \cup {None}]
    BY DEF Init, Names, Unset
<1>4. NewDescriptor(None) \in Descriptor
    BY DEF NewDescriptor, Descriptor, Unset
<1>5. build \in Params
    BY DEF Init, Params
<1>6. edits \in 0 .. MaxEdits /\ failures \in 0 .. MaxFailures
    BY DEF Init
<1>7. /\ stash \in [Repos -> SUBSET Contents] /\ work \in [Repos -> SUBSET Contents]
      /\ history \in [Builds -> Descriptor \cup {None}]
    BY DEF Init
<1>8. /\ latest \in Descriptor /\ job \in Descriptor
      /\ recovery \in Descriptor \cup {None}
    BY <1>4 DEF Init
<1>9. phase \in Phases /\ todo \subseteq Repos /\ cur \in Repos \cup {None} /\ status \in 0 .. 2
    BY DEF Init, Phases
<1>10. unclean \in BOOLEAN /\ approved \in BOOLEAN
    BY DEF Init
<1> QED
    BY <1>2, <1>3, <1>5, <1>6, <1>7, <1>8, <1>9, <1>10 DEF TypeOK

LEMMA InitSound == Init => Sound
<1> SUFFICES ASSUME Init
             PROVE  Sound
    OBVIOUS
<1> USE ReposAssumption
<1>1. PICK c \in Contents :
          /\ branch = [r \in Repos |->
                         [n \in Names |-> IF n \in UserBranches THEN c ELSE None]]
          /\ tree = [r \in Repos |-> c]
    BY DEF Init
<1>2. \A r \in Repos : head[r] \in UserBranches
    BY DEF Init
<1>3. \A r \in Repos : \A b \in UserBranches : branch[r][b] = c
    BY <1>1 DEF Names
<1>4. Commits
    BY <1>2, <1>3 DEF Commits, HeadCommit
<1>5. /\ phase = "idle" /\ recovery = None
      /\ build.kind = "poll" /\ build.title = None /\ build.parent = None
    BY DEF Init
<1> QED
    BY <1>2, <1>4, <1>5, InitTyped
    DEF Sound, Consistent, Handed, Described, Pointed, Looping, Heads, CleanTrees

\* The repositories and the descriptors are as they were: so are their states.
LEMMA IdleSound ==
    ASSUME Sound, Stop, UNCHANGED <<repoVars, descVars, build, edits, approved, work>>,
           failures' \in 0 .. MaxFailures
    PROVE  Sound'
<1>1. TypeOK'
    BY DEF Sound, TypeOK, Stop, repoVars, descVars, Phases
<1>2. Commits'
    BY DEF Sound, Consistent, Commits, HeadCommit, repoVars
<1>3. Handed' /\ Heads'
    BY DEF Sound, Consistent, Handed, Heads, Stop, repoVars, descVars, Good
<1>4. Described' /\ Pointed' /\ Looping' /\ CleanTrees'
    BY DEF Stop, Described, Pointed, Looping, CleanTrees
<1> QED
    BY <1>1, <1>2, <1>3, <1>4 DEF Sound, Consistent

-----------------------------------------------------------------------------
(* While no job runs *)

LEMMA StartSound ==
    ASSUME Sound, NEW kind \in Kinds, NEW parent \in Titled \cup {None},
           StartNewBuild(kind, parent)
    PROVE  Sound'
<1> USE ReposAssumption
<1> DEFINE title == IF kind = "checkout" THEN parent ELSE Cardinality(Titled) + 1
           first == IF parent = None THEN NewDescriptor(title)
                    ELSE [history[parent] EXCEPT !.title = title]
<1>1. title \in Builds
    BY DEF StartNewBuild
<1>2. parent \in Builds \cup {None}
    BY DEF Titled
<1>3. first \in Descriptor /\ first.title = title
    <2>1. CASE parent = None
        BY <1>1, <2>1 DEF NewDescriptor, Descriptor, Unset
    <2>2. CASE parent # None
        <3>1. history[parent] \in Descriptor
            BY <2>2 DEF Titled, Sound, TypeOK
        <3> QED
            BY <1>1, <2>2, <3>1 DEF Descriptor
    <2> QED
        BY <2>1, <2>2
<1> HIDE DEF title, first
<1>4. /\ build' = [kind |-> kind, title |-> title, parent |-> parent]
      /\ latest' = first /\ job' = first
      /\ history' = IF kind = "checkout" THEN history ELSE [history EXCEPT ![title] = first]
      /\ Enter("reset") /\ status' = 0
      /\ (kind = "fresh") <=> (parent = None)
      /\ UNCHANGED <<repoVars, recovery, unclean, edits, failures, approved, work, before>>
    BY DEF StartNewBuild, title, first
<1>5. build' \in Params
    BY <1>1, <1>2, <1>4 DEF Params
<1>6. history' \in [Builds -> Descriptor \cup {None}]
    BY <1>3, <1>4 DEF Sound, TypeOK
<1>7. TypeOK'
    BY <1>3, <1>4, <1>5, <1>6 DEF Sound, TypeOK, Enter, repoVars, Phases
<1>8. Handed'
    <2>1. recovery' # None => Good(recovery)'
        BY <1>4 DEF Sound, Consistent, Handed, Good
    <2>2. parent # None => parent \in Builds /\ history'[parent] \in Descriptor
        BY <1>1, <1>3, <1>4 DEF Titled, Sound, TypeOK
    <2> QED
        BY <1>1, <1>3, <1>4, <2>1, <2>2 DEF Handed, Enter
<1>9. Commits' /\ Heads'
    BY <1>4 DEF Sound, Consistent, Commits, Heads, HeadCommit, Enter, repoVars
<1>10. Described' /\ Pointed' /\ Looping' /\ CleanTrees'
    BY <1>4 DEF Enter, Described, Pointed, Looping, CleanTrees
<1> QED
    BY <1>7, <1>8, <1>9, <1>10 DEF Sound, Consistent

LEMMA PollSound ==
    ASSUME Sound, StartPoll
    PROVE  Sound'
<1> USE ReposAssumption
<1>1. TypeOK'
    BY DEF Sound, TypeOK, StartPoll, Enter, repoVars, descVars, Phases, Params
<1>2. Handed'
    BY DEF Sound, Consistent, Handed, Good, StartPoll, Enter, descVars
<1>3. Commits' /\ Heads'
    BY DEF Sound, Consistent, Commits, Heads, HeadCommit, StartPoll, Enter, repoVars, descVars
<1>4. Described' /\ Pointed' /\ Looping' /\ CleanTrees'
    BY DEF StartPoll, Enter, Described, Pointed, Looping, CleanTrees
<1> QED
    BY <1>1, <1>2, <1>3, <1>4 DEF Sound, Consistent

\* The developer and the person who repairs change what no job relies on.
LEMMA DeveloperSound ==
    ASSUME Sound, Developer \/ Repair
    PROVE  Sound'
<1> USE ReposAssumption
<1>1. /\ phase = "idle"
      /\ UNCHANGED <<loopVars, latest, job, recovery, history, build, failures>>
    BY DEF Developer, Repair, Approve, Withdraw, EditFiles, CommitFiles, MergeInto, RepairHead, CleanHistory,
           descVars, DescsOnly
<1>2. TypeOK' /\ Commits'
    <2>1. ASSUME NEW r \in Repos, NEW c \in Contents, EditFiles(r, c)
          PROVE  TypeOK' /\ Commits'
        <3>1. tree' \in [Repos -> Contents] /\ work' \in [Repos -> SUBSET Contents]
            BY <2>1 DEF EditFiles, Sound, TypeOK
        <3>2. edits' \in 0 .. MaxEdits
            BY <2>1 DEF EditFiles, Sound, TypeOK
        <3> QED
            BY <2>1, <3>1, <3>2 DEF EditFiles, Sound, Consistent, TypeOK, Commits, HeadCommit, descVars, loopVars
    <2>2. ASSUME NEW r \in Repos, CommitFiles(r)
          PROVE  TypeOK' /\ Commits'
        <3>1. /\ branch' = [branch EXCEPT ![r][head[r]] = tree[r]]
              /\ head[r] \in UserBranches /\ tree[r] \in Contents
            BY <2>2 DEF CommitFiles, Sound, TypeOK
        <3>2. /\ branch' \in [Repos -> [Names -> Contents \cup {None}]]
              /\ work' \in [Repos -> SUBSET Contents]
            BY <2>2, <3>1 DEF CommitFiles, Sound, TypeOK
        <3>3. \A q \in Repos, n \in Names : branch[q][n] \in Contents => branch'[q][n] \in Contents
            BY <3>1 DEF Sound, TypeOK
        <3>4. Commits'
            BY <2>2, <3>3 DEF CommitFiles, Sound, TypeOK, Consistent, Commits, HeadCommit, Names
        <3> QED
            BY <2>2, <3>2, <3>4 DEF CommitFiles, Sound, TypeOK, descVars, loopVars
    <2>3. ASSUME NEW r \in Repos, NEW b \in UserBranches, NEW c \in Contents, MergeInto(r, b, c)
          PROVE  TypeOK' /\ Commits'
        <3>1. branch' \in [Repos -> [Names -> Contents \cup {None}]]
            BY <2>3 DEF MergeInto, Sound, TypeOK
        <3>2. \A q \in Repos, n \in Names : branch[q][n] \in Contents => branch'[q][n] \in Contents
            BY <2>3 DEF MergeInto, Sound, TypeOK
        <3>3. Commits'
            BY <2>3, <3>2 DEF MergeInto, Sound, TypeOK, Consistent, Commits, HeadCommit, Names
        <3>4. edits' \in 0 .. MaxEdits
            BY <2>3 DEF MergeInto, Sound, TypeOK
        <3> QED
            BY <2>3, <3>1, <3>3, <3>4 DEF MergeInto, Sound, TypeOK, descVars, loopVars
    <2>4. ASSUME NEW r \in Repos, NEW b \in UserBranches, RepairHead(r, b)
          PROVE  TypeOK' /\ Commits'
        <3>1. branch[r][b] \in Contents /\ tree[r] \in Contents
            BY DEF Sound, Consistent, Commits, TypeOK
        <3>2. /\ head' \in [Repos -> Names \cup {Detached}] /\ at' \in [Repos -> Contents \cup {None}]
              /\ tree' \in [Repos -> Contents] /\ stash' \in [Repos -> SUBSET Contents]
            BY <2>4, <3>1 DEF RepairHead, Sound, TypeOK, Names
        <3>3. Commits'
            BY <2>4, <3>1 DEF RepairHead, Sound, TypeOK, Consistent, Commits, HeadCommit
        <3> QED
            BY <2>4, <3>2, <3>3 DEF RepairHead, Sound, TypeOK, descVars, loopVars
    <2>5. CASE CleanHistory
        BY <2>5 DEF CleanHistory, DescsOnly, repoVars, loopVars, Sound, TypeOK, Consistent, Commits, HeadCommit
    <2>6. CASE Approve \/ Withdraw
        <3>1. edits' \in 0 .. MaxEdits
            <4>1. edits' = edits \/ (edits < MaxEdits /\ edits' = edits + 1)
                BY <2>6 DEF Approve, Withdraw
            <4> QED
                BY <4>1 DEF Sound, TypeOK
        <3>2. approved' \in BOOLEAN
            BY <2>6, Zenon DEF Approve, Withdraw
        <3> QED
            BY <2>6, <3>1, <3>2 DEF Approve, Withdraw, repoVars, descVars, loopVars, Sound, TypeOK, Consistent,
                              Commits, HeadCommit
    <2> QED
        BY <2>1, <2>2, <2>3, <2>4, <2>5, <2>6 DEF Developer, Repair
<1>3. Heads'
    <2>1. \A r \in Repos : head[r] \in UserBranches => head'[r] \in UserBranches
        BY DEF Developer, Repair, Approve, Withdraw, EditFiles, CommitFiles, MergeInto, RepairHead, CleanHistory,
               DescsOnly, repoVars, Sound, TypeOK
    <2> QED
        BY <1>1, <2>1 DEF Heads, Sound, Consistent, loopVars
<1>4. Handed'
    BY <1>1 DEF Handed, Sound, Consistent, Good, loopVars
<1>5. Described' /\ Pointed' /\ Looping' /\ CleanTrees'
    BY <1>1 DEF loopVars, Described, Pointed, Looping, CleanTrees
<1> QED
    BY <1>2, <1>3, <1>4, <1>5 DEF Sound, Consistent

-----------------------------------------------------------------------------
(* Steps of the jobs: loops, and what a checkout changes *)

LEMMA DoneTyped ==
    ASSUME TypeOK, NEW r \in Repos, NEW p \in Phases, NEW next \in Phases,
           Done(r, p, next)
    PROVE  todo' \subseteq Repos /\ phase' \in Phases /\ cur' \in Repos \cup {None}
BY DEF TypeOK, Done

LEMMA RaiseTyped ==
    ASSUME TypeOK, NEW s \in 0 .. 2, Raise(s)
    PROVE  status' \in 0 .. 2
BY DEF TypeOK, Raise

\* What the jobs of the reset and of create_build_branches leave alone.
LEMMA HandedKept ==
    ASSUME Sound, UNCHANGED <<recovery, job, latest, history, build>>,
           \/ phase \in ResetPhases /\ phase' \in ResetPhases
           \/ phase \in Snapshot \cup BranchPhases /\ phase' \in Snapshot \cup BranchPhases
    PROVE  Handed'
BY DEF Sound, Consistent, Handed, Good

-----------------------------------------------------------------------------
(* init_pipeline-reset_previous_build.xml *)

LEMMA BeginResetSound ==
    ASSUME Sound, BeginReset
    PROVE  Sound'
<1>1. /\ phase = "reset" /\ job' = IF recovery = None THEN latest ELSE recovery
      /\ Enter(IF recovery = None THEN AfterReset ELSE "stash")
      /\ UNCHANGED <<repoVars, latest, recovery, history, unclean, status, build,
                     edits, failures, approved, work, before>>
    BY DEF BeginReset, DescsOnly
<1>2. phase' \in {"pull", "describe", "stash"} /\ phase' \in Phases
    BY <1>1 DEF Enter, AfterReset, Phases
<1>3. TypeOK'
    BY <1>1, <1>2 DEF Sound, TypeOK, Enter, repoVars
<1>4. Handed'
    BY <1>1, <1>2 DEF Sound, Consistent, Handed, Good, Enter, AfterReset
<1>5. Commits' /\ Heads' /\ CleanTrees'
    BY <1>1, <1>2 DEF Sound, Consistent, Commits, Heads, CleanTrees, HeadCommit, Enter, repoVars
<1>6. Described' /\ Pointed' /\ Looping'
    BY <1>2 DEF Described, Pointed, Looping
<1> QED
    BY <1>3, <1>4, <1>5, <1>6 DEF Sound, Consistent

LEMMA StashSound ==
    ASSUME Sound, NEW r \in Repos, StashChanges(r)
    PROVE  Sound'
<1>1. /\ phase = "stash" /\ r \in todo /\ Done(r, "stash", "switch")
      /\ UNCHANGED <<branch, head, at, work, descVars, build, edits, failures, approved, before>>
    BY DEF StashChanges, ReposOnly
<1>2. \A q \in Repos : HeadCommit(q)' = HeadCommit(q)
    BY <1>1 DEF HeadCommit
<1>3. /\ tree' \in [Repos -> Contents] /\ stash' \in [Repos -> SUBSET Contents]
      /\ tree'[r] = HeadCommit(r) /\ \A q \in Repos \ {r} : tree'[q] = tree[q]
    <2>1. HeadCommit(r) \in Contents
        BY DEF Sound, Consistent, Commits
    <2>2. CASE Dirty(r)
        BY <2>1, <2>2 DEF StashChanges, Sound, TypeOK
    <2>3. CASE ~Dirty(r)
        BY <2>3 DEF StashChanges, Sound, TypeOK, Dirty
    <2> QED
        BY <2>2, <2>3
<1>4. ~Dirty(r)' /\ \A q \in Repos \ {r} : Dirty(q)' <=> Dirty(q)
    BY <1>2, <1>3 DEF Dirty
<1>5. status' \in 0 .. 2
    BY RaiseTyped DEF StashChanges, Sound, TypeOK
<1>6. phase' \in {"stash", "switch"}
    BY <1>1 DEF Done
<1>7. TypeOK'
    BY <1>1, <1>3, <1>5, DoneTyped DEF Sound, TypeOK, descVars, Phases
<1>8. CleanTrees'
    BY <1>1, <1>4, <1>6 DEF Sound, Consistent, CleanTrees, Done
<1>9. Handed'
    BY <1>1, <1>6, HandedKept DEF descVars
<1>10. Commits' /\ Heads'
    BY <1>1, <1>2, <1>6 DEF Sound, Consistent, Commits, Heads, descVars
<1>11. Described' /\ Pointed' /\ Looping'
    BY <1>6 DEF Described, Pointed, Looping
<1> QED
    BY <1>7, <1>8, <1>9, <1>10, <1>11 DEF Sound, Consistent

LEMMA SwitchSound ==
    ASSUME Sound, NEW r \in Repos, SwitchBack(r)
    PROVE  Sound'
<1> DEFINE name == job.recBranch[r]
<1>1. name \in UserBranches /\ name # None /\ branch[r][name] \in Contents
    BY ReposAssumption DEF SwitchBack, Sound, Consistent, Handed, Good, Commits
<1>2. /\ phase = "switch" /\ r \in todo /\ Done(r, "switch", "restore")
      /\ MoveTo(r, name, branch[r][name])
      /\ UNCHANGED <<branch, stash, descVars, build, edits, failures, approved, before, status>>
    BY <1>1 DEF SwitchBack, ReposOnly
<1> HIDE DEF name
<1>3. ~Dirty(r)
    BY <1>2 DEF Sound, Consistent, CleanTrees
<1>4. tree'[r] = branch[r][name] /\ work' = work
    BY <1>1, <1>2, <1>3, MoveClean DEF Sound
<1>5. /\ HeadCommit(r)' = branch[r][name]
      /\ \A q \in Repos \ {r} : HeadCommit(q)' = HeadCommit(q) /\ (Dirty(q)' <=> Dirty(q))
    <2>1. name # Detached /\ TypeOK /\ branch' = branch
        BY <1>1, <1>2, ReposAssumption DEF Sound
    <2> QED
        BY <1>2, <2>1, MoveEffect DEF HeadCommit, Dirty
<1>6. phase' \in {"switch", "restore"}
    BY <1>2 DEF Done
<1>7. TypeOK'
    <2>1. name \in Names \cup {Detached}
        BY <1>1 DEF Names
    <2> QED
        BY <1>1, <1>2, <2>1, DoneTyped, MoveTyped DEF Sound, TypeOK, descVars, Phases
<1>8. CleanTrees'
    <2>1. ~Dirty(r)'
        BY <1>4, <1>5 DEF Dirty
    <2> QED
        BY <1>2, <1>5, <1>6, <2>1 DEF Sound, Consistent, CleanTrees, Done
<1>9. Handed'
    BY <1>2, <1>6, HandedKept DEF descVars
<1>10. Commits'
    BY <1>1, <1>2, <1>5 DEF Sound, Consistent, Commits
<1>11. Heads' /\ Described' /\ Pointed' /\ Looping'
    BY <1>2, <1>6 DEF Sound, Consistent, Handed, Heads, Described, Pointed, Looping, descVars
<1> QED
    BY <1>7, <1>8, <1>9, <1>10, <1>11 DEF Sound, Consistent

LEMMA RestoreSound ==
    ASSUME Sound, NEW r \in Repos, RestorePoint(r)
    PROVE  Sound'
<1>1. /\ phase = "restore" /\ r \in todo
      /\ UNCHANGED <<branch, stash, descVars, build, edits, failures, approved, before>>
    BY DEF RestorePoint, ReposOnly
<1>2. CASE Available(r)
    <2> DEFINE c == job.point[r]
    <2>1. c \in Contents
        BY <1>2 DEF Available, Sound, TypeOK, Descriptor
    <2>2. /\ MoveTo(r, Detached, c)
          /\ phase' = "uncommit" /\ cur' = r /\ UNCHANGED <<todo, status>>
        BY <1>2 DEF RestorePoint
    <2> HIDE DEF c
    <2>3. tree'[r] = c /\ work' = work /\ head'[r] = Detached /\ at'[r] = c
        BY <1>1, <2>1, <2>2, MoveClean, MoveEffect DEF Sound, Consistent, CleanTrees
    <2>4. /\ HeadCommit(r)' = c
          /\ \A q \in Repos \ {r} : HeadCommit(q)' = HeadCommit(q) /\ (Dirty(q)' <=> Dirty(q))
        <3>1. TypeOK /\ branch' = branch
            BY <1>1 DEF Sound
        <3> QED
            BY <2>2, <3>1, MoveEffect DEF HeadCommit, Dirty
    <2>5. TypeOK'
        BY <1>1, <2>1, <2>2, MoveTyped DEF Sound, TypeOK, descVars, Phases
    <2>6. Looping'
        BY <1>1, <2>1, <2>2, <2>3 DEF Looping, c, descVars
    <2>7. CleanTrees'
        BY <1>1, <2>2, <2>4 DEF Sound, Consistent, CleanTrees, TypeOK
    <2>8. Handed'
        BY <1>1, <2>2, HandedKept DEF descVars
    <2>9. Commits'
        BY <1>1, <2>1, <2>4 DEF Sound, Consistent, Commits
    <2>10. Heads' /\ Described' /\ Pointed'
        BY <1>1, <2>2 DEF Sound, Consistent, Handed, Heads, Described, Pointed, descVars
    <2> QED
        BY <2>5, <2>6, <2>7, <2>8, <2>9, <2>10 DEF Sound, Consistent
<1>3. CASE ~Available(r)
    <2>1. /\ Raise(2) /\ Done(r, "restore", "delete") /\ UNCHANGED <<head, at, tree, work>>
        BY <1>3 DEF RestorePoint
    <2>2. phase' \in {"restore", "delete"} /\ (phase' = "delete" => todo' = Repos)
        BY <2>1 DEF Done
    <2>3. TypeOK'
        BY <1>1, <2>1, DoneTyped, RaiseTyped DEF Sound, TypeOK, descVars, Phases
    <2>4. Handed'
        BY <1>1, <2>2, HandedKept DEF descVars
    <2>5. Commits'
        BY <1>1, <2>1 DEF Sound, Consistent, Commits, HeadCommit
    <2>6. CleanTrees'
        BY <1>1, <2>1, <2>2 DEF Sound, Consistent, CleanTrees, Dirty, HeadCommit, Done
    <2>7. Heads' /\ Described' /\ Pointed' /\ Looping'
        BY <1>1, <2>2 DEF Sound, Consistent, Handed, Heads, Described, Pointed, Looping, descVars
    <2> QED
        BY <2>3, <2>4, <2>5, <2>6, <2>7 DEF Sound, Consistent
<1> QED
    BY <1>2, <1>3

LEMMA UncommitSound ==
    ASSUME Sound, Uncommit
    PROVE  Sound'
<1>1. /\ phase = "uncommit" /\ phase' = "rebase"
      /\ at' = [at EXCEPT ![cur] = job.recCommit[cur]]
      /\ UNCHANGED <<branch, head, tree, stash, work, todo, cur, status, descVars, build,
                     edits, failures, approved, before>>
    BY DEF Uncommit, ReposOnly
<1>2. cur \in todo /\ cur \in Repos /\ head[cur] = Detached
      /\ job.recCommit[cur] \in Contents
    BY <1>1 DEF Sound, Consistent, Looping, Handed, Good, TypeOK
<1>3. /\ HeadCommit(cur)' = job.recCommit[cur]
      /\ \A q \in Repos \ {cur} : HeadCommit(q)' = HeadCommit(q) /\ (Dirty(q)' <=> Dirty(q))
    BY <1>1, <1>2 DEF HeadCommit, Dirty, Sound, TypeOK
<1>4. TypeOK'
    BY <1>1, <1>2 DEF Sound, TypeOK, descVars, Phases
<1>5. Commits'
    BY <1>1, <1>2, <1>3 DEF Sound, Consistent, Commits
<1>6. Looping'
    BY <1>1, <1>2 DEF Sound, Consistent, Looping, descVars, TypeOK
<1>7. CleanTrees'
    BY <1>1, <1>3 DEF Sound, Consistent, CleanTrees, TypeOK
<1>8. Handed'
    BY <1>1, HandedKept DEF descVars
<1>9. Heads' /\ Described' /\ Pointed'
    BY <1>1 DEF Sound, Consistent, Handed, Heads, Described, Pointed, descVars
<1> QED
    BY <1>4, <1>5, <1>6, <1>7, <1>8, <1>9 DEF Sound, Consistent

LEMMA RebaseSound ==
    ASSUME Sound, RebaseOnBranch, NEW r \in Repos, cur = r
    PROVE  Sound'
<1> DEFINE name == job.recBranch[r]
           tip == branch[r][name]
<1>1. /\ phase = "rebase" /\ MoveTo(r, name, tip) /\ Done(r, "restore", "delete")
      /\ UNCHANGED <<branch, stash, status, descVars, build, edits, failures, approved, before>>
    BY DEF RebaseOnBranch, ReposOnly
<1>2. r \in todo
    BY <1>1 DEF Sound, Consistent, Looping, TypeOK
<1>3. name \in UserBranches /\ name # Detached /\ tip \in Contents
    BY <1>1, <1>2, ReposAssumption DEF Sound, Consistent, Handed, Good, Commits
<1>4. /\ HeadCommit(r)' = tip
      /\ \A q \in Repos \ {r} : HeadCommit(q)' = HeadCommit(q) /\ (Dirty(q)' <=> Dirty(q))
    <2>1. TypeOK /\ branch' = branch
        BY <1>1 DEF Sound
    <2> HIDE DEF name
    <2> QED
        BY <1>1, <1>2, <1>3, <2>1, MoveEffect DEF HeadCommit, Dirty
<1> HIDE DEF name, tip
<1>5. phase' \in {"restore", "delete"} /\ (phase' = "delete" => todo' = Repos)
    BY <1>1 DEF Done
<1>6. TypeOK'
    <2>1. name \in Names \cup {Detached}
        BY <1>3 DEF Names
    <2> QED
        BY <1>1, <1>2, <1>3, <2>1, DoneTyped, MoveTyped DEF Sound, TypeOK, descVars, Phases
<1>7. CleanTrees'
    BY <1>1, <1>2, <1>4, <1>5 DEF Sound, Consistent, CleanTrees, Done, TypeOK
<1>8. Handed'
    BY <1>1, <1>5, HandedKept DEF descVars
<1>9. Commits'
    BY <1>1, <1>2, <1>3, <1>4 DEF Sound, Consistent, Commits
<1>10. Heads' /\ Described' /\ Pointed' /\ Looping'
    BY <1>1, <1>5 DEF Sound, Consistent, Handed, Heads, Described, Pointed, Looping, descVars
<1> QED
    BY <1>6, <1>7, <1>8, <1>9, <1>10 DEF Sound, Consistent

LEMMA DeleteSound ==
    ASSUME Sound, NEW r \in Repos, DeleteBuildBranch(r)
    PROVE  Sound'
<1> USE ReposAssumption
<1>1. /\ phase = "delete" /\ r \in todo /\ Done(r, "delete", "forget")
      /\ UNCHANGED <<head, at, tree, stash, work, descVars, build, edits, failures, approved, before>>
    BY DEF DeleteBuildBranch, ReposOnly
<1>2. job.recBranch[r] \in UserBranches /\ job.title \in Builds
    BY <1>1 DEF Sound, Consistent, Handed, Good
<1>3. job.recBranch[r] # None /\ job.title # None
    BY <1>2 DEF Builds
<1>4. /\ head[r] = job.recBranch[r]
      /\ branch' = [branch EXCEPT ![r][job.title] = None]
      /\ IF branch[r][job.title] = None THEN Raise(1) ELSE UNCHANGED status
    BY <1>3 DEF DeleteBuildBranch
<1>5. job.title \in Names /\ job.title \notin UserBranches
    BY <1>2 DEF Builds, Names
<1>6. branch' \in [Repos -> [Names -> Contents \cup {None}]]
    BY <1>4, <1>5 DEF Sound, TypeOK
<1>7. /\ \A q \in Repos, b \in UserBranches : branch'[q][b] = branch[q][b]
      /\ \A q \in Repos \ {r} : branch'[q] = branch[q]
    BY <1>4, <1>5 DEF Sound, TypeOK, Names
<1>8. \A q \in Repos : HeadCommit(q)' = HeadCommit(q)
    BY <1>1, <1>2, <1>4, <1>7 DEF HeadCommit
<1>9. phase' \in {"delete", "forget"}
    BY <1>1 DEF Done
<1>10. status' \in 0 .. 2
    BY <1>4, RaiseTyped DEF Sound, TypeOK
<1>11. TypeOK'
    BY <1>1, <1>6, <1>10, DoneTyped DEF Sound, TypeOK, descVars, Phases
<1>12. Commits'
    BY <1>7, <1>8 DEF Sound, Consistent, Commits
<1>13. Heads'
    BY <1>1, <1>2, <1>4, <1>9 DEF Sound, Consistent, Heads, Handed, Done, descVars
<1>14. Handed'
    BY <1>1, <1>9, HandedKept DEF descVars
<1>15. Described' /\ Pointed' /\ Looping' /\ CleanTrees'
    BY <1>9 DEF Described, Pointed, Looping, CleanTrees
<1> QED
    BY <1>11, <1>12, <1>13, <1>14, <1>15 DEF Sound, Consistent

LEMMA ForgetSound ==
    ASSUME Sound, ForgetBuild
    PROVE  Sound'
<1>1. /\ phase = "forget" /\ recovery' = None
      /\ UNCHANGED <<repoVars, latest, job, history, unclean, build, edits, failures, approved,
                     work, before>>
    BY DEF ForgetBuild, DescsOnly
<1>2. /\ phase' \in {"idle", "pull", "describe"} /\ phase' \in Phases
      /\ phase' = "describe" => build.kind # "poll"
    BY DEF ForgetBuild, Stop, Enter, AfterReset, Phases
<1>3. todo' \subseteq Repos /\ cur' \in Repos \cup {None} /\ status' \in 0 .. 2
    BY DEF ForgetBuild, Stop, Enter
<1>4. TypeOK'
    BY <1>1, <1>2, <1>3 DEF Sound, TypeOK, repoVars
<1>5. Commits' /\ Heads'
    BY <1>1, <1>2 DEF Sound, Consistent, Commits, Heads, HeadCommit, repoVars
<1>6. Handed'
    BY <1>1, <1>2 DEF Sound, Consistent, Handed
<1>7. Described' /\ Pointed' /\ Looping' /\ CleanTrees'
    BY <1>2 DEF Described, Pointed, Looping, CleanTrees
<1> QED
    BY <1>4, <1>5, <1>6, <1>7 DEF Sound, Consistent

-----------------------------------------------------------------------------
(* poll_pipeline-update_sources.xml *)

LEMMA PullSound ==
    ASSUME Sound, NEW r \in Repos, PullBranch(r)
    PROVE  Sound'
<1> USE ReposAssumption
<1>1. /\ phase = "pull" /\ r \in todo /\ head[r] \in UserBranches
      /\ head[r] # Detached /\ head[r] \in Names
      /\ IF todo = {r} THEN Stop ELSE Done(r, "pull", "idle") /\ UNCHANGED status
      /\ UNCHANGED <<stash, descVars, build, failures, approved, before>>
    BY DEF PullBranch, Names
<1>2. phase' \in {"pull", "idle"} /\ phase' \in Phases
    BY <1>1 DEF Stop, Done, Phases
<1>3. todo' \subseteq Repos /\ cur' \in Repos \cup {None} /\ status' \in 0 .. 2
    BY <1>1 DEF Stop, Done, Sound, TypeOK
<1>4. /\ branch' \in [Repos -> [Names -> Contents \cup {None}]]
      /\ head' \in [Repos -> Names \cup {Detached}] /\ at' \in [Repos -> Contents \cup {None}]
      /\ tree' \in [Repos -> Contents] /\ work' \in [Repos -> SUBSET Contents]
      /\ edits' \in 0 .. MaxEdits
      /\ \A q \in Repos : head'[q] = head[q]
      /\ Commits'
    <2>1. CASE UNCHANGED <<branch, head, at, tree, work, edits>>
        BY <2>1 DEF Sound, TypeOK, Consistent, Commits, HeadCommit
    <2>2. ASSUME NEW c \in Contents, edits < MaxEdits, edits' = edits + 1,
                 branch' = [branch EXCEPT ![r][head[r]] = c], MoveTo(r, head[r], c)
          PROVE  <1>4!:
        <3>1. branch' \in [Repos -> [Names -> Contents \cup {None}]]
            BY <2>2 DEF Sound, TypeOK
        <3>2. /\ head' \in [Repos -> Names \cup {Detached}] /\ at' \in [Repos -> Contents \cup {None}]
              /\ tree' \in [Repos -> Contents] /\ work' \in [Repos -> SUBSET Contents]
            BY <1>1, <2>2, MoveTyped DEF Sound
        <3>3. head'[r] = head[r] /\ \A q \in Repos \ {r} : head'[q] = head[q] /\ at'[q] = at[q]
            BY <2>2, MoveEffect DEF Sound
        <3>4. \A q \in Repos, n \in Names : branch[q][n] \in Contents => branch'[q][n] \in Contents
            BY <2>2 DEF Sound, TypeOK
        <3>5. branch'[r][head[r]] = c
            BY <1>1, <2>2 DEF Sound, TypeOK
        <3>6. \A q \in Repos : HeadCommit(q)' \in Contents
            <4>1. HeadCommit(r)' = c
                BY <1>1, <3>3, <3>5 DEF HeadCommit
            <4>2. ASSUME NEW q \in Repos \ {r} PROVE HeadCommit(q)' \in Contents
                BY <3>3, <3>4 DEF HeadCommit, Sound, TypeOK, Consistent, Commits
            <4> QED
                BY <4>1, <4>2
        <3>7. Commits'
            BY <3>4, <3>6 DEF Sound, Consistent, Commits, Names
        <3>8. edits' \in 0 .. MaxEdits
            BY <2>2 DEF Sound, TypeOK
        <3> QED
            BY <3>1, <3>2, <3>3, <3>7, <3>8
    <2> QED
        BY <2>1, <2>2 DEF PullBranch
<1>5. TypeOK'
    BY <1>1, <1>2, <1>3, <1>4 DEF Sound, TypeOK, descVars
<1>6. Handed' /\ Heads'
    BY <1>1, <1>2, <1>4 DEF Sound, Consistent, Handed, Heads, Good, descVars
<1>7. Described' /\ Pointed' /\ Looping' /\ CleanTrees'
    BY <1>2 DEF Described, Pointed, Looping, CleanTrees
<1> QED
    BY <1>4, <1>5, <1>6, <1>7 DEF Sound, Consistent

-----------------------------------------------------------------------------
(* init_pipeline-describe_repositories_state.xml, and how descriptors are handed on *)

LEMMA DescribeSound ==
    ASSUME Sound, DescribeRepositories
    PROVE  Sound'
<1> USE ReposAssumption
<1>1. /\ phase = "describe" /\ phase' = "tellDescribed" /\ Enter("tellDescribed")
      /\ job' = [latest EXCEPT !.recBranch = head,
                               !.recCommit = [r \in Repos |-> HeadCommit(r)],
                               !.required = [r \in Repos |-> Required(r)],
                               !.tip = [r \in Repos |-> Required(r)]]
      /\ UNCHANGED <<repoVars, latest, recovery, history, unclean, status, build,
                     edits, failures, approved, work, before>>
    BY DEF DescribeRepositories, Enter, DescsOnly
<1>2. /\ head \in [Repos -> UserBranches]
      /\ \A r \in Repos : HeadCommit(r) \in Contents
    BY <1>1 DEF Sound, TypeOK, Consistent, Handed, Heads, Commits
<1>3. \A r \in Repos : Required(r) \in Contents
    <2> TAKE r \in Repos
    <2>1. CASE r \in Pillars
        BY <2>1 DEF Required, Sound, Consistent, Commits
    <2>2. CASE r \notin Pillars /\ build.parent # None
        <3>1. history[build.parent] \in Descriptor
            BY <2>2 DEF Sound, Consistent, Handed
        <3>2. history[build.parent].tip[r] \in Contents
            BY <2>2, <3>1 DEF DescribeRepositories, Describable, Descriptor
        <3> QED
            BY <2>2, <3>2 DEF Required
    <2>3. CASE r \notin Pillars /\ build.parent = None
        BY <1>2, <2>3 DEF Required
    <2> QED
        BY <2>1, <2>2, <2>3
<1>4. latest \in Descriptor /\ latest.title \in Builds /\ build.kind # "poll"
    BY <1>1 DEF Sound, TypeOK, Consistent, Handed
<1>5. /\ job'.recBranch = head /\ job'.recCommit = [r \in Repos |-> HeadCommit(r)]
      /\ job'.required = [r \in Repos |-> Required(r)]
      /\ job'.title = latest.title
    BY <1>1, <1>4 DEF Descriptor
<1>6. job' \in Descriptor
    BY <1>1, <1>2, <1>3, <1>4 DEF Descriptor
<1>7. TypeOK'
    BY <1>1, <1>6 DEF Sound, TypeOK, Enter, repoVars, Phases
<1>8. Handed'
    BY <1>1, <1>4 DEF Sound, Consistent, Handed
<1>9. Described'
    <2>1. Ready(job)'
        BY <1>2, <1>3, <1>4, <1>5, <1>6 DEF Ready, Good
    <2>2. \A r \in Repos : At(job, r)'
        BY <1>1, <1>5 DEF At, HeadCommit, repoVars
    <2> QED
        BY <1>1, <2>1, <2>2 DEF Described
<1>10. Commits' /\ Heads'
    BY <1>1 DEF Sound, Consistent, Commits, Heads, HeadCommit, repoVars
<1>11. Pointed' /\ Looping' /\ CleanTrees'
    BY <1>1 DEF Pointed, Looping, CleanTrees
<1> QED
    BY <1>7, <1>8, <1>9, <1>10, <1>11 DEF Sound, Consistent

LEMMA TellDescribedSound ==
    ASSUME Sound, TellNextJob("tellDescribed", "keepDescribed")
    PROVE  Sound'
<1>1. /\ phase = "tellDescribed" /\ phase' = "keepDescribed" /\ Enter("keepDescribed")
      /\ latest' = job /\ unclean' \in BOOLEAN
      /\ UNCHANGED <<repoVars, job, recovery, history, status, build, edits, failures, approved,
                     work, before>>
    BY DEF TellNextJob, Enter, DescsOnly
<1>2. TypeOK'
    BY <1>1 DEF Sound, TypeOK, Enter, repoVars, Phases
<1>3. Handed'
    BY <1>1 DEF Sound, Consistent, Handed
<1>4. Described'
    BY <1>1 DEF Sound, Consistent, Described, Ready, Good, At, HeadCommit, repoVars
<1>5. Commits' /\ Heads'
    BY <1>1 DEF Sound, Consistent, Commits, Heads, HeadCommit, repoVars
<1>6. Pointed' /\ Looping' /\ CleanTrees'
    BY <1>1 DEF Pointed, Looping, CleanTrees
<1> QED
    BY <1>2, <1>3, <1>4, <1>5, <1>6 DEF Sound, Consistent

LEMMA KeepDescribedSound ==
    ASSUME Sound, KeepDescribed
    PROVE  Sound'
<1>1. /\ phase = "keepDescribed" /\ phase' = "create" /\ Enter("create")
      /\ history' = IF ReadOnly THEN history ELSE [history EXCEPT ![build.title] = job]
      /\ unclean' = FALSE
      /\ UNCHANGED <<repoVars, latest, job, recovery, status, build, edits, failures, approved,
                     work, before>>
    BY DEF KeepDescribed, KeepInHistory, Enter, DescsOnly
<1>2. history' \in [Builds -> Descriptor \cup {None}]
      /\ \A b \in Builds : history[b] \in Descriptor => history'[b] \in Descriptor
    BY <1>1 DEF Sound, TypeOK
<1>3. TypeOK'
    BY <1>1, <1>2 DEF Sound, TypeOK, Enter, repoVars, Phases
<1>4. Handed'
    BY <1>1, <1>2 DEF Sound, Consistent, Handed
<1>5. Described'
    BY <1>1 DEF Sound, Consistent, Described, Ready, Good, At, HeadCommit, repoVars
<1>6. Commits' /\ Heads'
    BY <1>1 DEF Sound, Consistent, Commits, Heads, HeadCommit, repoVars
<1>7. Pointed' /\ Looping' /\ CleanTrees'
    BY <1>1 DEF Pointed, Looping, CleanTrees
<1> QED
    BY <1>3, <1>4, <1>5, <1>6, <1>7 DEF Sound, Consistent

-----------------------------------------------------------------------------
(* init_pipeline-create_build_branches.xml *)

LEMMA BeginCreateSound ==
    ASSUME Sound, BeginCreate
    PROVE  Sound'
<1> USE ReposAssumption, NoneAssumption
<1>1. /\ phase = "create" /\ phase' = "point" /\ Enter("point")
      /\ job' = latest /\ recovery' = latest
      /\ UNCHANGED <<repoVars, latest, history, unclean, status, build, edits,
                     failures, approved, work>>
    BY DEF BeginCreate, Enter
<1>2. /\ Ready(latest) /\ \A r \in Repos : At(latest, r)
      /\ \A r \in Repos : head[r] \in UserBranches
    BY <1>1 DEF Sound, Consistent, Described, Handed, Heads
<1>3. TypeOK'
    BY <1>1 DEF Sound, TypeOK, Enter, repoVars, Phases
<1>4. Handed'
    BY <1>1, <1>2 DEF Sound, Consistent, Handed, Ready, Good
<1>5. Described'
    <2>1. Ready(job)'
        BY <1>1, <1>2 DEF Ready, Good
    <2>2. \A r \in Repos : branch[r][latest.recBranch[r]] = latest.recCommit[r]
        BY <1>2 DEF At, HeadCommit
    <2>3. Unmoved(job)'
        BY <1>1, <2>2 DEF Unmoved, repoVars
    <2> QED
        BY <1>1, <2>1, <2>3 DEF Described
<1>6. Looping'
    <2>1. \A r \in Repos : At(job, r)'
        BY <1>1, <1>2 DEF At, HeadCommit, repoVars
    <2> QED
        BY <1>1, <2>1 DEF Looping, Enter
<1>7. Commits' /\ Pointed' /\ CleanTrees'
    BY <1>1 DEF Sound, Consistent, Commits, Pointed, CleanTrees, HeadCommit, Enter, repoVars
<1>8. Heads'
    BY <1>1, <1>2 DEF Heads, repoVars
<1> QED
    BY <1>3, <1>4, <1>5, <1>6, <1>7, <1>8 DEF Sound, Consistent

LEMMA DetachSound ==
    ASSUME Sound, NEW r \in Repos, DetachHead(r)
    PROVE  Sound'
<1>1. /\ phase = "point" /\ r \in todo /\ phase' = "commit" /\ cur' = r
      /\ MoveTo(r, Detached, HeadCommit(r))
      /\ UNCHANGED <<branch, stash, todo, status, descVars, build, edits, failures, approved, before>>
    BY DEF DetachHead, ReposOnly
<1>2. HeadCommit(r) \in Contents /\ HeadCommit(r) = job.recCommit[r]
    BY <1>1 DEF Sound, Consistent, Commits, Looping, At
<1>3. /\ head'[r] = Detached /\ at'[r] = HeadCommit(r) /\ HeadCommit(r)' = HeadCommit(r)
      /\ \A q \in Repos \ {r} : /\ HeadCommit(q)' = HeadCommit(q) /\ (Dirty(q)' <=> Dirty(q))
                                 /\ head'[q] = head[q]
    <2>1. TypeOK /\ branch' = branch
        BY <1>1 DEF Sound
    <2>2. head'[r] = Detached /\ at'[r] = HeadCommit(r)
        BY <1>1, <2>1, MoveEffect
    <2> QED
        BY <1>1, <2>1, <2>2, MoveEffect DEF HeadCommit, Dirty
<1>4. TypeOK'
    BY <1>1, <1>2, MoveTyped DEF Sound, TypeOK, descVars, Phases
<1>5. Looping'
    <2>1. \A q \in todo \ {r} : At(job, q)'
        BY <1>1, <1>3 DEF Sound, TypeOK, Consistent, Looping, At, descVars
    <2> QED
        BY <1>1, <1>2, <1>3, <2>1 DEF Looping, descVars
<1>6. Handed'
    BY <1>1, HandedKept DEF descVars
<1>7. Described'
    <2>1. Ready(job)' /\ Unmoved(job)'
        BY <1>1 DEF Sound, Consistent, Described, Ready, Good, Unmoved, descVars
    <2> QED
        BY <1>1, <2>1 DEF Described
<1>8. Commits'
    BY <1>1, <1>2, <1>3 DEF Sound, Consistent, Commits
<1>9. Pointed' /\ Heads'
    BY <1>1 DEF Sound, Consistent, Handed, Pointed, Heads, ReadOnly, descVars
<1>10. CleanTrees'
    BY <1>1, <1>3 DEF Sound, Consistent, CleanTrees, ReadOnly
<1> QED
    BY <1>4, <1>5, <1>6, <1>7, <1>8, <1>9, <1>10 DEF Sound, Consistent

LEMMA CommitPointSound ==
    ASSUME Sound, CommitPoint, NEW r \in Repos, cur = r
    PROVE  Sound'
<1>1. /\ phase = "commit" /\ phase' = "back" /\ r \in todo /\ cur' = r
      /\ UNCHANGED <<branch, head, tree, stash, work, latest, recovery, history,
                     unclean, todo, cur, status, build, edits, failures, approved, before>>
    BY DEF CommitPoint, Sound, Consistent, Looping
<1>2. /\ head[r] = Detached /\ tree[r] \in Contents /\ Ready(job) /\ job \in Descriptor
      /\ Unmoved(job) /\ at[r] = job.recCommit[r]
      /\ \A q \in todo \ {r} : At(job, q)
    BY <1>1 DEF Sound, TypeOK, Consistent, Looping, Described
<1>3. /\ job' \in Descriptor /\ at' \in [Repos -> Contents \cup {None}]
      /\ job'.recBranch = job.recBranch /\ job'.recCommit = job.recCommit
      /\ job'.required = job.required /\ job'.title = job.title
      /\ \A q \in Repos \ {r} : job'.point[q] = job.point[q] /\ at'[q] = at[q]
      /\ IF ReadOnly THEN at'[r] = at[r] ELSE at'[r] = tree[r] /\ job'.point[r] = tree[r]
    <2>1. CASE ReadOnly
        BY <1>2, <2>1 DEF CommitPoint, Sound, TypeOK
    <2>2. CASE ~ReadOnly
        <3>1. job' = [job EXCEPT !.point[r] = tree[r]] /\ at' = [at EXCEPT ![r] = tree[r]]
            BY <2>2 DEF CommitPoint
        <3> QED
            BY <1>2, <2>2, <3>1 DEF Descriptor, Sound, TypeOK
    <2> QED
        BY <2>1, <2>2
<1>4. \A q \in Repos \ {r} : HeadCommit(q)' = HeadCommit(q) /\ (Dirty(q)' <=> Dirty(q))
    BY <1>1, <1>3 DEF HeadCommit, Dirty
<1>5. TypeOK'
    BY <1>1, <1>3 DEF Sound, TypeOK, Phases
<1>6. Handed'
    BY <1>1 DEF Sound, Consistent, Handed, Good
<1>7. Described'
    <2>1. Ready(job)' /\ Unmoved(job)'
        BY <1>1, <1>2, <1>3 DEF Ready, Good, Unmoved
    <2> QED
        BY <1>1, <2>1 DEF Described
<1>8. Looping'
    <2>1. \A q \in todo \ {r} : At(job, q)'
        BY <1>1, <1>2, <1>3, <1>4 DEF At, Sound, TypeOK
    <2> QED
        BY <1>1, <1>2, <1>3, <2>1 DEF Looping, ReadOnly
<1>9. Commits'
    <2>1. HeadCommit(r)' \in Contents
        BY <1>1, <1>2, <1>3 DEF HeadCommit, Ready, Good
    <2> QED
        BY <1>1, <1>4, <2>1 DEF Sound, Consistent, Commits
<1>10. Pointed'
    BY <1>1, <1>3 DEF Sound, Consistent, Pointed, ReadOnly
<1>11. CleanTrees'
    BY <1>1, <1>4 DEF Sound, Consistent, CleanTrees, ReadOnly
<1>12. Heads'
    BY <1>1 DEF Sound, Consistent, Handed, Heads
<1> QED
    BY <1>5, <1>6, <1>7, <1>8, <1>9, <1>10, <1>11, <1>12 DEF Sound, Consistent

LEMMA BackSound ==
    ASSUME Sound, BackOnBranch, NEW r \in Repos, cur = r
    PROVE  Sound'
<1> DEFINE name == job.recBranch[r]
           tip == branch[r][name]
<1>1. /\ phase = "back" /\ MoveTo(r, name, tip) /\ Done(r, "point", "save")
      /\ UNCHANGED <<branch, stash, status, descVars, build, edits, failures, approved, before>>
    BY DEF BackOnBranch, ReposOnly
<1>2. r \in todo /\ head[r] = Detached /\ Ready(job) /\ Unmoved(job)
      /\ \A q \in todo \ {r} : At(job, q)
    BY <1>1 DEF Sound, Consistent, Looping, Described
<1>3. name \in UserBranches /\ name # Detached /\ tip \in Contents
    BY <1>2, ReposAssumption DEF Ready, Good, Sound, Consistent, Commits
<1> HIDE DEF name
<1>4. /\ HeadCommit(r)' = tip
      /\ \A q \in Repos \ {r} : /\ HeadCommit(q)' = HeadCommit(q) /\ (Dirty(q)' <=> Dirty(q))
                                 /\ head'[q] = head[q]
    <2>1. TypeOK /\ branch' = branch
        BY <1>1 DEF Sound
    <2> QED
        BY <1>1, <1>3, <2>1, MoveEffect DEF HeadCommit, Dirty
<1> HIDE DEF tip
<1>5. phase' \in {"point", "save"}
    BY <1>1 DEF Done
<1>6. TypeOK'
    <2>1. name \in Names \cup {Detached}
        BY <1>3 DEF Names
    <2> QED
        BY <1>1, <1>2, <1>3, <2>1, DoneTyped, MoveTyped DEF Sound, TypeOK, descVars, Phases
<1>7. CleanTrees'
    <2>1. ASSUME ~ReadOnly PROVE ~Dirty(r)'
        <3>1. ~Dirty(r)
            BY <1>1, <1>2, <2>1 DEF Sound, Consistent, Looping, Dirty, HeadCommit
        <3>2. tree'[r] = tip
            BY <1>1, <1>3, <3>1, MoveClean DEF Sound
        <3> QED
            BY <1>4, <3>2 DEF Dirty
    <2> QED
        BY <1>1, <1>4, <1>5, <2>1 DEF Sound, Consistent, CleanTrees, ReadOnly, Done
<1>8. Pointed'
    <2>1. ~ReadOnly => job.point[r] \in Contents
        BY <1>1 DEF Sound, TypeOK, Consistent, Looping
    <2> QED
        BY <1>1, <1>5, <2>1 DEF Sound, Consistent, Pointed, ReadOnly, Done, descVars
<1>9. Handed'
    BY <1>1, <1>5, HandedKept DEF descVars
<1>10. Described'
    <2>1. Ready(job)' /\ Unmoved(job)'
        BY <1>1, <1>2 DEF Ready, Good, Unmoved, descVars
    <2> QED
        BY <1>5, <2>1 DEF Described
<1>11. Looping'
    <2>1. \A q \in todo \ {r} : At(job, q)'
        BY <1>1, <1>2, <1>4 DEF At, descVars, Sound, TypeOK
    <2> QED
        BY <1>1, <1>5, <2>1 DEF Looping, Done
<1>12. Commits'
    BY <1>1, <1>3, <1>4 DEF Sound, Consistent, Commits
<1>13. Heads'
    BY <1>1, <1>5 DEF Sound, Consistent, Handed, Heads, descVars
<1> QED
    BY <1>6, <1>7, <1>8, <1>9, <1>10, <1>11, <1>12, <1>13 DEF Sound, Consistent

LEMMA SaveSound ==
    ASSUME Sound, SavePoints
    PROVE  Sound'
<1> USE NoneAssumption
<1>1. /\ phase = "save" /\ phase' = "branch" /\ Enter("branch") /\ recovery' = job
      /\ UNCHANGED <<repoVars, latest, job, history, unclean, status, build, edits,
                     failures, approved, work, before>>
    BY DEF SavePoints, Enter, DescsOnly
<1>2. Ready(job)
    BY <1>1 DEF Sound, Consistent, Described
<1>3. TypeOK'
    BY <1>1, <1>2 DEF Sound, TypeOK, Enter, repoVars, Phases
<1>4. Handed'
    BY <1>1, <1>2 DEF Sound, Consistent, Handed, Ready, Good
<1>5. Described'
    BY <1>1, <1>2 DEF Described, Ready, Good, SamePoints
<1>6. Commits' /\ Pointed' /\ CleanTrees'
    BY <1>1 DEF Sound, Consistent, Commits, Pointed, CleanTrees, Dirty, HeadCommit, ReadOnly,
                Enter, repoVars
<1>7. Heads' /\ Looping'
    BY <1>1, <1>2 DEF Heads, Looping, Enter, Ready, Good
<1> QED
    BY <1>3, <1>4, <1>5, <1>6, <1>7 DEF Sound, Consistent

LEMMA CreateSound ==
    ASSUME Sound, NEW r \in Repos, CreateBranch(r)
    PROVE  Sound'
<1> USE ReposAssumption
<1> DEFINE c == BuildCommit(r)
           title == build.title
<1>1. /\ phase = "branch" /\ r \in todo /\ Done(r, "branch", "tellCreated")
      /\ branch' = [branch EXCEPT ![r][title] = c]
      /\ MoveTo(r, title, c)
      /\ job' = IF Merges(r) THEN [job EXCEPT !.tip[r] = c] ELSE job
      /\ UNCHANGED <<stash, latest, recovery, history, unclean, status, build,
                     edits, failures, approved, before>>
    BY DEF CreateBranch
<1>2. Ready(job) /\ job \in Descriptor /\ SamePoints(job) /\ title \in Builds
    BY <1>1 DEF Sound, TypeOK, Consistent, Described, Handed
<1>3. c \in Contents
    <2>1. CASE Merges(r)
        <3>1. ~ReadOnly
            BY <1>1, <2>1 DEF Merges, ReadOnly, Sound, Consistent, Handed
        <3> QED
            BY <1>1, <2>1, <3>1 DEF BuildCommit, Sound, Consistent, Pointed
    <2>2. CASE ~Merges(r)
        BY <1>2, <2>2 DEF BuildCommit, Ready
    <2> QED
        BY <2>1, <2>2
<1> HIDE DEF c, title
<1>4. title \in Names /\ title \notin UserBranches /\ title # Detached
    BY <1>2 DEF Builds, Names
<1>5. branch' \in [Repos -> [Names -> Contents \cup {None}]]
    BY <1>1, <1>3, <1>4 DEF Sound, TypeOK
<1>6. /\ \A q \in Repos, b \in UserBranches : branch'[q][b] = branch[q][b]
      /\ \A q \in Repos \ {r} : branch'[q] = branch[q]
      /\ branch'[r][title] = c
    BY <1>1, <1>4 DEF Sound, TypeOK, Names
<1>7. /\ HeadCommit(r)' = c /\ head'[r] = title
      /\ \A q \in Repos \ {r} : /\ HeadCommit(q)' = HeadCommit(q) /\ (Dirty(q)' <=> Dirty(q))
                                 /\ head'[q] = head[q]
    <2>1. TypeOK
        BY DEF Sound
    <2> QED
        BY <1>1, <1>4, <1>6, <2>1, MoveEffect DEF HeadCommit, Dirty
<1>8. /\ job' \in Descriptor
      /\ job'.recBranch = job.recBranch /\ job'.recCommit = job.recCommit
      /\ job'.required = job.required /\ job'.title = job.title /\ job'.point = job.point
    BY <1>1, <1>2, <1>3 DEF Descriptor
<1>9. phase' \in {"branch", "tellCreated"}
    BY <1>1 DEF Done
<1>10. TypeOK'
    <2>1. title \in Names \cup {Detached}
        BY <1>4
    <2> QED
        BY <1>1, <1>3, <1>5, <1>8, <2>1, DoneTyped, MoveTyped DEF Sound, TypeOK, Phases
<1>11. Handed'
    BY <1>1, <1>9 DEF Sound, Consistent, Handed, Good
<1>12. Described'
    BY <1>1, <1>2, <1>8, <1>9 DEF Described, Ready, Good, SamePoints
<1>13. Pointed'
    BY <1>1, <1>8, <1>9 DEF Sound, Consistent, Pointed, ReadOnly
<1>14. Commits'
    BY <1>3, <1>6, <1>7 DEF Sound, Consistent, Commits
<1>15. Heads'
    BY <1>1, <1>7, <1>9 DEF Sound, Consistent, Handed, Heads, Done, title
<1>16. CleanTrees'
    <2>1. ASSUME ~ReadOnly PROVE ~Dirty(r)'
        <3>1. ~Dirty(r)
            BY <1>1, <2>1 DEF Sound, Consistent, CleanTrees
        <3>2. tree'[r] = c
            BY <1>1, <1>3, <3>1, MoveClean DEF Sound
        <3> QED
            BY <1>7, <3>2 DEF Dirty
    <2> QED
        BY <1>1, <1>7, <1>9, <2>1 DEF Sound, Consistent, CleanTrees, ReadOnly
<1>17. Looping'
    BY <1>9 DEF Looping
<1> QED
    BY <1>10, <1>11, <1>12, <1>13, <1>14, <1>15, <1>16, <1>17 DEF Sound, Consistent

LEMMA TellCreatedSound ==
    ASSUME Sound, TellNextJob("tellCreated", "keepCreated")
    PROVE  Sound'
<1>1. /\ phase = "tellCreated" /\ phase' = "keepCreated" /\ Enter("keepCreated")
      /\ latest' = job /\ unclean' \in BOOLEAN
      /\ UNCHANGED <<repoVars, job, recovery, history, status, build, edits, failures, approved,
                     work, before>>
    BY DEF TellNextJob, Enter, DescsOnly
<1>2. TypeOK'
    BY <1>1 DEF Sound, TypeOK, Enter, repoVars, Phases
<1>3. Handed'
    BY <1>1 DEF Sound, Consistent, Handed, Good
<1>4. Described'
    BY <1>1 DEF Sound, Consistent, Described, Ready, Good, SamePoints
<1>5. Commits' /\ Heads' /\ CleanTrees'
    BY <1>1 DEF Sound, Consistent, Handed, Commits, Heads, CleanTrees, Dirty, HeadCommit,
                ReadOnly, repoVars
<1>6. Pointed' /\ Looping'
    BY <1>1 DEF Pointed, Looping
<1> QED
    BY <1>2, <1>3, <1>4, <1>5, <1>6 DEF Sound, Consistent

LEMMA KeepCreatedSound ==
    ASSUME Sound, KeepCreated
    PROVE  Sound'
<1> USE NoneAssumption
<1>1. /\ phase = "keepCreated" /\ phase' = "later" /\ Enter("later")
      /\ recovery' = latest
      /\ history' = IF ReadOnly THEN history ELSE [history EXCEPT ![build.title] = job]
      /\ unclean' = FALSE
      /\ UNCHANGED <<repoVars, latest, job, status, build, edits, failures, approved, work, before>>
    BY DEF KeepCreated, KeepInHistory, Enter, DescsOnly
<1>2. /\ history' \in [Builds -> Descriptor \cup {None}]
      /\ \A b \in Builds : history[b] \in Descriptor => history'[b] \in Descriptor
    BY <1>1 DEF Sound, TypeOK
<1>3. Good(latest)
    BY <1>1 DEF Sound, Consistent, Described
<1>4. TypeOK'
    BY <1>1, <1>2 DEF Sound, TypeOK, Enter, repoVars, Phases
<1>5. Handed'
    BY <1>1, <1>2, <1>3 DEF Sound, Consistent, Handed, Good
<1>6. Commits' /\ CleanTrees'
    BY <1>1 DEF Sound, Consistent, Commits, CleanTrees, Dirty, HeadCommit, ReadOnly, repoVars
<1>7. Heads'
    BY <1>1, <1>3 DEF Sound, Consistent, Heads, Good, repoVars
<1>8. Described' /\ Pointed' /\ Looping'
    BY <1>1 DEF Described, Pointed, Looping
<1> QED
    BY <1>4, <1>5, <1>6, <1>7, <1>8 DEF Sound, Consistent

-----------------------------------------------------------------------------
(* The later jobs, and every step *)

LEMMA GeneratedSound ==
    ASSUME Sound, NEW r \in Repos, NEW c \in Contents, CommitGenerated(r, c)
    PROVE  Sound'
<1> USE ReposAssumption
<1> DEFINE title == build.title
<1>1. /\ phase = "later" /\ edits' \in 0 .. MaxEdits
      /\ branch' = [branch EXCEPT ![r][title] = c] /\ tree' = [tree EXCEPT ![r] = c]
      /\ job' = [latest EXCEPT !.tip[r] = c] /\ latest' = job'
      /\ history' = [history EXCEPT ![title] = job']
      /\ UNCHANGED <<head, at, stash, recovery, unclean, loopVars, build, failures, approved,
                     work, before>>
    BY DEF CommitGenerated, Sound, TypeOK
<1>2. title \in Builds /\ head[r] = title
    BY <1>1 DEF Sound, Consistent, Handed, Heads
<1> HIDE DEF title
<1>3. title \in Names /\ title \notin UserBranches /\ title # Detached
    BY <1>2 DEF Builds, Names
<1>4. branch' \in [Repos -> [Names -> Contents \cup {None}]]
    BY <1>1, <1>3 DEF Sound, TypeOK
<1>5. /\ \A q \in Repos, b \in UserBranches : branch'[q][b] = branch[q][b]
      /\ \A q \in Repos \ {r} : branch'[q] = branch[q] /\ tree'[q] = tree[q]
      /\ branch'[r][title] = c /\ tree'[r] = c
    BY <1>1, <1>3 DEF Sound, TypeOK, Names
<1>6. /\ HeadCommit(r)' = c /\ ~Dirty(r)'
      /\ \A q \in Repos \ {r} : HeadCommit(q)' = HeadCommit(q) /\ (Dirty(q)' <=> Dirty(q))
    BY <1>1, <1>2, <1>3, <1>5 DEF HeadCommit, Dirty
<1>7. /\ job' \in Descriptor
      /\ \A b \in Builds : history[b] \in Descriptor => history'[b] \in Descriptor
      /\ history' \in [Builds -> Descriptor \cup {None}]
    <2>1. job' \in Descriptor
        BY <1>1 DEF Descriptor, Sound, TypeOK
    <2> QED
        BY <1>1, <1>2, <2>1 DEF Sound, TypeOK
<1>8. TypeOK'
    BY <1>1, <1>4, <1>7 DEF Sound, TypeOK, loopVars
<1>9. Handed'
    BY <1>1, <1>7 DEF Sound, Consistent, Handed, Good, loopVars
<1>10. Commits'
    BY <1>5, <1>6 DEF Sound, Consistent, Commits
<1>11. CleanTrees'
    BY <1>1, <1>6 DEF Sound, Consistent, CleanTrees, ReadOnly, loopVars
<1>12. Heads'
    BY <1>1 DEF Sound, Consistent, Heads, Handed, loopVars
<1>13. Described' /\ Pointed' /\ Looping'
    BY <1>1 DEF Described, Pointed, Looping, loopVars
<1> QED
    BY <1>8, <1>9, <1>10, <1>11, <1>12, <1>13 DEF Sound, Consistent

LEMMA CurInLoop ==
    ASSUME Sound, phase \in {"uncommit", "rebase", "commit", "back"}
    PROVE  cur \in Repos
BY DEF Sound, TypeOK, Consistent, Looping

LEMMA JobSound ==
    ASSUME Sound, JobStep
    PROVE  Sound'
<1>1. CASE Reset
    <2>1. CASE BeginReset BY <2>1, BeginResetSound
    <2>2. CASE Uncommit BY <2>2, UncommitSound
    <2>3. CASE RebaseOnBranch
        BY <2>3, CurInLoop, RebaseSound DEF RebaseOnBranch
    <2>4. CASE ForgetBuild BY <2>4, ForgetSound
    <2>5. CASE \E r \in Repos : \/ StashChanges(r) \/ SwitchBack(r) \/ RestorePoint(r)
                                \/ DeleteBuildBranch(r)
        BY <2>5, StashSound, SwitchSound, RestoreSound, DeleteSound
    <2> QED
        BY <1>1, <2>1, <2>2, <2>3, <2>4, <2>5 DEF Reset
<1>2. CASE DescribeRepositories
    BY <1>2, DescribeSound
<1>3. CASE Update
    BY <1>3, TellDescribedSound, KeepDescribedSound, TellCreatedSound, KeepCreatedSound DEF Update
<1>4. CASE Create
    <2>1. CASE BeginCreate BY <2>1, BeginCreateSound
    <2>2. CASE CommitPoint
        BY <2>2, CurInLoop, CommitPointSound DEF CommitPoint
    <2>3. CASE BackOnBranch
        BY <2>3, CurInLoop, BackSound DEF BackOnBranch
    <2>4. CASE SavePoints BY <2>4, SaveSound
    <2>5. CASE \E r \in Repos : DetachHead(r) \/ CreateBranch(r)
        BY <2>5, DetachSound, CreateSound
    <2> QED
        BY <1>4, <2>1, <2>2, <2>3, <2>4, <2>5 DEF Create
<1>5. CASE EndBuild \/ Refuse
    <2>1. Stop /\ UNCHANGED <<repoVars, descVars, build, edits, work, failures, approved>>
        BY <1>5 DEF EndBuild, Refuse, JobFails
    <2> QED
        BY <2>1, IdleSound DEF Sound, TypeOK
<1>6. CASE \E r \in Repos : PullBranch(r)
    BY <1>6, PullSound
<1> QED
    BY <1>1, <1>2, <1>3, <1>4, <1>5, <1>6 DEF JobStep

LEMMA NextSound == Sound /\ [Next]_vars => Sound'
<1> SUFFICES ASSUME Sound, [Next]_vars
             PROVE  Sound'
    OBVIOUS
<1>1. CASE StartBuild
    BY <1>1, StartSound DEF StartBuild
<1>2. CASE Interrupt
    <2>1. failures' \in 0 .. MaxFailures
        BY <1>2, ReposAssumption DEF Interrupt, Sound, TypeOK
    <2> QED
        BY <1>2, <2>1, IdleSound DEF Interrupt
<1>3. CASE \E r \in Repos, c \in Contents : CommitGenerated(r, c)
    BY <1>3, GeneratedSound
<1>4. CASE UNCHANGED vars
    BY <1>4 DEF vars, Sound, TypeOK, Consistent, Handed, Described, Pointed, Commits, Looping,
                Heads, CleanTrees, Good, Ready, At, Unmoved, SamePoints, HeadCommit, Dirty, ReadOnly
<1> QED
    BY <1>1, <1>2, <1>3, <1>4, PollSound, JobSound, DeveloperSound DEF Next

THEOREM InductiveInvariant == Spec => []Sound
<1> QED
    BY InitSound, NextSound, PTL DEF Spec

\* The type invariant.
THEOREM TypeCorrect == Spec => []TypeOK
<1>1. Sound => TypeOK
    BY DEF Sound
<1> QED
    BY <1>1, InductiveInvariant, PTL

\* A repository that is not on a branch of the developer is one that the
\* recovery descriptor is there to bring back: create_build_branches writes the
\* descriptor before it touches the first repository, and the reset removes it
\* after it has put back the last one.
THEOREM RecoveryIsPending == Spec => []RecoveryPending
<1>1. Sound => RecoveryPending
    BY DEF Sound, Consistent, Heads, RecoveryPending
<1> QED
    BY <1>1, InductiveInvariant, PTL

=============================================================================
