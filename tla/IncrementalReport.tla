--------------------------- MODULE IncrementalReport ---------------------------
(***************************************************************************)
(* The incremental verification report of                                  *)
(* states/common/maven/artifacts/process_maven_data.py: every artifact     *)
(* descriptor of the Salt pillar and every pom file found in the           *)
(* repositories is an item of the report, and every item is driven through *)
(* the stages inited, transferred, loaded, verified.  Verification of one  *)
(* item reads fields of other items, so passes over the shuffled items are *)
(* repeated until a pass makes no progress.  The report is saved after     *)
(* each pass and is the input of the next run, whatever ended this one.    *)
(***************************************************************************)
EXTENDS Naturals, FiniteSets

CONSTANTS
    Artifact,       \* artifact keys: in the pillar or named by some pom file
    Pom,            \* pom files (repository id and relative path)
    NoPom,          \* an artifact that is not built from project sources
    NoItem,         \* no item is being processed
    Version,        \* Maven versions
    Pillars,        \* the artifact descriptors a pillar may hold
    Trees,          \* the pom files the repositories may hold
    MaxRuns,        \* bound: invocations of get_incremental_report
    MaxInterrupts,  \* bound: KeyboardInterrupts during the passes
    MaxKills,       \* bound: processes killed (no `finally` is run)
    MaxEdits,       \* bound: edits of the pillar or the report between runs
    MaxRefs         \* bound: value at which reference_counter saturates

Item == Artifact \cup Pom

(***************************************************************************)
(* ItemDescriptor.stage_order; a stage is its position in that list.       *)
(***************************************************************************)
Stage == 1..4
Inited == 1
Transferred == 2
Loaded == 3
Verified == 4

(***************************************************************************)
(* What the pillar says of an artifact.  "invalid" fails a check of        *)
(* get_inited and logs it; "malformed" makes get_inited raise (no          *)
(* source_type, or a current_version that is a number); "absent" is not in *)
(* artifact_descriptors.                                                   *)
(***************************************************************************)
ArtifactDef == [shape : {"absent", "valid", "invalid", "malformed"},
                used : BOOLEAN,
                pom : Pom \cup {NoPom},
                versions : SUBSET Version]

(***************************************************************************)
(* What is on disk for a pom file: how get_pom_file_data classifies it     *)
(* ("directory": a path named pom.xml that is not a file), the coordinates *)
(* Maven computes for it, and what it refers to: in the effective XML      *)
(* ("unversioned" when the tag has no version) and in dependency:list.     *)
(***************************************************************************)
PomDef == [status : {"absent", "directory", "untracked", "exception", "tracked"},
           builds : Artifact,
           version : Version,
           xml : [Artifact -> Version \cup {"none", "unversioned"}],
           list : [Artifact -> Version \cup {"none"}]]

(***************************************************************************)
(* Step logs are kept by name and subject; the values that matter are the  *)
(* ones logged as False.                                                   *)
(***************************************************************************)
StepName == {"fields", "pom_data", "not_exception", "tracked", "pom_listed",
             "inited", "defined", "used", "coords", "version"} \X Item

ReportType ==
    [listed : SUBSET Item,              \* keys of the report
     def : [Artifact -> ArtifactDef],   \* pillar data captured in the report
     passed : [Item -> SUBSET Stage],   \* is_<stage> fields that are True
     lastResult : [Item -> BOOLEAN],    \* last_stage_result (missing = False)
     progressed : [Item -> BOOLEAN],    \* is_progressed
     failed : [Item -> SUBSET StepName],\* step_logs whose result is False
     refs : [Item -> 0..MaxRefs],       \* reference_counter
     torn : SUBSET Item,                \* entries a cut save left without their ends
     overall : BOOLEAN]                 \* overall_result

ASSUME BoundsAssumption == {MaxRuns, MaxInterrupts, MaxKills, MaxEdits, MaxRefs} \subseteq Nat
ASSUME ItemAssumption ==
    /\ Artifact \cap Pom = {}
    /\ NoItem \notin Item
    /\ NoPom \notin Pom
    /\ {"none", "unversioned"} \cap Version = {}
ASSUME InputAssumption ==
    /\ Pillars \subseteq [Artifact -> ArtifactDef]
    /\ Trees \subseteq [Pom -> PomDef]

VARIABLES
    pillar,     \* artifact_descriptors of the Salt pillar
    tree,       \* pom files on disk
    file,       \* the saved report; EmptyReport when there is none to read
    loads,      \* the saved report is read without an error
    report,     \* report_data of the running process
    pc,         \* where the process is
    after,      \* what follows the save in progress
    queue,      \* item_descriptors not yet reached by this pass
    cur,        \* item_descriptor being processed
    stage,      \* its stage
    outcome,    \* how the last run ended
    outdated,   \* history: poms verified against a descriptor since removed
    runs, interrupts, kills, edits

inputs == <<pillar, tree, loads>>
budget == <<runs, interrupts, kills, edits>>
vars == <<pillar, tree, loads, file, report, pc, after, queue, cur, stage, outcome,
          outdated, runs, interrupts, kills, edits>>

--------------------------------------------------------------------------------
(* The report *)

EmptyReport ==
    [listed |-> {},
     def |-> [a \in Artifact |->
                 [shape |-> "absent", used |-> FALSE, pom |-> NoPom, versions |-> {}]],
     passed |-> [i \in Item |-> {}],
     lastResult |-> [i \in Item |-> FALSE],
     progressed |-> [i \in Item |-> FALSE],
     failed |-> [i \in Item |-> {}],
     refs |-> [i \in Item |-> 0],
     torn |-> {},
     overall |-> TRUE]

\* The entries of some items are gone from a report ...
WithoutItems(r, lost) ==
    LET Reset(f, empty) == [x \in DOMAIN f |-> IF x \in lost THEN empty[x] ELSE f[x]]
    IN  [r EXCEPT !.listed = @ \ lost,
                  !.def = Reset(@, EmptyReport.def),
                  !.passed = Reset(@, EmptyReport.passed),
                  !.lastResult = Reset(@, EmptyReport.lastResult),
                  !.progressed = Reset(@, EmptyReport.progressed),
                  !.failed = Reset(@, EmptyReport.failed),
                  !.refs = Reset(@, EmptyReport.refs),
                  !.torn = @ \ lost]

\* Artifact keys a pom file refers to.
References(p) == {a \in Artifact : tree[p].xml[a] # "none" \/ tree[p].list[a] # "none"}

\* ... and with them what the pom files left in it were verified against.
OutdatedWithout(r, lost) ==
    (outdated \cup {p \in Pom : Verified \in r.passed[p] /\ References(p) \cap lost # {}})
    \ lost

(***************************************************************************)
(* What is left of the is_<stage> flags of an entry that is cut short: YAML *)
(* sorts is_loaded before is_transferred.  A flag cut inside its value is a *)
(* string, which is true to the artifact that reads is_inited of its pom    *)
(* file (an artifact cut there has no `used`, which poms ask for as well).  *)
(***************************************************************************)
CutStages(i, passed) ==
    {kept \cap passed : kept \in
        {{}, {Inited}, {Inited, Loaded}, {Inited, Loaded, Transferred}, Stage}}
    \cup (IF i \in Pom THEN {{Inited}} ELSE {})

(***************************************************************************)
(* The entry of item i is the last of a report cut short inside it (NoItem: *)
(* the cut is between two entries).  Either its last field is incomplete -  *)
(* of an artifact that is `used`, which may read as any other value - or    *)
(* that field is lost and others before it are: no `used` reads as FALSE.   *)
(***************************************************************************)
CutShort(r, i) ==
    LET Torn(s, used) ==
            [s EXCEPT !.torn = @ \cup {i},
                      !.def = [a \in Artifact |->
                                  IF a = i THEN [r.def[a] EXCEPT !.used = used] ELSE @[a]],
                      !.listed = r.listed]
    IN  IF i = NoItem THEN {r}
        ELSE {Torn(r, used) : used \in BOOLEAN}
             \cup {Torn([WithoutItems(r, {i}) EXCEPT !.passed[i] = left], FALSE) :
                        left \in CutStages(i, r.passed[i])}

\* Mutant of Associate: the stages of the entries already there are reset.
AssociateAnew(r) ==
    [r EXCEPT !.listed = @ \cup {a \in Artifact : pillar[a].shape # "absent"}
                           \cup {p \in Pom : tree[p].status # "absent"},
              !.def = [a \in Artifact |-> IF a \in r.listed THEN @[a] ELSE pillar[a]],
              !.passed = [i \in Item |-> {}],
              !.overall = TRUE]

\* Mutant of Associate: descriptors are refreshed, the stages they passed kept.
AssociateFromPillar(r) ==
    [r EXCEPT !.listed = @ \cup {a \in Artifact : pillar[a].shape # "absent"}
                           \cup {p \in Pom : tree[p].status # "absent"},
              !.def = pillar,
              !.overall = TRUE]

\* associate_report_data_item_descriptors: items the report lacks are added,
\* entries it already has are kept as they are.
Associate(r) ==
    [r EXCEPT !.listed = @ \cup {a \in Artifact : pillar[a].shape # "absent"}
                           \cup {p \in Pom : tree[p].status # "absent"},
              !.def = [a \in Artifact |-> IF a \in r.listed THEN @[a] ELSE pillar[a]],
              !.overall = TRUE]

\* ItemDescriptor.add_step_log: a False result is never overwritten.
AddStepLogs(logs, names, result) == IF result THEN logs ELSE logs \cup names

Bump(n, k) == IF n + k > MaxRefs THEN MaxRefs ELSE n + k

--------------------------------------------------------------------------------
(* The stages: what get_<stage> of an item logs, counts and may raise *)

\* Only a used artifact built from project sources has a pom file to look at.
NeedsPom(a) == report.def[a].used /\ report.def[a].pom # NoPom

ArtifactLoadedFailures(a) ==
    LET p == report.def[a].pom
    IN  IF ~NeedsPom(a) THEN {}
        ELSE {<<n, p>> : n \in
                 CASE tree[p].status = "exception" -> {"not_exception"}
                   [] tree[p].status = "untracked" -> {"tracked"}
                   [] tree[p].status = "tracked" -> {}
                   [] OTHER -> {"pom_data"}}

ArtifactVerifiedFailures(a) ==
    LET d == report.def[a]
    IN  IF ~NeedsPom(a) THEN {}
        ELSE IF d.pom \notin report.listed THEN {<<"pom_listed", d.pom>>}
        ELSE IF Inited \notin report.passed[d.pom] THEN {<<"inited", d.pom>>}
        ELSE {<<n, a>> : n \in {m \in {"coords", "version"} :
                 \/ m = "coords" /\ tree[d.pom].builds # a
                 \/ m = "version" /\ tree[d.pom].version \notin d.versions}}

\* populate_reference_data for one artifact key named by a pom file.
ReferenceFailure(p, a) ==
    LET d == report.def[a]
        x == tree[p].xml[a]
        l == tree[p].list[a]
    IN  IF a \notin report.listed THEN {<<"defined", a>>}
        ELSE IF Inited \notin report.passed[a] THEN {<<"inited", a>>}
        ELSE IF ~d.used THEN {<<"used", a>>}
        ELSE IF \/ x \in Version /\ x \notin d.versions
                \/ l \in Version /\ l \notin d.versions
             THEN {<<"version", a>>}
        ELSE {}

PomVerifiedFailures(p) ==
    IF tree[p].status = "exception" THEN {}
    ELSE UNION {ReferenceFailure(p, a) : a \in References(p)}

\* Steps the stage logs as False ...
StageFailures(i, s) ==
    CASE i \in Artifact /\ s = Inited ->
             IF report.def[i].shape = "valid" THEN {} ELSE {<<"fields", i>>}
      [] i \in Artifact /\ s = Loaded -> ArtifactLoadedFailures(i)
      [] i \in Artifact /\ s = Verified -> ArtifactVerifiedFailures(i)
      [] i \in Pom /\ s = Transferred ->
             IF tree[i].status = "untracked" THEN {<<"tracked", i>>} ELSE {}
      [] i \in Pom /\ s = Verified -> PomVerifiedFailures(i)
      [] OTHER -> {}

\* ... and as True, though they describe a difference: the dependency:list
\* disagrees with the XML (forced), the XML names no version (forced).
StageNotes(i, s) ==
    IF i \in Pom /\ s = Verified /\ tree[i].status # "exception"
    THEN {<<"version", a>> : a \in {b \in References(i) :
             \/ tree[i].xml[b] = "unversioned"
             \/ tree[i].list[b] # "none" /\ tree[i].xml[b] \notin {"none", tree[i].list[b]}}}
    ELSE {}

\* What the stage may log as False: of an entry cut short, it reads fields that
\* are lost or incomplete.  An artifact is not inited without its `used`.
Outcomes(i, s) ==
    IF i \notin report.torn THEN {StageFailures(i, s)}
    ELSE CASE i \in Artifact /\ s = Inited -> {{<<"fields", i>>}}
           [] i \in Pom /\ s = Inited -> {{}, {<<"fields", i>>}}
           [] i \in Pom /\ s = Transferred -> {{}, {<<"tracked", i>>}}
           [] OTHER -> SUBSET StageFailures(i, s)

\* Mutant of StageCounts: dependency:list is not counted.
StageCountsXmlOnly(i, s, j) ==
    IF s # Verified \/ j \notin report.listed \/ Inited \notin report.passed[j] THEN 0
    ELSE IF i \in Artifact /\ NeedsPom(i) /\ j = report.def[i].pom THEN 1
    ELSE IF i \in Pom /\ tree[i].status # "exception" /\ j \in References(i)
         THEN IF tree[i].xml[j] # "none" THEN 1 ELSE 0
    ELSE 0

\* How much the stage adds to the reference_counter of item j.
StageCounts(i, s, j) ==
    IF s # Verified \/ j \notin report.listed \/ Inited \notin report.passed[j] THEN 0
    ELSE IF i \in Artifact /\ NeedsPom(i) /\ j = report.def[i].pom THEN 1
    ELSE IF i \in Pom /\ tree[i].status # "exception" /\ j \in References(i)
         THEN (IF tree[i].xml[j] # "none" THEN 1 ELSE 0)
              + (IF tree[i].list[j] # "none" THEN 1 ELSE 0)
    ELSE 0

\* get_inited of a malformed descriptor always raises; copying a pom file and
\* running mvn on it may, as may the lack of a field in an entry cut short or a
\* reference_counter that is cut to nothing.
MustRaise(i, s) == i \in Artifact /\ s = Inited /\ report.def[i].shape = "malformed"

MayRaise(i, s) ==
    \/ MustRaise(i, s)
    \/ i \in Artifact /\ s = Loaded /\ NeedsPom(i) /\ tree[report.def[i].pom].status = "tracked"
    \/ i \in Pom /\ s \in {Transferred, Loaded} /\ tree[i].status = "tracked"
    \/ i \in report.torn
    \/ \E j \in report.torn : StageCounts(i, s, j) > 0

--------------------------------------------------------------------------------
(* Initial state: nothing was ever run *)

Init ==
    /\ pillar \in Pillars
    /\ tree \in Trees
    /\ file = EmptyReport /\ loads = TRUE
    /\ report = EmptyReport
    /\ pc = "idle"
    /\ after = "none"
    /\ queue = {}
    /\ cur = NoItem
    /\ stage = Inited
    /\ outcome = "none"
    /\ outdated = {}
    /\ runs = 0 /\ interrupts = 0 /\ kills = 0 /\ edits = 0

--------------------------------------------------------------------------------
(* get_incremental_report *)

\* The process is gone, and its memory with it.
Exit(how) ==
    /\ pc' = "idle"
    /\ after' = "none"
    /\ queue' = {}
    /\ cur' = NoItem
    /\ stage' = Inited
    /\ outcome' = how

\* save_yaml_file is entered; `then` is what follows it.
BeginSave(then) ==
    /\ pc' = "saving"
    /\ after' = then
    /\ queue' = {}
    /\ cur' = NoItem
    /\ stage' = Inited

\* The report is loaded and the descriptors are associated with it.  A damaged
\* report raises, and so does a path named pom.xml that is not a file: it has no
\* data, which breaks the association.
Start ==
    /\ pc = "idle" /\ runs < MaxRuns
    /\ runs' = runs + 1
    /\ IF ~loads \/ \E p \in Pom : tree[p].status = "directory"
       THEN Exit("raised") /\ report' = EmptyReport
       ELSE /\ report' = Associate(file)
            /\ outcome' = "none"
            /\ BeginSave("pass")
    /\ UNCHANGED <<inputs, file, outdated, interrupts, kills, edits>>

\* The report is written; then a pass begins (the shuffle is the choice of
\* BeginItem), or progress is looked for, or the exception goes on.
Save ==
    /\ pc = "saving"
    /\ file' = report
    /\ CASE after = "pass" ->
                /\ pc' = "pick" /\ queue' = report.listed
                /\ after' = "none"
                /\ UNCHANGED <<cur, stage, outcome, report>>
         [] after = "check" ->
                /\ pc' = "check" /\ after' = "none"
                /\ UNCHANGED <<queue, cur, stage, outcome, report>>
         [] OTHER -> Exit(after) /\ report' = EmptyReport
    /\ UNCHANGED <<inputs, outdated, budget>>

\* Mutant of BeginItem: is_progressed is not reset.
BeginItemStillProgressed(i) ==
    /\ pc = "pick" /\ i \in queue
    /\ ~(report.failed[i] # {} /\ report.lastResult[i])
    /\ report' = [report EXCEPT !.failed[i] = {}]
    /\ pc' = "stage" /\ cur' = i /\ stage' = Inited
    /\ queue' = queue \ {i}
    /\ UNCHANGED <<inputs, file, after, outcome, outdated, budget>>

\* The head of process_all_stages: failed step logs are deleted, after the
\* assertion that last_stage_result is False whenever there is one.  A step log
\* or a flag that is cut short has no value of the kind that is expected.
BeginItem(i) ==
    /\ pc = "pick" /\ i \in queue
    /\ \/ /\ report.failed[i] # {} /\ report.lastResult[i]
          /\ report' = [report EXCEPT !.progressed[i] = FALSE]
          /\ BeginSave("assertion")
       \/ /\ ~(report.failed[i] # {} /\ report.lastResult[i])
          /\ report' = [report EXCEPT !.progressed[i] = FALSE, !.failed[i] = {}]
          /\ pc' = "stage" /\ cur' = i /\ stage' = Inited
          /\ queue' = queue \ {i}
          /\ UNCHANGED after
       \/ /\ i \in report.torn
          /\ report' = [report EXCEPT !.progressed[i] = FALSE]
          /\ \E how \in {"raised", "assertion"} : BeginSave(how)
    /\ UNCHANGED <<inputs, file, outcome, outdated, budget>>

\* Mutant of Advance: the loop does not end at the last stage.
AdvancePastEnd == pc' = "stage" /\ stage' = stage + 1 /\ UNCHANGED cur

\* The loop of process_all_stages goes to the next stage, or ends.
Advance ==
    IF stage = Verified
    THEN pc' = "pick" /\ cur' = NoItem /\ stage' = Inited
    ELSE pc' = "stage" /\ stage' = stage + 1 /\ UNCHANGED cur

\* Mutant of SkipStage: a stage that succeeded in an earlier pass is progress.
SkipStageProgressing ==
    /\ pc = "stage" /\ stage \in report.passed[cur]
    /\ report' = [report EXCEPT !.lastResult[cur] = TRUE, !.progressed[cur] = TRUE]
    /\ Advance
    /\ UNCHANGED <<inputs, file, after, queue, outcome, outdated, budget>>

\* progress_stage of a stage that already succeeded.
SkipStage ==
    /\ pc = "stage" /\ stage \in report.passed[cur]
    /\ report' = [report EXCEPT !.lastResult[cur] = TRUE]
    /\ Advance
    /\ UNCHANGED <<inputs, file, after, queue, outcome, outdated, budget>>

\* Mutant of RunStage: what is wrong with another item is logged there too.
RunStageBlaming ==
    /\ pc = "stage" /\ stage \notin report.passed[cur]
    /\ ~MustRaise(cur, stage)
    /\ report' = [report EXCEPT
           !.failed = [j \in Item |-> @[j] \cup
               IF j = cur THEN StageFailures(cur, stage)
               ELSE {f \in StageFailures(cur, stage) : f[2] = j}],
           !.refs = [j \in Item |-> Bump(@[j], StageCounts(cur, stage, j))]]
    /\ pc' = "record"
    /\ UNCHANGED <<inputs, file, after, queue, cur, stage, outcome, outdated, budget>>

\* progress_stage: get_<stage> runs to its end ...
RunStage ==
    /\ pc = "stage" /\ stage \notin report.passed[cur]
    /\ ~MustRaise(cur, stage)
    /\ \E failures \in Outcomes(cur, stage) :
          report' = [report EXCEPT
              !.failed[cur] = AddStepLogs(AddStepLogs(@, failures, FALSE),
                                          StageNotes(cur, stage), TRUE),
              !.refs = [j \in Item |-> Bump(@[j], StageCounts(cur, stage, j))]]
    /\ pc' = "record"
    /\ UNCHANGED <<inputs, file, after, queue, cur, stage, outcome, outdated, budget>>

\* Mutant of RaiseInStage: the exception is swallowed and the next stage tried.
RaiseInStageSwallowed ==
    /\ pc = "stage" /\ stage \notin report.passed[cur]
    /\ MayRaise(cur, stage)
    /\ Advance
    /\ UNCHANGED <<inputs, file, report, after, queue, outcome, outdated, budget>>

\* ... or raises, before or after it logged a failure.
RaiseInStage ==
    /\ pc = "stage" /\ stage \notin report.passed[cur]
    /\ MayRaise(cur, stage)
    /\ \E logged \in {{}} \cup Outcomes(cur, stage) :
          report' = [report EXCEPT !.failed[cur] = AddStepLogs(@, logged, FALSE)]
    /\ BeginSave("raised")
    /\ UNCHANGED <<inputs, file, outcome, outdated, budget>>

\* Mutant of RecordStage: last_stage_result is only set on success.
RecordStageSuccess ==
    /\ pc = "record"
    /\ LET ok == report.failed[cur] = {}
       IN  /\ report' = [report EXCEPT
                  !.passed[cur] = IF ok THEN @ \cup {stage} ELSE @,
                  !.lastResult[cur] = @ \/ ok,
                  !.progressed[cur] = @ \/ ok]
           /\ IF ok THEN Advance
              ELSE pc' = "pick" /\ cur' = NoItem /\ stage' = Inited
    /\ UNCHANGED <<inputs, file, after, queue, outcome, outdated, budget>>

\* progress_stage: the status of the whole descriptor is the stage's result;
\* a failed stage ends the processing of the item.
RecordStage ==
    /\ pc = "record"
    /\ LET ok == report.failed[cur] = {}
       IN  /\ report' = [report EXCEPT
                  !.passed[cur] = IF ok THEN @ \cup {stage} ELSE @,
                  !.lastResult[cur] = ok,
                  !.progressed[cur] = @ \/ ok]
           /\ IF ok THEN Advance
              ELSE pc' = "pick" /\ cur' = NoItem /\ stage' = Inited
    /\ UNCHANGED <<inputs, file, after, queue, outcome, outdated, budget>>

\* All the items were reached: `finally` saves the report.
EndPass ==
    /\ pc = "pick" /\ queue = {}
    /\ BeginSave("check")
    /\ UNCHANGED <<inputs, file, report, outcome, outdated, budget>>

\* detect_progressed_descriptors: go round again ...
NextPass ==
    /\ pc = "check" /\ \E i \in report.listed : report.progressed[i]
    /\ pc' = "pick" /\ queue' = report.listed
    /\ UNCHANGED <<inputs, file, report, after, cur, stage, outcome, outdated, budget>>

\* Mutant of Finish: one pass is enough.
FinishAfterOnePass ==
    /\ pc = "check"
    /\ LET result == \A i \in report.listed : report.lastResult[i]
       IN  /\ report' = [report EXCEPT !.overall = result]
           /\ Exit(IF result THEN "succeeded" ELSE "failed")
    /\ UNCHANGED <<inputs, file, outdated, budget>>

\* ... or compute the overall result, which is the exit code.
Finish ==
    /\ pc = "check" /\ \A i \in report.listed : ~report.progressed[i]
    /\ LET result == \A i \in report.listed : report.lastResult[i]
       IN  /\ report' = [report EXCEPT !.overall = result]
           /\ Exit(IF result THEN "succeeded" ELSE "failed")
    /\ UNCHANGED <<inputs, file, outdated, budget>>

--------------------------------------------------------------------------------
(* What ends a process early, and what happens between runs *)

\* KeyboardInterrupt inside a pass: `finally` still saves the report.
Interrupt ==
    /\ pc \in {"pick", "stage", "record"} /\ interrupts < MaxInterrupts
    /\ interrupts' = interrupts + 1
    /\ BeginSave("interrupted")
    /\ UNCHANGED <<inputs, file, report, outcome, outdated, runs, kills, edits>>

\* The process is killed: nothing is saved, unless it was saving.  The report
\* being written is then cut short.  What is left of it may be no YAML, or lack
\* what the next run cannot do without (a key whose value is gone), or be a
\* report with fewer entries, the last of them incomplete (YAML sorts
\* artifact_descriptors before pom_files).
Kill ==
    /\ pc # "idle" /\ kills < MaxKills
    /\ kills' = kills + 1
    /\ \/ UNCHANGED <<file, outdated, loads>>
       \/ /\ pc = "saving"
          /\ file' = EmptyReport /\ outdated' = {} /\ loads' = FALSE
       \/ /\ pc = "saving"
          /\ \E lost \in SUBSET report.listed :
             \E last \in (report.listed \ lost) \cup {NoItem} :
                /\ (lost \cup {last}) \cap Artifact # {} => Pom \cap report.listed \subseteq lost
                /\ file' \in CutShort(WithoutItems(report, lost), last)
                /\ outdated' = OutdatedWithout(report, lost \cup {last})
          /\ loads' = TRUE
    /\ report' = EmptyReport
    /\ Exit("killed")
    /\ UNCHANGED <<pillar, tree, runs, interrupts, edits>>

Between == pc = "idle" /\ edits < MaxEdits /\ edits' = edits + 1

\* The pillar is changed.
EditPillar ==
    /\ Between
    /\ pillar' \in Pillars \ {pillar}
    /\ UNCHANGED <<tree, loads, file, report, pc, after, queue, cur, stage, outcome, outdated,
                   runs, interrupts, kills>>

\* An entry is removed from the report to have it refreshed by the next run.
RemoveFromReport(i) ==
    /\ Between
    /\ i \in file.listed
    /\ file' = WithoutItems(file, {i})
    /\ outdated' = OutdatedWithout(file, {i})
    /\ outcome' = "none" /\ report' = EmptyReport
    /\ UNCHANGED <<inputs, pc, after, queue, cur, stage, runs, interrupts, kills>>

\* `verify.sh clean` removes the report.
Clean ==
    /\ Between
    /\ file' = EmptyReport /\ loads' = TRUE /\ outdated' = {}
    /\ outcome' = "none" /\ report' = EmptyReport
    /\ UNCHANGED <<pillar, tree, pc, after, queue, cur, stage, runs, interrupts, kills>>

--------------------------------------------------------------------------------

Work ==
    \/ Save
    \/ \E i \in Item : BeginItem(i)
    \/ SkipStage \/ RunStage \/ RaiseInStage \/ RecordStage
    \/ EndPass \/ NextPass \/ Finish

Disturb ==
    \/ Interrupt \/ Kill
    \/ EditPillar \/ (\E i \in Item : RemoveFromReport(i)) \/ Clean

Next == Start \/ Work \/ Disturb

Spec == Init /\ [][Next]_vars

\* The process is one sequential program: it takes its next step as long as it
\* is alive.  Nobody is obliged to start a run or to edit anything.
FairSpec == Spec /\ WF_vars(Work)

--------------------------------------------------------------------------------
(* Correctness *)

\* Every variable has its type.
TypeOK ==
    /\ pillar \in Pillars
    /\ tree \in Trees
    /\ file \in ReportType /\ loads \in BOOLEAN
    /\ report \in ReportType
    /\ pc \in {"idle", "saving", "pick", "stage", "record", "check"}
    /\ after \in {"none", "pass", "check", "raised", "assertion", "interrupted"}
    /\ queue \subseteq Item
    /\ cur \in IF pc \in {"stage", "record"} THEN Item ELSE {NoItem}
    /\ stage \in Stage
    /\ outcome \in {"none", "succeeded", "failed", "raised", "assertion",
                    "interrupted", "killed"}
    /\ outdated \subseteq Pom
    /\ {runs, interrupts, kills, edits} \subseteq Nat

(***************************************************************************)
(* The reference: what it means for an item to meet the definitions defs,  *)
(* said of the inputs alone - no stage, no order, no report.               *)
(***************************************************************************)
ArtifactMeets(defs, a) ==
    LET d == defs[a]
        t == tree[d.pom]
    IN  /\ d.shape = "valid"
        /\ d.used /\ d.pom # NoPom =>
               t.status = "tracked" /\ t.builds = a /\ t.version \in d.versions

PomMeets(defs, p) ==
    \/ tree[p].status = "exception"
    \/ /\ tree[p].status = "tracked"
       /\ \A a \in References(p) :
             /\ defs[a].shape = "valid" /\ defs[a].used
             /\ {tree[p].xml[a], tree[p].list[a]} \cap Version \subseteq defs[a].versions

Meets(defs, i) == IF i \in Artifact THEN ArtifactMeets(defs, i) ELSE PomMeets(defs, i)

\* Item i refers to one of some items, by the definitions defs.
RefersTo(defs, i, others) ==
    IF i \in Artifact THEN defs[i].used /\ defs[i].pom \in others
    ELSE References(i) \cap others # {}

\* The verdict does not depend on the shuffles, on how many runs it took or on
\* how the earlier ones ended: when a run gives one, the verified items are
\* exactly those that meet the descriptors of the report, and the exit code says
\* whether that is all of them.  Two kinds of entries are the exception, as
\* process_all_stages never makes them anew: those that a cut save left
\* incomplete (what refers to them may stay unverified), and the poms verified
\* against a descriptor that was cut or removed from the report afterwards.
VerdictMatchesReference ==
    outcome \in {"succeeded", "failed"} =>
        /\ \A i \in report.listed \ (outdated \cup report.torn) :
              /\ Verified \in report.passed[i] => Meets(report.def, i)
              /\ Meets(report.def, i) =>
                    Verified \in report.passed[i] \/ RefersTo(report.def, i, report.torn)
        /\ outcome = "succeeded" <=> \A i \in report.listed : Verified \in report.passed[i]

\* The stages an item passed are a prefix of stage_order, in memory and in the
\* saved report, unless a cut save left its entry incomplete; and even then a
\* stage only runs after all the earlier ones: get_verified reads pom_data and
\* dependency data that only get_loaded sets.
StagesInOrder ==
    /\ \A r \in {report, file} : \A i \in Item \ r.torn :
          \A s \in r.passed[i] : 1..s \subseteq r.passed[i]
    /\ pc = "record" => 1..(stage - 1) \subseteq report.passed[cur]

\* An item that passed its last stage has no failed step log, in memory or in
\* the saved report: nobody logs into an item that is not being processed.
VerifiedIsClean ==
    \A i \in Item :
        /\ Verified \in report.passed[i] => report.failed[i] = {}
        /\ Verified \in file.passed[i] => file.failed[i] = {}

\* The assertion of process_all_stages - "If there was a failed `step_name`,
\* `last_stage_result` must be False" - never fails.
AssertionHolds == "assertion" \notin {after, outcome}

\* "As soon as descriptor passes each stage, it is not processed on this stage
\* again until the stage is manually reset": a saved stage is only lost with the
\* item's whole entry, or when a save is cut inside that entry; the runs that
\* follow, which read what is left of it, lose no more.
SavedStagesStick ==
    [][\A i \in Item :
          \/ file.passed[i] \subseteq file'.passed[i]
          \/ i \notin file'.listed
          \/ i \in file'.torn /\ kills' # kills]_vars

\* The loop over the passes ends: every run comes to an exit of some kind.
RunEnds == pc # "idle" ~> pc = "idle"

\* A pass is repeated for a reason: by its end, an item that claims progress has
\* passed a stage that it had not when the report was saved before the pass.  The
\* stages being finite, this is why the passes come to an end.
PassesProgress ==
    [][EndPass /\ (\E i \in report.listed : report.progressed[i])
           => \E i \in report.listed : report.passed[i] # file.passed[i]]_vars

\* How often item i refers to item j, by the definitions defs and the pom files poms.
CountsFrom(defs, poms, i, j) ==
    IF i \in Artifact
    THEN IF defs[i].used /\ defs[i].pom = j /\ j \in Pom THEN 1 ELSE 0
    ELSE IF j \notin Artifact \/ poms[i].status # "tracked" THEN 0
    ELSE (IF poms[i].xml[j] # "none" THEN 1 ELSE 0) + (IF poms[i].list[j] # "none" THEN 1 ELSE 0)

\* The references of some items to j, told apart by a number.
ReferencesOf(defs, poms, referrers, j) ==
    {r \in referrers \X (1..2) : r[2] <= CountsFrom(defs, poms, r[1], j)}

\* What earlier runs have counted was not removed from the report, nor lost.
Untouched == runs = 1 \/ edits + kills = 0

\* When everything was verified, no reference was missed: "data generated from
\* parsed XML" and "data generated from `dependency:list`" are both counted.
ReferencesCounted ==
    outcome = "succeeded" /\ Untouched =>
        \A j \in report.listed :
            Cardinality(ReferencesOf(report.def, tree, report.listed, j)) <= report.refs[j]

(***************************************************************************)
(* As long as nobody edits the pillar or the report, runs implement        *)
(* ReportVerdict.                                                          *)
(***************************************************************************)
VerifiedIn(r) == {i \in Item : Verified \in r.passed[i]}
PillarItems == {a \in Artifact : pillar[a].shape # "absent"}
               \cup {p \in Pom : tree[p].status # "absent"}

\* Entries a cut save left incomplete, what refers to them, and what was
\* verified against an entry that is lost.
Damaged == {i \in PillarItems :
               i \in file.torn \cup outdated \/ RefersTo(pillar, i, file.torn)}

Abstract == INSTANCE ReportVerdict WITH
    items <- PillarItems,
    good <- {i \in PillarItems : Meets(pillar, i)},
    damaged <- Damaged,
    verified <- VerifiedIn(report) \ Damaged,
    saved <- VerifiedIn(file) \ Damaged,
    outcome <- IF pc # "idle" THEN "running"
               ELSE IF outcome \in {"none", "succeeded", "failed"} THEN outcome
               ELSE "aborted"

\* The passes, stages, retries and crashes are invisible: what a reader of the
\* report sees is a ReportVerdict.
ImplementsVerdict == Abstract!Spec
================================================================================
