------------------------ MODULE IncrementalReportProofs ------------------------
(***************************************************************************)
(* Theorems about IncrementalReport, for every set of artifacts, pom files *)
(* and inputs, and every number of runs, interrupts, kills and edits.  The *)
(* last two sections exclude some disturbance: as long as no run is cut    *)
(* short the assertion of process_all_stages holds, and without edits the  *)
(* runs implement ReportVerdict.                                           *)
(***************************************************************************)
EXTENDS IncrementalReportInvariant, FiniteSetTheorems, TLAPS

--------------------------------------------------------------------------------
(* Lemmas about the operators of the model *)

\* Nothing is ever logged under a name that is not a step name.
LEMMA StageFailuresType ==
    ASSUME TypeOK, NEW i \in Item, NEW s \in Stage
    PROVE  StageFailures(i, s) \subseteq StepName
<1> USE ItemAssumption, InputAssumption
<1>1. ASSUME i \in Artifact
      PROVE  /\ report.def[i] \in ArtifactDef
             /\ NeedsPom(i) => report.def[i].pom \in Pom
  BY <1>1 DEF TypeOK, ReportType, ArtifactDef, NeedsPom
<1>2. ASSUME i \in Artifact PROVE ArtifactLoadedFailures(i) \subseteq StepName
  BY <1>1, <1>2 DEF ArtifactLoadedFailures, StepName, Item
<1>3. ASSUME i \in Artifact PROVE ArtifactVerifiedFailures(i) \subseteq StepName
  BY <1>1, <1>3 DEF ArtifactVerifiedFailures, StepName, Item
<1>4. ASSUME i \in Pom PROVE PomVerifiedFailures(i) \subseteq StepName
  <2>1. \A a \in Artifact : ReferenceFailure(i, a) \subseteq StepName
    BY DEF ReferenceFailure, StepName, Item
  <2> QED BY <2>1 DEF PomVerifiedFailures, References
<1> QED BY <1>2, <1>3, <1>4 DEF StageFailures, StepName, Item, Stage

\* An entry cut short logs no other names.
LEMMA OutcomesType ==
    ASSUME TypeOK, NEW i \in Item, NEW s \in Stage, NEW failures \in Outcomes(i, s)
    PROVE  failures \subseteq StepName
<1>1. StageFailures(i, s) \subseteq StepName
  BY StageFailuresType
<1>2. {<<"fields", i>>, <<"tracked", i>>} \subseteq StepName
  BY DEF StepName
<1> HIDE DEF StepName
<1> QED BY <1>1, <1>2 DEF Outcomes

\* A saturated counter stays within its bound.
LEMMA BumpType ==
    ASSUME NEW n \in 0..MaxRefs, NEW k \in Nat
    PROVE  Bump(n, k) \in 0..MaxRefs
BY BoundsAssumption DEF Bump

\* A stage adds a natural number of references.
LEMMA StageCountsType ==
    ASSUME NEW i, NEW s, NEW j
    PROVE  StageCounts(i, s, j) \in Nat
BY DEF StageCounts

\* The empty report is a report.
LEMMA EmptyReportType == EmptyReport \in ReportType
BY BoundsAssumption DEF EmptyReport, ReportType, ArtifactDef

\* Associating descriptors keeps the report of its type.
LEMMA AssociateType ==
    ASSUME TypeOK
    PROVE  Associate(file) \in ReportType
<1>1. \A a \in Artifact : pillar[a] \in ArtifactDef
  BY InputAssumption DEF TypeOK
<1> QED BY <1>1 DEF TypeOK, Associate, ReportType, Item

\* So does losing entries.
LEMMA WithoutItemsType ==
    ASSUME NEW r \in ReportType, NEW lost
    PROVE  WithoutItems(r, lost) \in ReportType
<1>1. EmptyReport \in ReportType
  BY EmptyReportType
<1> HIDE DEF StepName, EmptyReport
<1> QED BY <1>1 DEF WithoutItems, ReportType

\* What is left without some entries.
LEMMA WithoutItemsParts ==
    ASSUME NEW r \in ReportType, NEW lost, NEW w, w = WithoutItems(r, lost)
    PROVE  /\ w \in ReportType
           /\ w.listed = r.listed \ lost /\ w.torn = r.torn \ lost
           /\ \A a \in Artifact \ lost : w.def[a] = r.def[a]
           /\ \A a \in Artifact \cap lost : w.def[a].shape = "absent"
           /\ \A j \in Item \ lost : w.passed[j] = r.passed[j] /\ w.failed[j] = r.failed[j]
           /\ \A j \in Item \cap lost : w.passed[j] = {} /\ w.failed[j] = {}
<1>1. /\ w.listed = r.listed \ lost /\ w.torn = r.torn \ lost
      /\ \A a \in Artifact : w.def[a] = IF a \in lost THEN EmptyReport.def[a] ELSE r.def[a]
      /\ \A j \in Item : w.passed[j] = IF j \in lost THEN EmptyReport.passed[j] ELSE r.passed[j]
      /\ \A j \in Item : w.failed[j] = IF j \in lost THEN EmptyReport.failed[j] ELSE r.failed[j]
  <2> HIDE DEF EmptyReport
  <2> QED BY DEF WithoutItems, ReportType
<1>2. w \in ReportType
  BY WithoutItemsType
<1> QED BY <1>1, <1>2 DEF EmptyReport

\* So does cutting one short: it leaves a report with that entry, of which no
\* stage is new and no failure is.
LEMMA CutShortType ==
    ASSUME NEW r \in ReportType, NEW i \in Item, NEW left \in CutShort(r, i)
    PROVE  /\ left \in ReportType
           /\ left.listed = r.listed /\ left.torn = r.torn \cup {i}
           /\ \A a \in Artifact \ {i} : left.def[a] = r.def[a]
           /\ \A a \in Artifact : /\ left.def[a].shape = r.def[a].shape
                                 /\ left.def[a].pom = r.def[a].pom
           /\ \A j \in Item \ {i} : left.passed[j] = r.passed[j] /\ left.failed[j] = r.failed[j]
           /\ \/ left.passed[i] = r.passed[i] /\ left.failed[i] = r.failed[i]
              \/ left.passed[i] \in CutStages(i, r.passed[i]) /\ left.failed[i] = {}
<1> DEFINE w == WithoutItems(r, {i})
           Def(used) == [a \in Artifact |-> IF a = i THEN [r.def[a] EXCEPT !.used = used] ELSE r.def[a]]
<1>0. i # NoItem
  BY ItemAssumption
<1>1. ASSUME NEW used \in BOOLEAN
      PROVE  /\ Def(used) \in [Artifact -> ArtifactDef]
             /\ \A a \in Artifact \ {i} : Def(used)[a] = r.def[a]
             /\ \A a \in Artifact : Def(used)[a].shape = r.def[a].shape /\ Def(used)[a].pom = r.def[a].pom
  BY <1>1 DEF ReportType, ArtifactDef
<1>2. /\ w \in ReportType
      /\ \A a \in Artifact \ {i} : w.def[a] = r.def[a]
      /\ \A j \in Item \ {i} : w.passed[j] = r.passed[j] /\ w.failed[j] = r.failed[j]
      /\ w.failed[i] = {} /\ w.torn = r.torn \ {i}
  <2>1. PICK v : v = WithoutItems(r, {i})
    OBVIOUS
  <2> QED BY <2>1, WithoutItemsParts
<1>3. CASE \E used \in BOOLEAN : left = [r EXCEPT !.torn = @ \cup {i}, !.def = Def(used), !.listed = r.listed]
  <2>1. PICK used \in BOOLEAN : left = [r EXCEPT !.torn = @ \cup {i}, !.def = Def(used), !.listed = r.listed]
    BY <1>3
  <2> HIDE DEF Def, w
  <2> QED BY <2>1, <1>1 DEF ReportType
<1>4. CASE \E kept \in CutStages(i, r.passed[i]) :
             left = [[w EXCEPT !.passed[i] = kept] EXCEPT !.torn = @ \cup {i},
                         !.def = Def(FALSE), !.listed = r.listed]
  <2>1. PICK kept \in CutStages(i, r.passed[i]) :
             left = [[w EXCEPT !.passed[i] = kept] EXCEPT !.torn = @ \cup {i},
                         !.def = Def(FALSE), !.listed = r.listed]
    BY <1>4
  <2>2. kept \subseteq Stage
    BY DEF CutStages, ReportType, Stage, Inited, Transferred, Loaded
  <2> HIDE DEF Def, w
  <2> QED BY <2>1, <2>2, <1>1, <1>2 DEF ReportType
<1>5. \A used, kept :
          [a \in Artifact |-> IF a = i THEN [r.def[a] EXCEPT !.used = used]
                              ELSE [w EXCEPT !.passed[i] = kept].def[a]] = Def(used)
  <2>1. ASSUME NEW kept PROVE [w EXCEPT !.passed[i] = kept].def = w.def
    <3> HIDE DEF w
    <3> QED BY <1>2 DEF ReportType
  <2> QED BY <1>2, <2>1
<1>6. \/ \E used \in BOOLEAN : left = [r EXCEPT !.torn = @ \cup {i}, !.def = Def(used), !.listed = r.listed]
      \/ \E kept \in CutStages(i, r.passed[i]) :
             left = [[w EXCEPT !.passed[i] = kept] EXCEPT !.torn = @ \cup {i},
                         !.def = [a \in Artifact |->
                                     IF a = i THEN [r.def[a] EXCEPT !.used = FALSE]
                                     ELSE [w EXCEPT !.passed[i] = kept].def[a]],
                         !.listed = r.listed]
  BY <1>0 DEF CutShort
<1>7. \/ \E used \in BOOLEAN : left = [r EXCEPT !.torn = @ \cup {i}, !.def = Def(used), !.listed = r.listed]
      \/ \E kept \in CutStages(i, r.passed[i]) :
             left = [[w EXCEPT !.passed[i] = kept] EXCEPT !.torn = @ \cup {i},
                         !.def = Def(FALSE), !.listed = r.listed]
  <2>1. CASE \E kept \in CutStages(i, r.passed[i]) :
             left = [[w EXCEPT !.passed[i] = kept] EXCEPT !.torn = @ \cup {i},
                         !.def = [a \in Artifact |->
                                     IF a = i THEN [r.def[a] EXCEPT !.used = FALSE]
                                     ELSE [w EXCEPT !.passed[i] = kept].def[a]],
                         !.listed = r.listed]
    <3>1. PICK kept \in CutStages(i, r.passed[i]) :
             left = [[w EXCEPT !.passed[i] = kept] EXCEPT !.torn = @ \cup {i},
                         !.def = [a \in Artifact |->
                                     IF a = i THEN [r.def[a] EXCEPT !.used = FALSE]
                                     ELSE [w EXCEPT !.passed[i] = kept].def[a]],
                         !.listed = r.listed]
      BY <2>1
    <3>2. left = [[w EXCEPT !.passed[i] = kept] EXCEPT !.torn = @ \cup {i},
                         !.def = Def(FALSE), !.listed = r.listed]
      BY <1>5, <3>1, Zenon
    <3> QED BY <3>2
  <2> QED BY <1>6, <2>1
<1> QED BY <1>3, <1>4, <1>7

\* Every step the running process takes keeps the report of its type.
LEMMA RunStageType ==
    ASSUME TypeOK, RunStage
    PROVE  report' \in ReportType
<1>1. cur \in Item
  BY DEF TypeOK, RunStage
<1>2. PICK failures \in Outcomes(cur, stage) :
          report' = [report EXCEPT
              !.failed[cur] = AddStepLogs(AddStepLogs(@, failures, FALSE),
                                          StageNotes(cur, stage), TRUE),
              !.refs = [j \in Item |-> Bump(@[j], StageCounts(cur, stage, j))]]
  BY DEF RunStage
<1>3. AddStepLogs(AddStepLogs(report.failed[cur], failures, FALSE),
                  StageNotes(cur, stage), TRUE) \in SUBSET StepName
  <2>1. report.failed[cur] \subseteq StepName /\ failures \subseteq StepName
    BY <1>1, OutcomesType DEF TypeOK, ReportType
  <2> QED BY <2>1 DEF AddStepLogs
<1>4. [j \in Item |-> Bump(report.refs[j], StageCounts(cur, stage, j))] \in [Item -> 0..MaxRefs]
  BY BumpType, StageCountsType DEF TypeOK, ReportType
<1> QED BY <1>1, <1>2, <1>3, <1>4 DEF TypeOK, ReportType

\* A stage that raised has logged step names only.
LEMMA RaiseInStageType ==
    ASSUME TypeOK, RaiseInStage
    PROVE  report' \in ReportType
<1>1. PICK logged \in {{}} \cup Outcomes(cur, stage) :
          report' = [report EXCEPT !.failed[cur] = AddStepLogs(@, logged, FALSE)]
  BY DEF RaiseInStage
<1>2. cur \in Item
  BY DEF TypeOK, RaiseInStage
<1>3. report.failed[cur] \subseteq StepName /\ logged \subseteq StepName
  BY <1>2, OutcomesType DEF TypeOK, ReportType
<1>4. AddStepLogs(report.failed[cur], logged, FALSE) \in SUBSET StepName
  BY <1>3 DEF AddStepLogs
<1> QED BY <1>1, <1>2, <1>4 DEF TypeOK, ReportType

\* The loop over the stages stays within stage_order.
LEMMA AdvanceType ==
    ASSUME TypeOK, Advance, pc \in {"stage", "record"}
    PROVE  /\ pc' \in {"pick", "stage"}
           /\ cur' \in IF pc' = "stage" THEN Item ELSE {NoItem}
           /\ stage' \in Stage
BY DEF TypeOK, Advance, Stage, Verified, Inited

\* Every step keeps every variable of its type.
LEMMA TypeStep ==
    ASSUME TypeOK, [Next]_vars
    PROVE  TypeOK'
<1> USE DEF Stage, Inited, Verified
<1>1. CASE Start
  <2>1. report' \in ReportType
    BY <1>1, AssociateType, EmptyReportType DEF Start
  <2> QED BY <1>1, <2>1, BoundsAssumption DEF Start, TypeOK, Exit, BeginSave, inputs
<1>2. CASE Save
  <2> USE <1>2, EmptyReportType DEF Save, TypeOK, inputs, budget
  <2>1. CASE after \in {"pass", "check"}
    BY <2>1 DEF ReportType
  <2>2. CASE after \notin {"pass", "check"}
    BY <2>2 DEF Exit
  <2> QED BY <2>1, <2>2
<1>3. ASSUME NEW i \in Item, BeginItem(i) PROVE TypeOK'
  <2>1. report' \in ReportType
    <3>1. \/ report' = [report EXCEPT !.progressed[i] = FALSE]
          \/ report' = [report EXCEPT !.progressed[i] = FALSE, !.failed[i] = {}]
      BY <1>3 DEF BeginItem
    <3>2. CASE report' = [report EXCEPT !.progressed[i] = FALSE]
      BY <3>2 DEF TypeOK, ReportType
    <3>3. CASE report' = [report EXCEPT !.progressed[i] = FALSE, !.failed[i] = {}]
      <4>1. [report.progressed EXCEPT ![i] = FALSE] \in [Item -> BOOLEAN]
        BY DEF TypeOK, ReportType
      <4>2. [report.failed EXCEPT ![i] = {}] \in [Item -> SUBSET StepName]
        BY DEF TypeOK, ReportType
      <4> QED BY <3>3, <4>1, <4>2 DEF TypeOK, ReportType
    <3> QED BY <3>1, <3>2, <3>3
  <2> QED BY <1>3, <2>1 DEF BeginItem, TypeOK, BeginSave, inputs, budget
<1>4. CASE SkipStage
  <2>1. report' \in ReportType
    BY <1>4 DEF SkipStage, TypeOK, ReportType
  <2> QED BY <1>4, <2>1, AdvanceType DEF SkipStage, TypeOK, inputs, budget
<1>5. CASE RunStage
  <2>1. report' \in ReportType
    BY <1>5, RunStageType
  <2> QED BY <1>5, <2>1 DEF RunStage, TypeOK, inputs, budget
<1>6. CASE RaiseInStage
  <2>1. report' \in ReportType
    BY <1>6, RaiseInStageType
  <2> QED BY <1>6, <2>1 DEF RaiseInStage, TypeOK, BeginSave, inputs, budget
<1>7. CASE RecordStage
  <2>1. report' \in ReportType
    BY <1>7 DEF RecordStage, TypeOK, ReportType
  <2> QED BY <1>7, <2>1, AdvanceType DEF RecordStage, TypeOK, inputs, budget
<1>8. CASE EndPass
  BY <1>8 DEF EndPass, TypeOK, BeginSave, inputs, budget
<1>9. CASE NextPass
  BY <1>9 DEF NextPass, TypeOK, inputs, budget, ReportType
<1>10. CASE Finish
  <2>1. report' \in ReportType
    BY <1>10 DEF Finish, TypeOK, ReportType
  <2> QED BY <1>10, <2>1 DEF Finish, TypeOK, Exit, inputs, budget
<1>11. CASE Interrupt
  BY <1>11 DEF Interrupt, TypeOK, BeginSave, inputs
<1>12. CASE Kill
  <2>1. file' \in ReportType /\ loads' \in BOOLEAN /\ outdated' \subseteq Pom
    <3>1. ASSUME NEW lost, NEW last \in Item \cup {NoItem},
                 file' \in CutShort(WithoutItems(report, lost), last)
          PROVE  file' \in ReportType
      <4>1. WithoutItems(report, lost) \in ReportType
        BY WithoutItemsType DEF TypeOK
      <4>2. CASE last = NoItem
        BY <3>1, <4>1, <4>2 DEF CutShort
      <4> HIDE DEF ReportType
      <4>3. CASE last \in Item
        BY <3>1, <4>1, <4>3, CutShortType
      <4> QED BY <4>2, <4>3
    <3>2. report.listed \subseteq Item
      BY DEF TypeOK, ReportType
    <3> HIDE DEF ReportType
    <3> QED BY <1>12, <3>1, <3>2, EmptyReportType DEF Kill, TypeOK, OutdatedWithout
  <2> QED BY <1>12, <2>1, EmptyReportType DEF Kill, TypeOK, Exit
<1>13. CASE EditPillar
  BY <1>13 DEF EditPillar, Between, TypeOK
<1>14. ASSUME NEW i \in Item, RemoveFromReport(i) PROVE TypeOK'
  <2>1. file' \in ReportType
    BY <1>14, WithoutItemsType DEF RemoveFromReport, TypeOK
  <2> QED BY <1>14, <2>1, EmptyReportType
          DEF RemoveFromReport, Between, OutdatedWithout, TypeOK, inputs
<1>15. CASE Clean
  BY <1>15, EmptyReportType DEF Clean, Between, TypeOK, inputs
<1>16. CASE UNCHANGED vars
  BY <1>16 DEF vars, TypeOK
<1> QED BY <1>1, <1>2, <1>3, <1>4, <1>5, <1>6, <1>7, <1>8, <1>9, <1>10, <1>11, <1>12,
           <1>13, <1>14, <1>15, <1>16 DEF Next, Work, Disturb

\* The initial state is of its type.
LEMMA TypeInit == Init => TypeOK
BY EmptyReportType, BoundsAssumption DEF Init, TypeOK, Stage, Inited

\* Every variable keeps its type, whatever the inputs are and however often runs
\* are interrupted, killed and repeated.
THEOREM TypeCorrect == Spec => []TypeOK
BY TypeInit, TypeStep, PTL DEF Spec

--------------------------------------------------------------------------------
(* What a stage that logs no failure shows, and what one that does *)

\* Meeting the definitions does not depend on the progress of the report.
LEMMA MeetsFrame ==
    ASSUME tree' = tree
    PROVE  /\ \A i \in Item : report'.def = report.def =>
                  (Meets(report.def, i)' <=> Meets(report.def, i))
           /\ \A i \in Item : file'.def = file.def =>
                  (Meets(file.def, i)' <=> Meets(file.def, i))
           /\ \A i \in Item : file'.def = report.def =>
                  (Meets(file.def, i)' <=> Meets(report.def, i))
BY DEF Meets, ArtifactMeets, PomMeets, References

\* Nor does referring to an incomplete entry.
LEMMA RefersFrame ==
    ASSUME tree' = tree, report'.def = report.def, report'.torn = report.torn
    PROVE  \A i \in Item : RefersTo(report.def, i, report.torn)'
                            <=> RefersTo(report.def, i, report.torn)
BY DEF RefersTo, References

\* Each stage that logs no failure establishes what StagesMean says of it.
LEMMA SoundStage ==
    ASSUME IndInv, pc = "record", cur \notin report.torn, StageFailures(cur, stage) = {}
    PROVE  /\ cur \in Artifact /\ stage = Inited => report.def[cur].shape = "valid"
           /\ cur \in Artifact /\ stage = Loaded /\ NeedsPom(cur) =>
                  tree[report.def[cur].pom].status = "tracked"
           /\ cur \in Pom /\ stage = Transferred => tree[cur].status # "untracked"
           /\ stage = Verified => Meets(report.def, cur)
<1> USE DEF Inited, Transferred, Loaded, Verified
<1>0. /\ cur \in Item /\ stage \in Stage /\ cur \in report.listed
      /\ 1..(stage - 1) \subseteq report.passed[cur]
      /\ \A a \in Artifact : report.def[a] \in ArtifactDef
      /\ \A p \in Pom : tree[p] \in PomDef
  BY InputAssumption DEF IndInv, TypeOK, ItemInv, ReportType
<1>1. ASSUME cur \in Artifact, stage = Inited PROVE report.def[cur].shape = "valid"
  <2>1. report.def[cur].shape # "valid" => <<"fields", cur>> \in StageFailures(cur, stage)
    BY <1>1 DEF StageFailures
  <2> QED BY <2>1
<1>2. ASSUME cur \in Artifact, stage = Loaded, NeedsPom(cur)
      PROVE  tree[report.def[cur].pom].status = "tracked"
  <2>1. ArtifactLoadedFailures(cur) = {}
    BY <1>2, ItemAssumption DEF StageFailures
  <2> DEFINE t == tree[report.def[cur].pom]
  <2>2. t.status # "tracked" =>
            \E n \in {"not_exception", "tracked", "pom_data"} :
                <<n, report.def[cur].pom>> \in ArtifactLoadedFailures(cur)
    <3>1. t.status = "exception" =>
              <<"not_exception", report.def[cur].pom>> \in ArtifactLoadedFailures(cur)
      BY <1>2 DEF ArtifactLoadedFailures
    <3>2. t.status = "untracked" =>
              <<"tracked", report.def[cur].pom>> \in ArtifactLoadedFailures(cur)
      BY <1>2 DEF ArtifactLoadedFailures
    <3>3. t.status \notin {"exception", "untracked", "tracked"} =>
              <<"pom_data", report.def[cur].pom>> \in ArtifactLoadedFailures(cur)
      BY <1>2 DEF ArtifactLoadedFailures
    <3> QED BY <3>1, <3>2, <3>3
  <2> QED BY <2>1, <2>2
<1>3. ASSUME cur \in Pom, stage = Transferred PROVE tree[cur].status # "untracked"
  <2>1. tree[cur].status = "untracked" => <<"tracked", cur>> \in StageFailures(cur, stage)
    BY <1>3, ItemAssumption DEF StageFailures
  <2> QED BY <2>1
<1>4. ASSUME stage = Verified, cur \in Artifact PROVE Meets(report.def, cur)
  <2>1. ArtifactVerifiedFailures(cur) = {}
    BY <1>4, ItemAssumption DEF StageFailures
  <2>2. {Inited, Loaded} \subseteq report.passed[cur]
    BY <1>0, <1>4
  <2>3. /\ report.def[cur].shape = "valid"
        /\ NeedsPom(cur) => tree[report.def[cur].pom].status = "tracked"
    BY <2>2, <1>4 DEF IndInv, StagesMean, NeedsPom
  <2>4. NeedsPom(cur) => /\ tree[report.def[cur].pom].builds = cur
                         /\ tree[report.def[cur].pom].version \in report.def[cur].versions
    BY <2>1 DEF ArtifactVerifiedFailures
  <2> QED BY <2>3, <2>4, <1>4 DEF Meets, ArtifactMeets, NeedsPom
<1>5. ASSUME stage = Verified, cur \in Pom PROVE Meets(report.def, cur)
  <2>1. PomVerifiedFailures(cur) = {} /\ cur \notin Artifact
    BY <1>5, ItemAssumption DEF StageFailures
  <2>2. tree[cur].status \in {"exception", "tracked"}
    <3>1. Transferred \in report.passed[cur]
      BY <1>0, <1>5
    <3> QED BY <3>1, <1>0, <1>5 DEF IndInv, StagesMean, ListedMeans, PomDef
  <2>3. ASSUME tree[cur].status # "exception", NEW a \in References(cur)
        PROVE  /\ report.def[a].shape = "valid" /\ report.def[a].used
               /\ {tree[cur].xml[a], tree[cur].list[a]} \cap Version \subseteq report.def[a].versions
    <3>1. a \in Artifact /\ ReferenceFailure(cur, a) = {}
      BY <2>1, <2>3 DEF PomVerifiedFailures, References
    <3>2. Inited \in report.passed[a]
      BY <3>1 DEF ReferenceFailure
    <3>3. report.def[a].shape = "valid"
      BY <3>1, <3>2 DEF IndInv, StagesMean
    <3> QED BY <3>1, <3>3 DEF ReferenceFailure
  <2> QED BY <2>1, <2>2, <2>3 DEF Meets, PomMeets
<1> QED BY <1>0, <1>1, <1>2, <1>3, <1>4, <1>5 DEF Item

\* A stage only fails when the item does not meet its definitions, because
\* another item has yet to pass its first stage, or has an incomplete entry.
LEMMA CompleteStage ==
    ASSUME IndInv, pc = "record", cur \notin report.torn, StageFailures(cur, stage) # {}
    PROVE  \/ ~Meets(report.def, cur)
           \/ RefersTo(report.def, cur, report.torn)
           \/ \E j \in report.listed \ {cur} : Hopeful(j)
<1> USE DEF Inited, Transferred, Loaded, Verified
<1>0. /\ cur \in Item /\ stage \in Stage /\ cur \in report.listed
      /\ 1..(stage - 1) \subseteq report.passed[cur]
      /\ \A a \in Artifact : report.def[a] \in ArtifactDef
      /\ \A p \in Pom : tree[p] \in PomDef
      /\ \A p \in Pom : tree[p].status # "absent" => p \in report.listed
  BY InputAssumption DEF IndInv, TypeOK, ItemInv, RunInv, ReportType
<1>1. CASE cur \in Artifact /\ stage = Inited
  BY <1>1 DEF StageFailures, Meets, ArtifactMeets
<1>2. CASE cur \in Artifact /\ stage = Loaded
  <2>1. ArtifactLoadedFailures(cur) # {}
    BY <1>2, ItemAssumption DEF StageFailures
  <2>2. NeedsPom(cur) /\ tree[report.def[cur].pom].status # "tracked"
    BY <2>1 DEF ArtifactLoadedFailures
  <2> QED BY <2>2, <1>2 DEF Meets, ArtifactMeets, NeedsPom
<1>3. CASE cur \in Artifact /\ stage = Verified
  <2> DEFINE p == report.def[cur].pom
  <2>1. ArtifactVerifiedFailures(cur) # {}
    BY <1>3, ItemAssumption DEF StageFailures
  <2>2. NeedsPom(cur) /\ p \in Pom
    BY <2>1, <1>0, <1>3 DEF ArtifactVerifiedFailures, NeedsPom, ArtifactDef
  <2>3. p \in report.listed
    <3>1. Loaded \in report.passed[cur]
      BY <1>0, <1>3
    <3>2. tree[p].status = "tracked"
      BY <3>1, <2>2, <1>3 DEF IndInv, StagesMean, NeedsPom
    <3> QED BY <3>2, <2>2, <1>0
  <2>4. CASE Inited \notin report.passed[p]
    <3>1. CASE p \in report.torn
      BY <3>1, <2>2, <1>3 DEF RefersTo, NeedsPom
    <3>2. CASE p \notin report.torn
      <4>1. Hopeful(p) /\ p # cur
        BY <3>2, <2>2, <2>4, <1>3, ItemAssumption DEF Hopeful
      <4> QED BY <4>1, <2>3
    <3> QED BY <3>1, <3>2
  <2>5. CASE Inited \in report.passed[p]
    <3>1. tree[p].builds # cur \/ tree[p].version \notin report.def[cur].versions
      BY <2>1, <2>2, <2>3, <2>5 DEF ArtifactVerifiedFailures
    <3> QED BY <3>1, <2>2, <1>3 DEF Meets, ArtifactMeets, NeedsPom
  <2> QED BY <2>4, <2>5
<1>4. CASE cur \in Pom /\ stage = Transferred
  <2>1. tree[cur].status = "untracked" /\ cur \notin Artifact
    BY <1>4, ItemAssumption DEF StageFailures
  <2> QED BY <2>1 DEF Meets, PomMeets
<1>5. CASE cur \in Pom /\ stage = Verified
  <2>1. PomVerifiedFailures(cur) # {} /\ cur \notin Artifact
    BY <1>5, ItemAssumption DEF StageFailures
  <2>2. PICK a \in References(cur) : ReferenceFailure(cur, a) # {}
    BY <2>1 DEF PomVerifiedFailures
  <2>3. tree[cur].status # "exception" /\ a \in Artifact
    BY <2>1, <2>2 DEF PomVerifiedFailures, References
  <2>4. CASE a \notin report.listed
    <3>1. report.def[a].shape = "absent"
      BY <2>3, <2>4 DEF IndInv, ListedMeans
    <3> QED BY <3>1, <2>1, <2>2, <2>3 DEF Meets, PomMeets
  <2>5. CASE a \in report.listed /\ Inited \notin report.passed[a]
    <3>1. CASE report.def[a].shape = "valid" /\ a \notin report.torn
      <4>1. Hopeful(a) /\ a # cur
        BY <3>1, <2>5, <2>1, <2>3 DEF Hopeful
      <4> QED BY <4>1, <2>5
    <3>2. CASE report.def[a].shape # "valid"
      BY <3>2, <2>1, <2>2, <2>3 DEF Meets, PomMeets
    <3>3. CASE a \in report.torn
      BY <3>3, <2>1, <2>2 DEF RefersTo
    <3> QED BY <3>1, <3>2, <3>3
  <2>6. CASE a \in report.listed /\ Inited \in report.passed[a]
    <3>1. \/ ~report.def[a].used
          \/ tree[cur].xml[a] \in Version /\ tree[cur].xml[a] \notin report.def[a].versions
          \/ tree[cur].list[a] \in Version /\ tree[cur].list[a] \notin report.def[a].versions
      BY <2>2, <2>6 DEF ReferenceFailure
    <3>2. ~PomMeets(report.def, cur)
      BY <3>1, <2>2, <2>3 DEF PomMeets
    <3> QED BY <3>2, <2>1 DEF Meets
  <2> QED BY <2>4, <2>5, <2>6
<1> QED BY <1>0, <1>1, <1>2, <1>3, <1>4, <1>5 DEF StageFailures, Item

--------------------------------------------------------------------------------
(* What a step leaves alone keeps its meaning *)

\* What a stage logs depends on the definitions and the passed stages only.
LEMMA StageFailuresFrame ==
    ASSUME tree' = tree, cur' = cur, stage' = stage,
           report'.listed = report.listed, report'.def = report.def,
           report'.passed = report.passed
    PROVE  StageFailures(cur, stage)' = StageFailures(cur, stage)
<1>1. ArtifactLoadedFailures(cur)' = ArtifactLoadedFailures(cur)
  BY DEF ArtifactLoadedFailures, NeedsPom
<1>2. ArtifactVerifiedFailures(cur)' = ArtifactVerifiedFailures(cur)
  BY DEF ArtifactVerifiedFailures, NeedsPom
<1>3. \A a \in Artifact : ReferenceFailure(cur, a)' = ReferenceFailure(cur, a)
  BY DEF ReferenceFailure
<1>4. References(cur)' = References(cur) /\ References(cur) \subseteq Artifact
  BY DEF References
<1>5. PomVerifiedFailures(cur)' = PomVerifiedFailures(cur)
  BY <1>3, <1>4 DEF PomVerifiedFailures
<1> QED BY <1>1, <1>2, <1>5 DEF StageFailures

\* So does what a stage of an entry cut short may log.
LEMMA OutcomesFrame ==
    ASSUME tree' = tree, cur' = cur, stage' = stage,
           report'.listed = report.listed, report'.def = report.def,
           report'.passed = report.passed, report'.torn = report.torn
    PROVE  Outcomes(cur, stage)' = Outcomes(cur, stage)
<1>1. StageFailures(cur, stage)' = StageFailures(cur, stage)
  BY StageFailuresFrame
<1> QED BY <1>1 DEF Outcomes

\* The saved report keeps its meaning while it and the inputs are left alone.
LEMMA FileFrame ==
    ASSUME StagesMean(file), ListedMeans(file),
           file' = file, tree' = tree, outdated' = outdated
    PROVE  StagesMean(file)' /\ ListedMeans(file)'
BY MeetsFrame DEF StagesMean, ListedMeans

\* So does the one in memory, whatever is logged into items that are not verified.
LEMMA ReportFrame ==
    ASSUME StagesMean(report), ListedMeans(report),
           tree' = tree, outdated' = outdated,
           report'.listed = report.listed, report'.def = report.def,
           report'.passed = report.passed /\ report'.torn = report.torn,
           \A i \in Item : Verified \in report.passed[i] => report'.failed[i] = {}
    PROVE  StagesMean(report)' /\ ListedMeans(report)'
BY MeetsFrame DEF StagesMean, ListedMeans

\* The empty report means nothing.
LEMMA EmptyReportMeans ==
    /\ report' = EmptyReport => StagesMean(report)' /\ ListedMeans(report)'
    /\ file' = EmptyReport => StagesMean(file)' /\ ListedMeans(file)'
BY DEF StagesMean, ListedMeans, EmptyReport, Item

\* No verdict is given while a process runs, or when it ends without one.
LEMMA NoVerdict ==
    ASSUME outcome' \notin {"succeeded", "failed"}
    PROVE  VerdictMatchesReference'
BY DEF VerdictMatchesReference

\* Nothing is recorded initially.
LEMMA IndInit == Init => IndInv
<1> SUFFICES ASSUME Init PROVE IndInv
  OBVIOUS
<1>1. StagesMean(EmptyReport) /\ ListedMeans(EmptyReport)
  BY DEF StagesMean, ListedMeans, EmptyReport, Item
<1> QED BY <1>1, TypeInit DEF Init, IndInv, RunInv, ItemInv, PassInv, InPass,
                              VerdictMatchesReference

\* A new run adds entries without stages, so what stages mean is not affected.
LEMMA IndStart == ASSUME IndInv, Start PROVE IndInv'
<1>0. TypeOK'
  BY TypeStep DEF IndInv, Next
<1>1. CASE ~loads \/ \E p \in Pom : tree[p].status = "directory"
  <2>1. /\ report' = EmptyReport /\ file' = file /\ tree' = tree /\ outdated' = outdated
        /\ pc' = "idle" /\ outcome' = "raised"
    BY <1>1 DEF Start, Exit, inputs
  <2> QED BY <1>0, <2>1, EmptyReportMeans, FileFrame, NoVerdict
          DEF IndInv, RunInv, ItemInv, PassInv, InPass
<1>2. CASE loads /\ ~\E p \in Pom : tree[p].status = "directory"
  <2>1. /\ report' = Associate(file) /\ file' = file /\ tree' = tree /\ outdated' = outdated
        /\ pillar' = pillar
        /\ pc' = "saving" /\ after' = "pass" /\ outcome' = "none"
    BY <1>2 DEF Start, BeginSave, inputs
  <2>2. /\ report'.listed = file.listed \cup {a \in Artifact : pillar[a].shape # "absent"}
                                        \cup {p \in Pom : tree[p].status # "absent"}
        /\ report'.def = [a \in Artifact |-> IF a \in file.listed THEN file.def[a] ELSE pillar[a]]
        /\ report'.passed = file.passed /\ report'.failed = file.failed /\ report'.torn = file.torn
    BY <2>1 DEF Associate, IndInv, TypeOK, ReportType
  <2>3. ListedMeans(report)'
    <3>1. \A a \in Artifact \ report'.listed : report'.def[a].shape = "absent"
      BY <2>2
    <3> QED BY <3>1, <2>1, <2>2, <1>2, ItemAssumption DEF ListedMeans, IndInv, Item
  <2>4. StagesMean(report)'
    <3>1. \A a \in Artifact : a \in file.listed => report'.def[a] = file.def[a]
      BY <2>2
    <3>2. \A a \in Artifact : a \notin file.listed => file.def[a].shape = "absent" /\ file.passed[a] = {}
      BY DEF IndInv, ListedMeans, Item
    <3>3. ASSUME NEW i \in Item \ (outdated \cup file.torn), Verified \in file.passed[i]
          PROVE  Meets(report.def, i)'
      <4>1. Meets(file.def, i)
        BY <3>3 DEF IndInv, StagesMean
      <4>2. CASE i \in Artifact
        <5>1. report'.def[i] = file.def[i]
          BY <3>1, <3>2, <3>3, <4>2
        <5> QED BY <4>1, <4>2, <5>1, <2>1 DEF Meets, ArtifactMeets
      <4>3. CASE i \notin Artifact
        <5>1. PomMeets(file.def, i)
          BY <4>1, <4>3 DEF Meets
        <5>2. tree[i].status # "exception" =>
                  \A a \in References(i) : report'.def[a] = file.def[a]
          BY <5>1, <3>1, <3>2 DEF PomMeets, References
        <5>3. PomMeets(report.def, i)'
          BY <5>1, <5>2, <2>1 DEF PomMeets, References
        <5> QED BY <4>3, <5>3 DEF Meets
      <4> QED BY <4>2, <4>3
    <3>4. \A a \in Artifact : Inited \in file.passed[a] => report'.def[a] = file.def[a]
      BY <3>1, <3>2
    <3>5. /\ \A i \in Item : \A s \in file.passed[i] :
                i \notin file.torn \/ s = Verified => 1..s \subseteq file.passed[i]
          /\ \A i \in Item : Verified \in file.passed[i] => file.failed[i] = {}
          /\ \A a \in Artifact : Inited \in file.passed[a] => report'.def[a].shape = "valid"
          /\ \A p \in Pom \ file.torn : Transferred \in file.passed[p] => tree[p].status # "untracked"
      BY <3>4 DEF IndInv, StagesMean
    <3>6. \A a \in Artifact : Loaded \in file.passed[a] => report'.def[a] = file.def[a]
      BY <3>1, <3>2
    <3>7. \A a \in Artifact \ file.torn : Loaded \in file.passed[a] /\ report'.def[a].used /\ report'.def[a].pom # NoPom
                                  => tree[report'.def[a].pom].status = "tracked"
      BY <3>6 DEF IndInv, StagesMean
    <3> QED BY <2>1, <2>2, <3>3, <3>5, <3>7 DEF StagesMean
  <2> QED BY <1>0, <2>1, <2>2, <2>3, <2>4, FileFrame, NoVerdict
          DEF IndInv, RunInv, ItemInv, PassInv, InPass
<1> QED BY <1>1, <1>2

\* A save makes the saved report mean what the one in memory does.
LEMMA IndSave == ASSUME IndInv, Save PROVE IndInv'
<1>0. TypeOK'
  BY TypeStep DEF IndInv, Next, Work
<1>1. /\ file' = report /\ tree' = tree /\ outdated' = outdated
      /\ pc = "saving" /\ outcome = "none"
  BY DEF Save, inputs, IndInv, RunInv
<1>2. StagesMean(file)' /\ ListedMeans(file)'
  BY <1>1, MeetsFrame DEF StagesMean, ListedMeans, IndInv
<1>3. CASE after \in {"pass", "check"}
  <2>1. report' = report /\ outcome' = "none" /\ cur' = cur /\ cur = NoItem
    BY <1>1, <1>3 DEF Save, IndInv, TypeOK
  <2>2. StagesMean(report)' /\ ListedMeans(report)'
    BY <1>1, <2>1, ReportFrame DEF IndInv, StagesMean
  <2>3. RunInv' /\ ItemInv'
    BY <1>1, <1>3, <2>1 DEF RunInv, ItemInv, IndInv, Save
  <2>4. PassInv'
    <3>1. CASE after = "pass"
      <4>1. pc' = "pick" /\ queue' = report.listed
        BY <3>1 DEF Save
      <4> QED BY <4>1, <2>1 DEF PassInv, Reached
    <3>2. CASE after = "check"
      <4>1. pc' = "check" /\ queue' = queue
        BY <3>2 DEF Save
      <4>2. \A i \in Item : Meets(report.def, i)' <=> Meets(report.def, i)
        BY <1>1, <2>1, MeetsFrame
      <4>3. \A i \in Item : RefersTo(report.def, i, report.torn)' <=> RefersTo(report.def, i, report.torn)
        BY <1>1, <2>1, RefersFrame
      <4>4. AnotherPass => AnotherPass'
        BY <4>1, <2>1 DEF AnotherPass, Hopeful
      <4>5. report.listed \subseteq Item
        BY DEF IndInv, TypeOK, ReportType
      <4> QED BY <1>1, <3>2, <4>1, <4>2, <4>3, <4>4, <4>5, <2>1 DEF PassInv, InPass, Reached, Hopeful, IndInv
    <3> QED BY <1>3, <3>1, <3>2
  <2> QED BY <1>0, <1>2, <2>1, <2>2, <2>3, <2>4, NoVerdict DEF IndInv
<1>4. CASE after \notin {"pass", "check"}
  <2>1. report' = EmptyReport /\ pc' = "idle" /\ outcome' = after
    BY <1>4 DEF Save, Exit
  <2>2. outcome' \notin {"succeeded", "failed"}
    BY <2>1 DEF IndInv, TypeOK
  <2> QED BY <1>0, <1>2, <2>1, <2>2, EmptyReportMeans, NoVerdict
          DEF IndInv, RunInv, ItemInv, PassInv, InPass
<1> QED BY <1>3, <1>4

\* Starting on an item takes it off the queue and clears its failed step logs; it
\* stays among the items that may still make progress.
LEMMA IndBeginItem == ASSUME IndInv, NEW i \in Item, BeginItem(i) PROVE IndInv'
<1>0. TypeOK'
  BY TypeStep DEF IndInv, Next, Work
<1>1. /\ file' = file /\ tree' = tree /\ outdated' = outdated
      /\ pc = "pick" /\ outcome = "none" /\ outcome' = "none" /\ i \in queue /\ cur = NoItem
  BY DEF BeginItem, inputs, IndInv, RunInv, TypeOK
<1>2. /\ report'.listed = report.listed /\ report'.def = report.def
      /\ report'.passed = report.passed /\ report'.torn = report.torn /\ report'.lastResult = report.lastResult
      /\ report'.progressed = [report.progressed EXCEPT ![i] = FALSE]
      /\ report'.failed \in {report.failed, [report.failed EXCEPT ![i] = {}]}
  BY DEF BeginItem, IndInv, TypeOK, ReportType
<1>3. StagesMean(report)' /\ ListedMeans(report)' /\ StagesMean(file)' /\ ListedMeans(file)'
  <2>1. \A j \in Item : Verified \in report.passed[j] => report'.failed[j] = {}
    <3>1. \A j \in Item : report.failed[j] = {} => report'.failed[j] = {}
      BY <1>2 DEF IndInv, TypeOK, ReportType
    <3> QED BY <3>1 DEF IndInv, StagesMean
  <2> QED BY <1>1, <1>2, <2>1, ReportFrame, FileFrame DEF IndInv
<1>4. CASE pc' = "saving" /\ after' \in {"raised", "assertion"}
  BY <1>0, <1>1, <1>2, <1>3, <1>4, NoVerdict DEF IndInv, RunInv, ItemInv, PassInv, InPass
<1>5. CASE pc' = "stage"
  <2>1. /\ pc' = "stage" /\ cur' = i /\ stage' = Inited /\ queue' = queue \ {i}
        /\ report' = [report EXCEPT !.progressed[i] = FALSE, !.failed[i] = {}]
    BY <1>5 DEF BeginItem, BeginSave
  <2>2. ItemInv'
    BY <2>1, <1>1, <1>2 DEF ItemInv, Inited, IndInv, TypeOK, ReportType, PassInv, InPass
  <2>3. PassInv'
    <3>1. \A j \in Item : /\ Meets(report.def, j)' <=> Meets(report.def, j)
                          /\ RefersTo(report.def, j, report.torn)' <=> RefersTo(report.def, j, report.torn)
      BY <1>1, <1>2, MeetsFrame, RefersFrame
    <3>2. AnotherPass => AnotherPass'
      <4>1. ASSUME NEW j \in report.listed, j \notin queue, report.progressed[j]
            PROVE  j \notin queue' /\ report'.progressed[j]
        BY <4>1, <1>1, <1>2, <2>1 DEF IndInv, TypeOK, ReportType
      <4>2. ASSUME NEW j \in report.listed, j \in queue \cup {cur}, Hopeful(j)
            PROVE  j \in queue' \cup {cur'} /\ Hopeful(j)'
        <5>1. j # NoItem
          BY ItemAssumption DEF IndInv, TypeOK, ReportType
        <5> QED BY <4>2, <5>1, <1>1, <1>2, <2>1 DEF Hopeful
      <4> QED BY <4>1, <4>2, <1>2 DEF AnotherPass
    <3>3. Reached' \subseteq Reached /\ Reached \subseteq Item
      <4>1. report.listed \subseteq Item /\ NoItem \notin Item
        BY ItemAssumption DEF IndInv, TypeOK, ReportType
      <4> QED BY <4>1, <1>1, <1>2, <2>1 DEF Reached
    <3> QED BY <1>1, <1>2, <2>1, <3>1, <3>2, <3>3 DEF PassInv, InPass, Hopeful, IndInv
  <2> QED BY <1>0, <1>1, <1>2, <1>3, <2>1, <2>2, <2>3, NoVerdict DEF IndInv, RunInv
<1>6. pc' = "stage" \/ (pc' = "saving" /\ after' \in {"raised", "assertion"})
  BY DEF BeginItem, BeginSave
<1> QED BY <1>4, <1>5, <1>6

\* Skipping a passed stage only sets last_stage_result.
LEMMA IndSkipStage == ASSUME IndInv, SkipStage PROVE IndInv'
<1> USE DEF Inited, Verified, Stage
<1>0. TypeOK'
  BY TypeStep DEF IndInv, Next, Work
<1>1. /\ file' = file /\ tree' = tree /\ outdated' = outdated /\ queue' = queue
      /\ pc = "stage" /\ outcome = "none" /\ outcome' = "none"
      /\ cur \in Item /\ stage \in Stage /\ stage \in report.passed[cur]
      /\ cur \in report.listed \ queue /\ report.failed[cur] = {}
  BY DEF SkipStage, inputs, IndInv, RunInv, TypeOK, ItemInv
<1>2. /\ report'.listed = report.listed /\ report'.def = report.def
      /\ report'.passed = report.passed /\ report'.torn = report.torn /\ report'.failed = report.failed
      /\ report'.progressed = report.progressed
      /\ report'.lastResult = [report.lastResult EXCEPT ![cur] = TRUE]
  BY DEF SkipStage, IndInv, TypeOK, ReportType
<1>3. StagesMean(report)' /\ ListedMeans(report)' /\ StagesMean(file)' /\ ListedMeans(file)'
  BY <1>1, <1>2, ReportFrame, FileFrame DEF IndInv, StagesMean
<1>4. \A j \in Item : /\ Meets(report.def, j)' <=> Meets(report.def, j)
                      /\ RefersTo(report.def, j, report.torn)' <=> RefersTo(report.def, j, report.torn)
  BY <1>1, <1>2, MeetsFrame, RefersFrame
<1>5. 1..stage \subseteq report.passed[cur]
  BY <1>1 DEF IndInv, ItemInv
<1>6. CASE stage = Verified
  <2>1. pc' = "pick" /\ cur' = NoItem /\ stage' = Inited
    BY <1>6 DEF SkipStage, Advance
  <2>2. Inited \in report.passed[cur] /\ Verified \in report.passed[cur]
    BY <1>5, <1>6
  <2>3. PassInv'
    <3>1. AnotherPass => AnotherPass'
      BY <1>1, <1>2, <2>1, <2>2 DEF AnotherPass, Hopeful
    <3>2. Reached' \subseteq Reached \cup {cur} /\ Reached \subseteq Item
      BY <1>1, <1>2, <2>1 DEF Reached, IndInv, TypeOK, ReportType
    <3>3. \A j \in Item : report'.lastResult[j] <=> (j = cur \/ report.lastResult[j])
      BY <1>1, <1>2 DEF IndInv, TypeOK, ReportType
    <3> QED BY <1>1, <1>2, <1>4, <2>1, <2>2, <3>1, <3>2, <3>3
            DEF PassInv, InPass, Hopeful, IndInv
  <2> QED BY <1>0, <1>1, <1>2, <1>3, <2>1, <2>3, NoVerdict DEF IndInv, RunInv, ItemInv
<1>7. CASE stage # Verified
  <2>1. pc' = "stage" /\ cur' = cur /\ stage' = stage + 1
    BY <1>7 DEF SkipStage, Advance
  <2>2. PassInv'
    <3>1. AnotherPass => AnotherPass'
      BY <1>1, <1>2, <2>1 DEF AnotherPass, Hopeful
    <3>2. Reached' = Reached /\ Reached \subseteq Item \ {cur}
      BY <1>1, <1>2, <2>1 DEF Reached, IndInv, TypeOK, ReportType
    <3>3. \A j \in Item \ {cur} : report'.lastResult[j] <=> report.lastResult[j]
      BY <1>1, <1>2 DEF IndInv, TypeOK, ReportType
    <3> QED BY <1>1, <1>2, <1>4, <2>1, <3>1, <3>2, <3>3 DEF PassInv, InPass, Hopeful, IndInv
  <2> QED BY <1>0, <1>1, <1>2, <1>3, <1>5, <2>1, <2>2, NoVerdict DEF IndInv, RunInv, ItemInv
<1> QED BY <1>6, <1>7

\* Running a stage logs into the current item, which is not verified.
LEMMA IndRunStage == ASSUME IndInv, RunStage PROVE IndInv'
<1> USE DEF Verified, Stage
<1>0. TypeOK'
  BY TypeStep DEF IndInv, Next, Work
<1>1. /\ file' = file /\ tree' = tree /\ outdated' = outdated /\ queue' = queue
      /\ cur' = cur /\ stage' = stage /\ pc = "stage" /\ pc' = "record"
      /\ outcome = "none" /\ outcome' = "none"
      /\ cur \in Item /\ stage \in Stage /\ stage \notin report.passed[cur]
      /\ cur \in report.listed \ queue /\ report.failed[cur] = {}
      /\ 1..(stage - 1) \subseteq report.passed[cur]
  BY DEF RunStage, inputs, IndInv, RunInv, TypeOK, ItemInv
<1>2. /\ report'.listed = report.listed /\ report'.def = report.def
      /\ report'.passed = report.passed /\ report'.torn = report.torn /\ report'.lastResult = report.lastResult
      /\ report'.progressed = report.progressed
      /\ \A i \in Item \ {cur} : report'.failed[i] = report.failed[i]
      /\ report'.failed[cur] \in Outcomes(cur, stage)
  <2>1. PICK failures \in Outcomes(cur, stage) :
            report' = [report EXCEPT
                !.failed[cur] = AddStepLogs(AddStepLogs(@, failures, FALSE),
                                            StageNotes(cur, stage), TRUE),
                !.refs = [j \in Item |-> Bump(@[j], StageCounts(cur, stage, j))]]
    BY DEF RunStage
  <2> QED BY <1>1, <2>1 DEF IndInv, TypeOK, ReportType, AddStepLogs
<1>3. StagesMean(report)' /\ ListedMeans(report)' /\ StagesMean(file)' /\ ListedMeans(file)'
  <2>1. Verified \notin report.passed[cur]
    BY <1>1 DEF IndInv, StagesMean
  <2>2. \A i \in Item : Verified \in report.passed[i] => report'.failed[i] = {}
    BY <2>1, <1>2 DEF IndInv, StagesMean
  <2> QED BY <1>1, <1>2, <2>2, ReportFrame, FileFrame DEF IndInv
<1>4. ItemInv'
  <2>1. Outcomes(cur, stage)' = Outcomes(cur, stage)
    BY <1>1, <1>2, OutcomesFrame
  <2> QED BY <1>1, <1>2, <2>1 DEF ItemInv
<1>5. PassInv'
  <2>1. \A j \in Item : /\ Meets(report.def, j)' <=> Meets(report.def, j)
                        /\ RefersTo(report.def, j, report.torn)' <=> RefersTo(report.def, j, report.torn)
    BY <1>1, <1>2, MeetsFrame, RefersFrame
  <2>2. AnotherPass => AnotherPass'
    BY <1>1, <1>2 DEF AnotherPass, Hopeful
  <2>3. Reached' = Reached /\ Reached \subseteq Item
    BY <1>1, <1>2 DEF Reached, IndInv, TypeOK, ReportType
  <2> QED BY <1>1, <1>2, <2>1, <2>2, <2>3 DEF PassInv, InPass, Hopeful, IndInv
<1> QED BY <1>0, <1>1, <1>2, <1>3, <1>4, <1>5, NoVerdict DEF IndInv, RunInv

\* A stage that raises ends the pass before anything is recorded.
LEMMA IndRaiseInStage == ASSUME IndInv, RaiseInStage PROVE IndInv'
<1>0. TypeOK'
  BY TypeStep DEF IndInv, Next, Work
<1>1. /\ file' = file /\ tree' = tree /\ outdated' = outdated
      /\ pc = "stage" /\ pc' = "saving" /\ after' = "raised"
      /\ outcome = "none" /\ outcome' = "none"
      /\ cur \in Item /\ stage \in Stage /\ stage \notin report.passed[cur]
  BY DEF RaiseInStage, BeginSave, inputs, IndInv, RunInv, TypeOK
<1>2. /\ report'.listed = report.listed /\ report'.def = report.def
      /\ report'.passed = report.passed /\ report'.torn = report.torn
      /\ \A i \in Item \ {cur} : report'.failed[i] = report.failed[i]
  BY <1>1 DEF RaiseInStage, IndInv, TypeOK, ReportType
<1>3. StagesMean(report)' /\ ListedMeans(report)' /\ StagesMean(file)' /\ ListedMeans(file)'
  <2>1. Verified \notin report.passed[cur]
    BY <1>1 DEF IndInv, StagesMean, Verified, Stage
  <2>2. \A i \in Item : Verified \in report.passed[i] => report'.failed[i] = {}
    BY <2>1, <1>2 DEF IndInv, StagesMean
  <2> QED BY <1>1, <1>2, <2>2, ReportFrame, FileFrame DEF IndInv
<1> QED BY <1>0, <1>1, <1>2, <1>3, NoVerdict DEF IndInv, RunInv, ItemInv, PassInv, InPass
\* A stage that logged nothing passes: what StagesMean says of it is SoundStage.
LEMMA IndRecordPassed == ASSUME IndInv, RecordStage, report.failed[cur] = {} PROVE IndInv'
<1> USE DEF Inited, Verified, Stage
<1>0. TypeOK'
  BY TypeStep DEF IndInv, Next, Work
<1>1. /\ file' = file /\ tree' = tree /\ outdated' = outdated /\ queue' = queue
      /\ pc = "record" /\ outcome = "none" /\ outcome' = "none"
      /\ cur \in Item /\ stage \in Stage /\ stage \notin report.passed[cur]
      /\ cur \in report.listed \ queue /\ 1..(stage - 1) \subseteq report.passed[cur]
      /\ {} \in Outcomes(cur, stage)
  BY DEF RecordStage, inputs, IndInv, RunInv, TypeOK, ItemInv
<1>2. /\ report'.listed = report.listed /\ report'.def = report.def
      /\ report'.failed = report.failed /\ report'.torn = report.torn
      /\ report'.passed = [report.passed EXCEPT ![cur] = @ \cup {stage}]
      /\ report'.lastResult = [report.lastResult EXCEPT ![cur] = TRUE]
      /\ report'.progressed = [report.progressed EXCEPT ![cur] = TRUE]
  BY <1>1 DEF RecordStage, IndInv, TypeOK, ReportType
<1>3. /\ report'.passed[cur] = report.passed[cur] \cup {stage}
      /\ \A i \in Item \ {cur} : report'.passed[i] = report.passed[i]
      /\ 1..stage \subseteq report'.passed[cur]
  BY <1>1, <1>2 DEF IndInv, TypeOK, ReportType
<1>4. \A j \in Item : /\ Meets(report.def, j)' <=> Meets(report.def, j)
                      /\ RefersTo(report.def, j, report.torn)' <=> RefersTo(report.def, j, report.torn)
  BY <1>1, <1>2, MeetsFrame, RefersFrame
<1>5. StagesMean(report)'
  <2>0. StagesMean(report)
    BY DEF IndInv
  <2>7. cur \notin report.torn => StageFailures(cur, stage) = {}
    BY <1>1 DEF Outcomes
  <2>8. cur \in Artifact \cap report.torn => stage # Inited
    <3>1. ASSUME cur \in Artifact \cap report.torn, stage = Inited
          PROVE  Outcomes(cur, stage) = {{<<"fields", cur>>}}
      BY <3>1, ItemAssumption DEF Outcomes, Inited
    <3> QED BY <1>1, <3>1
  <2>1. \A i \in Item : \A s \in report'.passed[i] :
            i \notin report'.torn \/ s = Verified => 1..s \subseteq report'.passed[i]
    <3>1. ASSUME NEW s \in report'.passed[cur], cur \notin report.torn \/ s = Verified
          PROVE  1..s \subseteq report'.passed[cur]
      BY <1>3, <2>0, <1>1, <3>1 DEF StagesMean
    <3> QED BY <1>2, <1>3, <2>0, <3>1 DEF StagesMean
  <2>2. \A i \in Item : Verified \in report'.passed[i] => report'.failed[i] = {}
    BY <1>2, <1>3, <2>0 DEF StagesMean
  <2>3. \A a \in Artifact : Inited \in report'.passed[a] => report'.def[a].shape = "valid"
    BY <1>1, <1>2, <1>3, <2>0, <2>7, <2>8, SoundStage DEF StagesMean, Item
  <2>4. \A p \in Pom \ report'.torn : Transferred \in report'.passed[p] => tree'[p].status # "untracked"
    BY <1>1, <1>2, <1>3, <2>0, <2>7, SoundStage DEF StagesMean, Item
  <2>5. \A a \in Artifact \ report'.torn :
                            /\ Loaded \in report'.passed[a]
                            /\ report'.def[a].used
                            /\ report'.def[a].pom # NoPom
                            => tree'[report'.def[a].pom].status = "tracked"
    BY <1>1, <1>2, <1>3, <2>0, <2>7, SoundStage DEF StagesMean, Item, NeedsPom
  <2>6. \A i \in Item \ (outdated' \cup report'.torn) : Verified \in report'.passed[i] => Meets(report.def, i)'
    BY <1>1, <1>2, <1>3, <1>4, <2>0, <2>7, SoundStage DEF StagesMean
  <2> QED BY <2>1, <2>2, <2>3, <2>4, <2>5, <2>6 DEF StagesMean
<1>6. ListedMeans(report)' /\ StagesMean(file)' /\ ListedMeans(file)'
  BY <1>1, <1>2, <1>3, FileFrame DEF IndInv, ListedMeans
<1>7. \A j \in Item : file.passed[j] \subseteq report'.passed[j]
  BY <1>1, <1>3 DEF IndInv, RunInv
<1>8. \A j \in Item \ {cur} : Hopeful(j)' <=> Hopeful(j)
  BY <1>2, <1>3 DEF Hopeful
<1>9. AnotherPass'
  BY <1>1, <1>2 DEF AnotherPass, IndInv, TypeOK, ReportType
<1>10. CASE stage = Verified
  <2>1. pc' = "pick" /\ cur' = NoItem
    BY <1>10 DEF RecordStage, Advance
  <2>2. PassInv'
    <3>1. Reached' \subseteq Reached \cup {cur} /\ Reached \subseteq Item \ {cur}
      BY <1>1, <1>2, <2>1 DEF Reached, IndInv, TypeOK, ReportType
    <3>2. \A j \in Item \ {cur} : report'.lastResult[j] = report.lastResult[j]
      BY <1>2 DEF IndInv, TypeOK, ReportType
    <3>3. {Inited, Verified} \subseteq report'.passed[cur]
      BY <1>3, <1>10
    <3>4. report'.lastResult[cur] = TRUE
      BY <1>1, <1>2 DEF IndInv, TypeOK, ReportType
    <3>5. ASSUME NEW j \in Reached
          PROVE  /\ ~Hopeful(j)'
                 /\ report'.lastResult[j] <=> Verified \in report'.passed[j]
      BY <1>1, <1>3, <1>8, <3>1, <3>2, <3>5 DEF PassInv, InPass, IndInv
    <3>6. ASSUME NEW j \in Item, j = cur
          PROVE  /\ ~Hopeful(j)'
                 /\ report'.lastResult[j] <=> Verified \in report'.passed[j]
      BY <3>3, <3>4, <3>6 DEF Hopeful
    <3>7. queue' \subseteq report'.listed /\ pc' = "pick"
      BY <1>1, <1>2, <2>1 DEF PassInv, InPass, IndInv
    <3> QED BY <1>1, <1>9, <3>1, <3>5, <3>6, <3>7 DEF PassInv
  <2> QED BY <1>0, <1>1, <1>2, <1>5, <1>6, <1>7, <2>1, <2>2, NoVerdict DEF IndInv, RunInv, ItemInv
<1>11. CASE stage # Verified
  <2>1. pc' = "stage" /\ cur' = cur /\ stage' = stage + 1
    BY <1>11 DEF RecordStage, Advance
  <2>2. PassInv'
    <3>1. Reached' = Reached /\ Reached \subseteq Item \ {cur}
      BY <1>1, <1>2, <2>1 DEF Reached, IndInv, TypeOK, ReportType
    <3>2. \A j \in Item \ {cur} : report'.lastResult[j] = report.lastResult[j]
      BY <1>2 DEF IndInv, TypeOK, ReportType
    <3> QED BY <1>1, <1>2, <1>3, <1>4, <1>8, <1>9, <2>1, <3>1, <3>2 DEF PassInv, InPass, IndInv
  <2> QED BY <1>0, <1>1, <1>2, <1>3, <1>5, <1>6, <1>7, <2>1, <2>2, NoVerdict
          DEF IndInv, RunInv, ItemInv
<1> QED BY <1>10, <1>11

\* A stage that logged a failure ends the item for this pass.  By CompleteStage,
\* the item does not meet its definitions or waits for one that is hopeful, and
\* PassInv says hopeful items are ones this pass has yet to reach.
LEMMA IndRecordFailed == ASSUME IndInv, RecordStage, report.failed[cur] # {} PROVE IndInv'
<1> USE DEF Inited, Verified, Stage
<1>0. TypeOK'
  BY TypeStep DEF IndInv, Next, Work
<1>1. /\ file' = file /\ tree' = tree /\ outdated' = outdated /\ queue' = queue
      /\ pc = "record" /\ pc' = "pick" /\ cur' = NoItem
      /\ outcome = "none" /\ outcome' = "none"
      /\ cur \in Item /\ stage \in Stage /\ stage \notin report.passed[cur]
      /\ cur \in report.listed \ queue /\ 1..(stage - 1) \subseteq report.passed[cur]
      /\ cur \notin report.torn => StageFailures(cur, stage) # {}
  BY DEF RecordStage, inputs, IndInv, RunInv, TypeOK, ItemInv, Outcomes
<1>2. /\ report'.listed = report.listed /\ report'.def = report.def
      /\ report'.failed = report.failed /\ report'.passed = report.passed /\ report'.torn = report.torn
      /\ report'.lastResult = [report.lastResult EXCEPT ![cur] = FALSE]
      /\ report'.progressed = report.progressed
  <2>1. report' = [report EXCEPT !.passed[cur] = @, !.lastResult[cur] = FALSE,
                                 !.progressed[cur] = @ \/ FALSE]
    BY DEF RecordStage
  <2> QED BY <1>1, <2>1 DEF IndInv, TypeOK, ReportType
<1>3. StagesMean(report)' /\ ListedMeans(report)' /\ StagesMean(file)' /\ ListedMeans(file)'
  BY <1>1, <1>2, ReportFrame, FileFrame DEF IndInv, StagesMean
<1>4. \A j \in Item : /\ Meets(report.def, j)' <=> Meets(report.def, j)
                      /\ RefersTo(report.def, j, report.torn)' <=> RefersTo(report.def, j, report.torn)
  BY <1>1, <1>2, MeetsFrame, RefersFrame
<1>5. Verified \notin report.passed[cur]
  BY <1>1 DEF IndInv, StagesMean
<1>6. ~Hopeful(cur)
  <2>1. CASE Inited \in report.passed[cur] \/ cur \in report.torn
    BY <2>1 DEF Hopeful
  <2>2. CASE Inited \notin report.passed[cur] /\ cur \notin report.torn
    <3>1. stage = Inited
      BY <1>1, <2>2
    <3>2. StageFailures(cur, Inited) # {}
      BY <1>1, <2>2, <3>1
    <3>3. cur \in Artifact /\ report.def[cur].shape # "valid"
      BY <3>2 DEF StageFailures, Transferred, Loaded
    <3> QED BY <3>3 DEF Hopeful
  <2> QED BY <2>1, <2>2
<1>7. AnotherPass => AnotherPass'
  BY <1>1, <1>2, <1>6 DEF AnotherPass, Hopeful
<1>8. \/ ~Meets(report.def, cur) \/ AnotherPass
      \/ cur \in report.torn \/ RefersTo(report.def, cur, report.torn)
  <2>1. ASSUME NEW j \in report.listed \ {cur}, Hopeful(j) PROVE AnotherPass
    <3>1. j \in queue
      BY <1>1, <2>1 DEF IndInv, PassInv, InPass, Reached
    <3> QED BY <3>1, <2>1 DEF AnotherPass
  <2> QED BY <1>1, <2>1, CompleteStage
<1>9. PassInv'
  <2>1. Reached' \subseteq Reached \cup {cur} /\ Reached \subseteq Item \ {cur}
    BY <1>1, <1>2 DEF Reached, IndInv, TypeOK, ReportType
  <2>2. /\ ~report'.lastResult[cur]
        /\ \A j \in Item \ {cur} : report'.lastResult[j] = report.lastResult[j]
    BY <1>1, <1>2 DEF IndInv, TypeOK, ReportType
  <2>3. \A j \in Item : Hopeful(j)' <=> Hopeful(j)
    BY <1>2 DEF Hopeful
  <2> QED BY <1>1, <1>2, <1>4, <1>5, <1>6, <1>7, <1>8, <2>1, <2>2, <2>3
          DEF PassInv, InPass, IndInv
<1> QED BY <1>0, <1>1, <1>2, <1>3, <1>9, NoVerdict DEF IndInv, RunInv, ItemInv
\* Steps that leave the report of the running process as it is.
LEMMA SameReportFrame ==
    ASSUME IndInv, report' = report, file' = file, tree' = tree, outdated' = outdated
    PROVE  /\ StagesMean(report)' /\ ListedMeans(report)'
           /\ StagesMean(file)' /\ ListedMeans(file)'
BY ReportFrame, FileFrame DEF IndInv, StagesMean

\* At the end of a pass every item was reached.
LEMMA IndEndPass == ASSUME IndInv, EndPass PROVE IndInv'
<1>0. TypeOK'
  BY TypeStep DEF IndInv, Next, Work
<1>1. /\ report' = report /\ file' = file /\ tree' = tree /\ outdated' = outdated
      /\ pc = "pick" /\ pc' = "saving" /\ after' = "check"
      /\ queue = {} /\ queue' = {} /\ cur' = cur
      /\ outcome = "none" /\ outcome' = "none"
  BY DEF EndPass, BeginSave, inputs, IndInv, RunInv, TypeOK
<1>2. PassInv'
  <2>1. \A j \in Item : /\ Meets(report.def, j)' <=> Meets(report.def, j)
                        /\ RefersTo(report.def, j, report.torn)' <=> RefersTo(report.def, j, report.torn)
    BY <1>1, MeetsFrame, RefersFrame
  <2>2. AnotherPass => AnotherPass'
    BY <1>1 DEF AnotherPass, Hopeful
  <2>3. Reached' = Reached /\ Reached \subseteq Item
    BY <1>1 DEF Reached, IndInv, TypeOK, ReportType
  <2> QED BY <1>1, <2>1, <2>2, <2>3 DEF PassInv, InPass, Hopeful, IndInv
<1> QED BY <1>0, <1>1, <1>2, SameReportFrame, NoVerdict DEF IndInv, RunInv, ItemInv

\* A new pass has reached nothing yet.
LEMMA IndNextPass == ASSUME IndInv, NextPass PROVE IndInv'
<1>0. TypeOK'
  BY TypeStep DEF IndInv, Next, Work
<1>1. /\ report' = report /\ file' = file /\ tree' = tree /\ outdated' = outdated
      /\ pc = "check" /\ pc' = "pick" /\ queue' = report.listed
      /\ outcome = "none" /\ outcome' = "none"
  BY DEF NextPass, inputs, IndInv, RunInv
<1>2. PassInv'
  BY <1>1 DEF PassInv, Reached
<1> QED BY <1>0, <1>1, <1>2, SameReportFrame, NoVerdict DEF IndInv, RunInv, ItemInv

\* The verdict: no item made progress in the pass that just ended, so no item
\* failed for the sake of another, and every item was reached.
LEMMA IndFinish == ASSUME IndInv, Finish PROVE IndInv'
<1>0. TypeOK'
  BY TypeStep DEF IndInv, Next, Work
<1> DEFINE result == \A i \in report.listed : report.lastResult[i]
<1>1. /\ file' = file /\ tree' = tree /\ outdated' = outdated
      /\ pc = "check" /\ pc' = "idle"
      /\ \A i \in report.listed : ~report.progressed[i]
      /\ outcome' = IF result THEN "succeeded" ELSE "failed"
  BY DEF Finish, Exit, inputs
<1>2. /\ report'.listed = report.listed /\ report'.def = report.def
      /\ report'.passed = report.passed /\ report'.torn = report.torn /\ report'.failed = report.failed
  BY DEF Finish, IndInv, TypeOK, ReportType
<1>3. StagesMean(report)' /\ ListedMeans(report)' /\ StagesMean(file)' /\ ListedMeans(file)'
  BY <1>1, <1>2, ReportFrame, FileFrame DEF IndInv, StagesMean
<1>4. Reached = report.listed /\ queue = {} /\ cur = NoItem /\ report.listed \subseteq Item
  BY <1>1, ItemAssumption DEF Reached, IndInv, PassInv, InPass, TypeOK, ReportType
<1>5. ~AnotherPass
  BY <1>1, <1>4, ItemAssumption DEF AnotherPass
<1>6. \A i \in report.listed :
          /\ report.lastResult[i] <=> Verified \in report.passed[i]
          /\ \/ Verified \in report.passed[i] \/ ~Meets(report.def, i)
             \/ i \in report.torn \/ RefersTo(report.def, i, report.torn)
  BY <1>1, <1>4, <1>5 DEF IndInv, PassInv, InPass
<1>7. \A i \in Item : /\ Meets(report.def, i)' <=> Meets(report.def, i)
                      /\ RefersTo(report.def, i, report.torn)' <=> RefersTo(report.def, i, report.torn)
  BY <1>1, <1>2, MeetsFrame, RefersFrame
<1>8. VerdictMatchesReference'
  <2>1. \A i \in report'.listed \ (outdated' \cup report'.torn) :
            /\ Verified \in report'.passed[i] => Meets(report.def, i)'
            /\ Meets(report.def, i)' =>
                  Verified \in report'.passed[i] \/ RefersTo(report.def, i, report.torn)'
    BY <1>1, <1>2, <1>4, <1>6, <1>7 DEF IndInv, StagesMean
  <2>2. outcome' = "succeeded" <=> \A i \in report'.listed : Verified \in report'.passed[i]
    BY <1>1, <1>2, <1>6
  <2> QED BY <2>1, <2>2 DEF VerdictMatchesReference
<1> QED BY <1>0, <1>1, <1>3, <1>8 DEF IndInv, RunInv, ItemInv, PassInv, InPass

\* An interrupt saves what there is and leaves the pass.
LEMMA IndInterrupt == ASSUME IndInv, Interrupt PROVE IndInv'
<1>0. TypeOK'
  BY TypeStep DEF IndInv, Next, Disturb
<1>1. /\ report' = report /\ file' = file /\ tree' = tree /\ outdated' = outdated
      /\ pc # "idle" /\ pc' = "saving" /\ after' = "interrupted"
      /\ outcome = "none" /\ outcome' = "none"
  BY DEF Interrupt, BeginSave, inputs, IndInv, RunInv
<1> QED BY <1>0, <1>1, SameReportFrame, NoVerdict DEF IndInv, RunInv, ItemInv, PassInv, InPass

\* Report f is what is left of report r without some entries and with some cut short.
LeftOf(r, f, lost, cut) ==
    /\ f.listed = r.listed \ lost /\ f.torn = (r.torn \ lost) \cup cut
    /\ \A a \in Artifact \ (lost \cup cut) : f.def[a] = r.def[a]
    /\ \A a \in Artifact \cap cut : f.def[a].shape = r.def[a].shape
    /\ \A a \in Artifact \cap lost : f.def[a].shape = "absent"
    /\ \A j \in Item \ (lost \cup cut) : f.passed[j] = r.passed[j] /\ f.failed[j] = r.failed[j]
    /\ \A j \in cut : \/ f.passed[j] = r.passed[j] /\ f.failed[j] = r.failed[j]
                      \/ f.passed[j] \in CutStages(j, r.passed[j]) /\ f.failed[j] = {}
    /\ \A j \in Item \cap lost : f.passed[j] = {} /\ f.failed[j] = {}

\* Losing entries, and cutting some short, voids what pom files were verified
\* against them, and nothing else: the definitions of the other items stay in the
\* report, and an entry cut short has no more stages than it had.
LEMMA LostMeans ==
    ASSUME NEW r \in ReportType, NEW lost, NEW cut \in SUBSET (r.listed \ lost),
           StagesMean(r), ListedMeans(r), tree' = tree,
           outdated' = OutdatedWithout(r, lost \cup cut), LeftOf(r, file', lost, cut)
    PROVE  StagesMean(file)' /\ ListedMeans(file)'
<1> USE DEF LeftOf
<1>0. r.listed \subseteq Item /\ cut \subseteq Item /\ cut \cap lost = {}
  BY DEF ReportType
<1>1. ListedMeans(file)'
  BY <1>0, ItemAssumption DEF ListedMeans, Item
<1>2. \A j \in cut : /\ Verified \in file'.passed[j] => file'.passed[j] = r.passed[j]
                     /\ j \in Artifact => file'.passed[j] \subseteq r.passed[j]
  <2>1. \A j \in cut : r.passed[j] \subseteq Stage /\ (j \in Artifact => j \notin Pom)
    BY <1>0, ItemAssumption DEF ReportType
  <2>2. ASSUME NEW j \in cut, NEW kept \in CutStages(j, r.passed[j])
        PROVE  /\ Verified \in kept => kept = r.passed[j]
               /\ j \in Artifact => kept \subseteq r.passed[j]
    <3>1. Stage \cap r.passed[j] = r.passed[j]
      BY <2>1
    <3>3. CASE \E k \in {{}, {Inited}, {Inited, Loaded}, {Inited, Loaded, Transferred}} :
                     kept = k \cap r.passed[j]
      BY <3>3 DEF Verified, Loaded, Transferred, Inited
    <3>4. CASE kept = Stage \cap r.passed[j]
      BY <3>1, <3>4
    <3>5. \/ kept \in {{Inited}} /\ j \in Pom
          \/ \E k \in {{}, {Inited}, {Inited, Loaded}, {Inited, Loaded, Transferred}} :
                     kept = k \cap r.passed[j]
          \/ kept = Stage \cap r.passed[j]
      BY <2>2 DEF CutStages
    <3>6. ASSUME kept \in {{Inited}}, j \in Pom
          PROVE  Verified \notin kept /\ j \notin Artifact
      BY <2>1, <3>6 DEF Verified, Inited
    <3> QED BY <3>3, <3>4, <3>5, <3>6
  <2>3. ASSUME NEW j \in cut
        PROVE  file'.passed[j] = r.passed[j] \/ file'.passed[j] \in CutStages(j, r.passed[j])
    OBVIOUS
  <2> QED BY <2>2, <2>3
<1>3. ASSUME NEW j \in Item \ (outdated' \cup file'.torn), Verified \in file'.passed[j]
      PROVE  Meets(file.def, j)'
  <2>1. /\ j \notin lost \cup cut /\ Verified \in r.passed[j]
        /\ j \notin outdated /\ j \notin r.torn
    BY <1>3 DEF OutdatedWithout
  <2>2. Meets(r.def, j)
    BY <2>1 DEF StagesMean
  <2>3. CASE j \in Artifact
    BY <2>1, <2>2, <2>3 DEF Meets, ArtifactMeets
  <2>4. CASE j \notin Artifact
    <3>1. References(j) \cap (lost \cup cut) = {} /\ References(j) \subseteq Artifact
      BY <1>3, <2>1, <2>4 DEF OutdatedWithout, Item, References
    <3>2. PomMeets(r.def, j)
      BY <2>2, <2>4 DEF Meets
    <3>3. \A a \in References(j) : file'.def[a] = r.def[a]
      BY <3>1
    <3>4. PomMeets(file.def, j)'
      BY <3>2, <3>3 DEF PomMeets, References
    <3> QED BY <3>4, <2>4 DEF Meets
  <2> QED BY <2>3, <2>4
<1>4. \A j \in Item : file'.passed[j] = r.passed[j] \/ j \in lost \cup cut
  OBVIOUS
<1>5. \A j \in Item : \A s \in file'.passed[j] :
          j \notin file'.torn \/ s = Verified => 1..s \subseteq file'.passed[j]
  <2>1. ASSUME NEW j \in Item, NEW s \in file'.passed[j], j \notin file'.torn \/ s = Verified
        PROVE  1..s \subseteq file'.passed[j]
    <3>1. j \notin lost
      OBVIOUS
    <3>2. file'.passed[j] = r.passed[j]
      BY <1>2, <1>4, <2>1, <3>1
    <3>3. j \notin r.torn \/ s = Verified
      BY <2>1, <3>1
    <3> QED BY <3>2, <3>3 DEF StagesMean
  <2> QED BY <2>1
<1>6. \A j \in Item : Verified \in file'.passed[j] => file'.failed[j] = {}
  BY <1>2, <1>4 DEF StagesMean
<1>7. \A a \in Artifact : Inited \in file'.passed[a] => file'.def[a].shape = "valid"
  <2>1. ASSUME NEW a \in Artifact, Inited \in file'.passed[a]
        PROVE  a \notin lost /\ Inited \in r.passed[a] /\ file'.def[a].shape = r.def[a].shape
    BY <1>2, <1>4, <2>1 DEF Item
  <2> QED BY <2>1 DEF StagesMean
<1>8. \A j \in Item \ file'.torn : file'.passed[j] # {} =>
          /\ j \notin r.torn /\ file'.passed[j] = r.passed[j]
          /\ j \in Artifact => file'.def[j] = r.def[j]
  BY <1>4
<1>9. /\ \A a \in Artifact \ file'.torn :
            Loaded \in file'.passed[a] /\ file'.def[a].used /\ file'.def[a].pom # NoPom
                => tree'[file'.def[a].pom].status = "tracked"
      /\ \A p \in Pom \ file'.torn : Transferred \in file'.passed[p] => tree'[p].status # "untracked"
  BY <1>8 DEF StagesMean, Item
<1> QED BY <1>1, <1>3, <1>5, <1>6, <1>7, <1>9 DEF StagesMean

\* A killed process leaves the last saved report, or a part of the one in memory.
LEMMA KillLeaves ==
    ASSUME TypeOK, Kill
    PROVE  \/ file' = EmptyReport
           \/ file' = file /\ outdated' = outdated
           \/ \E lost : \E cut \in SUBSET (report.listed \ lost) :
                 /\ LeftOf(report, file', lost, cut)
                 /\ outdated' = OutdatedWithout(report, lost \cup cut)
<1>1. \/ file' = EmptyReport
      \/ file' = file /\ outdated' = outdated
      \/ \E lost \in SUBSET report.listed : \E last \in (report.listed \ lost) \cup {NoItem} :
            /\ file' \in CutShort(WithoutItems(report, lost), last)
            /\ outdated' = OutdatedWithout(report, lost \cup {last})
  BY DEF Kill
<1>2. ASSUME NEW lost \in SUBSET report.listed, NEW last \in (report.listed \ lost) \cup {NoItem},
             file' \in CutShort(WithoutItems(report, lost), last),
             outdated' = OutdatedWithout(report, lost \cup {last})
      PROVE  \E cut \in SUBSET (report.listed \ lost) :
                /\ LeftOf(report, file', lost, cut)
                /\ outdated' = OutdatedWithout(report, lost \cup cut)
  <2> DEFINE w == WithoutItems(report, lost)
  <2>1. report \in ReportType /\ report.listed \subseteq Item
    BY DEF TypeOK, ReportType
  <2>2. /\ w \in ReportType
        /\ w.listed = report.listed \ lost /\ w.torn = report.torn \ lost
        /\ \A a \in Artifact \ lost : w.def[a] = report.def[a]
        /\ \A a \in Artifact \cap lost : w.def[a].shape = "absent"
        /\ \A j \in Item \ lost : w.passed[j] = report.passed[j] /\ w.failed[j] = report.failed[j]
        /\ \A j \in Item \cap lost : w.passed[j] = {} /\ w.failed[j] = {}
    BY <2>1, WithoutItemsParts
  <2>3. file' \in CutShort(w, last)
    BY <1>2
  <2> HIDE DEF w
  <2>4. CASE last = NoItem
    <3>1. file' = w /\ outdated' = OutdatedWithout(report, lost \cup {})
      <4>1. OutdatedWithout(report, lost \cup {last}) = OutdatedWithout(report, lost \cup {})
        BY <2>4, ItemAssumption DEF OutdatedWithout, References, Item, TypeOK
      <4> QED BY <1>2, <2>3, <2>4, <4>1 DEF CutShort
    <3>2. LeftOf(report, file', lost, {}) /\ {} \in SUBSET (report.listed \ lost)
      BY <2>2, <3>1 DEF LeftOf
    <3> QED BY <3>1, <3>2
  <2>5. CASE last # NoItem
    <3>1. last \in report.listed \ lost /\ last \in Item
      BY <2>1, <2>5
    <3>2. /\ file'.listed = w.listed /\ file'.torn = w.torn \cup {last}
          /\ \A a \in Artifact \ {last} : file'.def[a] = w.def[a]
          /\ \A a \in Artifact : file'.def[a].shape = w.def[a].shape
          /\ \A j \in Item \ {last} : file'.passed[j] = w.passed[j] /\ file'.failed[j] = w.failed[j]
          /\ \/ file'.passed[last] = w.passed[last] /\ file'.failed[last] = w.failed[last]
             \/ file'.passed[last] \in CutStages(last, w.passed[last]) /\ file'.failed[last] = {}
      BY <2>2, <2>3, <3>1, CutShortType
    <3>3. LeftOf(report, file', lost, {last}) /\ {last} \in SUBSET (report.listed \ lost)
      BY <2>2, <3>1, <3>2 DEF LeftOf
    <3> QED BY <1>2, <3>3
  <2> QED BY <2>4, <2>5
<1> QED BY <1>1, <1>2

\* So the saved report means what it meant, or what the one in memory did.
LEMMA IndKill == ASSUME IndInv, Kill PROVE IndInv'
<1>0. TypeOK /\ TypeOK'
  BY TypeStep DEF IndInv, Next, Disturb
<1>1. report' = EmptyReport /\ tree' = tree /\ pc' = "idle" /\ outcome' = "killed"
  BY DEF Kill, Exit
<1>2. StagesMean(file)' /\ ListedMeans(file)'
  <2>1. report \in ReportType /\ StagesMean(report) /\ ListedMeans(report)
    BY DEF IndInv, TypeOK
  <2>2. CASE file' = EmptyReport
    BY <2>2, EmptyReportMeans
  <2>3. CASE file' = file /\ outdated' = outdated
    BY <1>1, <2>3, FileFrame DEF IndInv
  <2>4. CASE \E lost : \E cut \in SUBSET (report.listed \ lost) :
                /\ LeftOf(report, file', lost, cut)
                /\ outdated' = OutdatedWithout(report, lost \cup cut)
    BY <1>1, <2>1, <2>4, LostMeans
  <2> QED BY <1>0, <2>2, <2>3, <2>4, KillLeaves
<1> QED BY <1>0, <1>1, <1>2, EmptyReportMeans, NoVerdict DEF IndInv, RunInv, ItemInv, PassInv, InPass

\* The pillar only matters when items are associated with the report.
LEMMA IndEditPillar == ASSUME IndInv, EditPillar PROVE IndInv'
<1>0. TypeOK'
  BY TypeStep DEF IndInv, Next, Disturb
<1>1. /\ report' = report /\ file' = file /\ tree' = tree /\ outdated' = outdated
      /\ pc = "idle" /\ pc' = "idle" /\ outcome' = outcome
  BY DEF EditPillar, Between
<1>2. VerdictMatchesReference'
  <2>1. \A i \in Item : /\ Meets(report.def, i)' <=> Meets(report.def, i)
                        /\ RefersTo(report.def, i, report.torn)' <=> RefersTo(report.def, i, report.torn)
    BY <1>1, MeetsFrame, RefersFrame
  <2>2. VerdictMatchesReference /\ report.listed \subseteq Item
    BY DEF IndInv, TypeOK, ReportType
  <2> QED BY <1>1, <2>1, <2>2 DEF VerdictMatchesReference
<1> QED BY <1>0, <1>1, <1>2, SameReportFrame DEF IndInv, RunInv, ItemInv, PassInv, InPass

\* Removing an entry is losing it.
LEMMA IndRemoveFromReport == ASSUME IndInv, NEW i \in Item, RemoveFromReport(i) PROVE IndInv'
<1>0. TypeOK'
  BY TypeStep DEF IndInv, Next, Disturb
<1>1. /\ report' = EmptyReport /\ tree' = tree /\ pc' = "idle" /\ outcome' = "none"
      /\ file' = WithoutItems(file, {i}) /\ outdated' = OutdatedWithout(file, {i})
  BY DEF RemoveFromReport, Between, inputs
<1>2. StagesMean(file)' /\ ListedMeans(file)'
  <2>1. file \in ReportType /\ StagesMean(file) /\ ListedMeans(file)
    BY DEF IndInv, TypeOK
  <2>2. outdated' = OutdatedWithout(file, {i} \cup {})
    BY <1>1
  <2>3. PICK w : w = WithoutItems(file, {i}) /\ file' = w
    BY <1>1
  <2>4. LeftOf(file, file', {i}, {}) /\ {} \in SUBSET (file.listed \ {i})
    BY <2>1, <2>3, WithoutItemsParts DEF LeftOf
  <2> QED BY <1>1, <2>1, <2>2, <2>4, LostMeans
<1> QED BY <1>0, <1>1, <1>2, EmptyReportMeans, NoVerdict DEF IndInv, RunInv, ItemInv, PassInv, InPass

\* A removed report means nothing.
LEMMA IndClean == ASSUME IndInv, Clean PROVE IndInv'
<1>0. TypeOK'
  BY TypeStep DEF IndInv, Next, Disturb
<1>1. /\ report' = EmptyReport /\ file' = EmptyReport /\ pc' = "idle" /\ outcome' = "none"
  BY DEF Clean, Between
<1> QED BY <1>0, <1>1, EmptyReportMeans, NoVerdict DEF IndInv, RunInv, ItemInv, PassInv, InPass

\* Nothing happens in a stuttering step.
LEMMA IndStutter == ASSUME IndInv, UNCHANGED vars PROVE IndInv'
<1>0. TypeOK'
  BY TypeStep DEF IndInv
<1>1. /\ report' = report /\ file' = file /\ tree' = tree /\ outdated' = outdated /\ pc' = pc
      /\ after' = after /\ queue' = queue /\ cur' = cur /\ stage' = stage /\ outcome' = outcome
  BY DEF vars
<1>2. \A j \in Item : /\ Meets(report.def, j)' <=> Meets(report.def, j)
                      /\ RefersTo(report.def, j, report.torn)' <=> RefersTo(report.def, j, report.torn)
  BY <1>1, MeetsFrame, RefersFrame
<1>3. PassInv'
  <2>1. AnotherPass' = AnotherPass
    BY <1>1 DEF AnotherPass, Hopeful
  <2>2. Reached' = Reached /\ Reached \subseteq Item
    BY <1>1 DEF Reached, IndInv, TypeOK, ReportType
  <2> QED BY <1>1, <1>2, <2>1, <2>2 DEF PassInv, InPass, Hopeful, IndInv
<1>4. ItemInv'
  BY <1>1, OutcomesFrame DEF ItemInv, IndInv
<1>5. VerdictMatchesReference'
  BY <1>1, <1>2 DEF VerdictMatchesReference, IndInv, TypeOK, ReportType
<1> QED BY <1>0, <1>1, <1>3, <1>4, <1>5, SameReportFrame DEF IndInv, RunInv

\* Every step keeps the invariant.
LEMMA IndStep == IndInv /\ [Next]_vars => IndInv'
<1> SUFFICES ASSUME IndInv, [Next]_vars PROVE IndInv'
  OBVIOUS
<1>1. CASE Work
  BY <1>1, IndSave, IndBeginItem, IndSkipStage, IndRunStage, IndRaiseInStage, IndRecordPassed,
     IndRecordFailed, IndEndPass, IndNextPass, IndFinish DEF Work
<1>2. CASE Disturb
  BY <1>2, IndInterrupt, IndKill, IndEditPillar, IndRemoveFromReport, IndClean DEF Disturb
<1> QED BY <1>1, <1>2, IndStart, IndStutter DEF Next

\* The invariant holds in every reachable state.
LEMMA Inductive == Spec => []IndInv
BY IndInit, IndStep, PTL DEF Spec

--------------------------------------------------------------------------------
(* The theorems *)

\* Whatever the inputs, the shuffles and the history of crashes, retries and
\* refreshed entries, a verdict agrees with the definitions in the report.
THEOREM VerdictIsSound == Spec => []VerdictMatchesReference
<1>1. IndInv => VerdictMatchesReference
  BY DEF IndInv
<1> QED BY <1>1, Inductive, PTL

\* Items go through the stages in order, in every report that is ever saved.
THEOREM StagesAreOrdered == Spec => []StagesInOrder
<1>1. IndInv => StagesInOrder
  BY DEF IndInv, StagesInOrder, StagesMean, ItemInv
<1> QED BY <1>1, Inductive, PTL

\* A verified item has no failed step log.
THEOREM VerifiedItemsAreClean == Spec => []VerifiedIsClean
<1>1. IndInv => VerifiedIsClean
  BY DEF IndInv, VerifiedIsClean, StagesMean
<1> QED BY <1>1, Inductive, PTL

\* A stage recorded in the saved report is lost only with its item's entry, or by
\* the kill that cuts this entry short.
THEOREM SavedStagesAreKept == Spec => SavedStagesStick
<1> DEFINE Keeps == \A i \in Item : \/ file.passed[i] \subseteq file'.passed[i]
                                    \/ i \notin file'.listed
                                    \/ i \in file'.torn /\ kills' # kills
<1>1. ASSUME IndInv, [Next]_vars PROVE Keeps
  <2>0. TypeOK
    BY <1>1 DEF IndInv
  <2>1. CASE Save
    BY <1>1, <2>1 DEF Save, IndInv, RunInv
  <2>2. ASSUME NEW i \in Item, RemoveFromReport(i) PROVE Keeps
    <3>1. PICK w : w = WithoutItems(file, {i}) /\ file' = w
      BY <2>2 DEF RemoveFromReport
    <3>2. /\ file'.listed = file.listed \ {i}
          /\ \A j \in Item \ {i} : file'.passed[j] = file.passed[j]
      BY <2>0, <3>1, WithoutItemsParts DEF TypeOK
    <3> QED BY <3>2
  <2>3. CASE file' = EmptyReport
    BY <2>3 DEF EmptyReport
  <2>4. CASE file' = file
    BY <2>4
  <2>5. CASE Kill
    <3>1. ASSUME NEW lost, NEW cut, LeftOf(report, file', lost, cut) PROVE Keeps
      <4>1. /\ \A i \in Item : file.passed[i] \subseteq report.passed[i]
            /\ kills' # kills
        BY <1>1, <2>0, <2>5 DEF Kill, IndInv, RunInv, TypeOK
      <4>2. /\ \A i \in Item \ (lost \cup cut) : file'.passed[i] = report.passed[i]
            /\ file'.listed \cap lost = {} /\ cut \subseteq file'.torn
        BY <3>1 DEF LeftOf
      <4> QED BY <4>1, <4>2
    <3> QED BY <2>0, <2>3, <2>4, <2>5, <3>1, KillLeaves
  <2>6. \/ Save \/ Kill \/ (\E i \in Item : RemoveFromReport(i))
        \/ file' = EmptyReport \/ file' = file
    BY <1>1 DEF Next, Work, Disturb, Start, BeginItem, SkipStage, RunStage, RaiseInStage,
                RecordStage, EndPass, NextPass, Finish, Interrupt, EditPillar, Clean, vars
  <2> QED BY <2>1, <2>2, <2>3, <2>4, <2>5, <2>6
<1>2. [][Keeps]_vars => SavedStagesStick
  BY PTL DEF SavedStagesStick
<1> QED BY <1>1, <1>2, Inductive, PTL DEF Spec

--------------------------------------------------------------------------------
(* Every repeated pass has made progress *)

\* Nothing has progressed before the first pass.
LEMMA PassLogInit == Init => PassLog
BY DEF Init, PassLog

\* When a pass begins, the saved report is the one in memory.
LEMMA PassLogSave == ASSUME IndInv, PassLog, Save PROVE PassLog'
<1>1. CASE after = "pass"
  BY <1>1 DEF Save, PassLog
<1>2. CASE after = "check"
  BY <1>2 DEF Save, PassLog
<1>3. CASE after \notin {"pass", "check"}
  BY <1>3 DEF Save, Exit, PassLog
<1> QED BY <1>1, <1>2, <1>3

\* An item that the pass starts on claims no progress.
LEMMA PassLogBeginItem == ASSUME IndInv, PassLog, NEW i \in Item, BeginItem(i) PROVE PassLog'
<1>1. CASE pc' = "saving"
  BY <1>1 DEF PassLog
<1>2. CASE pc' # "saving"
  <2>1. /\ file' = file /\ pc = "pick" /\ pc' = "stage" /\ queue' = queue \ {i}
        /\ report' = [report EXCEPT !.progressed[i] = FALSE, !.failed[i] = {}]
    BY <1>2 DEF BeginItem, BeginSave
  <2>2. /\ report'.listed = report.listed /\ report'.passed = report.passed
        /\ report'.progressed = [report.progressed EXCEPT ![i] = FALSE]
        /\ report.listed \subseteq Item
    BY <2>1 DEF IndInv, TypeOK, ReportType
  <2>3. /\ ~report'.progressed[i]
        /\ \A j \in Item \ {i} : report'.progressed[j] = report.progressed[j]
    BY <2>2 DEF IndInv, TypeOK, ReportType
  <2> QED BY <2>1, <2>2, <2>3 DEF PassLog
<1> QED BY <1>1, <1>2

\* An item that claims progress has just passed a stage that no earlier save has:
\* the saved report never has more stages than the one in memory.
LEMMA PassLogRecordStage == ASSUME IndInv, PassLog, RecordStage PROVE PassLog'
<1>1. /\ file' = file /\ queue' = queue /\ pc = "record" /\ pc' \in {"pick", "stage"}
      /\ cur \in report.listed \ queue /\ cur \in Item
      /\ stage \notin report.passed[cur] /\ file.passed[cur] \subseteq report.passed[cur]
      /\ report.listed \subseteq Item /\ queue \subseteq Item
  BY DEF RecordStage, Advance, IndInv, ItemInv, RunInv, TypeOK, ReportType
<1>2. CASE report.failed[cur] = {}
  <2>1. /\ report'.listed = report.listed
        /\ report'.passed = [report.passed EXCEPT ![cur] = @ \cup {stage}]
        /\ report'.progressed = [report.progressed EXCEPT ![cur] = TRUE]
    BY <1>2, <1>1 DEF RecordStage, IndInv, TypeOK, ReportType
  <2>2. /\ report'.passed[cur] = report.passed[cur] \cup {stage}
        /\ \A i \in Item \ {cur} : /\ report'.passed[i] = report.passed[i]
                                   /\ report'.progressed[i] = report.progressed[i]
    BY <1>1, <2>1 DEF IndInv, TypeOK, ReportType
  <2> QED BY <1>1, <2>1, <2>2 DEF PassLog
<1>3. CASE report.failed[cur] # {}
  <2>1. report' = [report EXCEPT !.passed[cur] = @, !.lastResult[cur] = FALSE,
                                 !.progressed[cur] = @ \/ FALSE]
    BY <1>3 DEF RecordStage
  <2>2. /\ report'.listed = report.listed /\ report'.passed = report.passed
        /\ report'.progressed = report.progressed
    BY <1>1, <2>1 DEF IndInv, TypeOK, ReportType
  <2> QED BY <1>1, <2>2 DEF PassLog
<1> QED BY <1>2, <1>3

\* The other steps change neither the stages nor the progress of an item.
LEMMA PassLogStep == IndInv /\ PassLog /\ [Next]_vars => PassLog'
<1> SUFFICES ASSUME IndInv, PassLog, [Next]_vars PROVE PassLog'
  OBVIOUS
<1>1. CASE SkipStage \/ RunStage
  <2>1. /\ report'.listed = report.listed /\ report'.passed = report.passed
        /\ report'.progressed = report.progressed
    <3>1. ASSUME RunStage
          PROVE  \E f, n : report' = [report EXCEPT !.failed[cur] = f, !.refs = n]
      BY <3>1 DEF RunStage
    <3>2. ASSUME NEW f, NEW n
          PROVE  LET r == [report EXCEPT !.failed[cur] = f, !.refs = n]
                 IN  /\ r.listed = report.listed /\ r.passed = report.passed
                     /\ r.progressed = report.progressed
      BY DEF IndInv, TypeOK, ReportType
    <3> QED BY <1>1, <3>1, <3>2 DEF SkipStage, IndInv, TypeOK, ReportType
  <2>2. /\ file' = file /\ queue' = queue
        /\ pc \in {"stage", "record"} /\ pc' \in {"pick", "stage", "record"}
    BY <1>1 DEF SkipStage, RunStage, Advance
  <2> QED BY <2>1, <2>2 DEF PassLog
<1>2. CASE NextPass
  BY <1>2 DEF NextPass, PassLog, IndInv
<1>3. CASE UNCHANGED vars
  BY <1>3 DEF vars, PassLog
<1>4. CASE \/ Start \/ RaiseInStage \/ EndPass \/ Finish \/ Disturb
  <2>1. pc' \in {"saving", "idle"}
    BY <1>4 DEF Start, RaiseInStage, EndPass, Finish, Disturb, Interrupt, Kill, EditPillar,
                RemoveFromReport, Clean, Between, BeginSave, Exit
  <2> QED BY <2>1 DEF PassLog
<1> QED BY <1>1, <1>2, <1>3, <1>4, PassLogSave, PassLogBeginItem, PassLogRecordStage
        DEF Next, Work

\* No pass is repeated for nothing, whatever cut the earlier runs short: the item
\* that asks for it has passed a stage that the saved report does not have.
THEOREM PassesMakeProgress == Spec => PassesProgress
<1> DEFINE Gains == EndPass /\ (\E i \in report.listed : report.progressed[i])
                        => \E i \in report.listed : report.passed[i] # file.passed[i]
<1>1. IndInv /\ PassLog => Gains
  BY DEF EndPass, PassLog
<1>2. [][Gains]_vars => PassesProgress
  BY PTL DEF PassesProgress
<1> QED BY <1>1, <1>2, PassLogInit, PassLogStep, Inductive, PTL DEF Spec

--------------------------------------------------------------------------------
(* No reference is missed *)

\* The bound of the counters is out of reach: there are not as many references.
EnoughRefs == IsFiniteSet(Item) /\ Cardinality(Item \X (1..2)) <= MaxRefs

\* The references of some items are finitely many, and fewer for fewer items.
LEMMA ReferencesFinite ==
    ASSUME EnoughRefs, NEW defs, NEW poms, NEW V \in SUBSET Item, NEW W \in SUBSET V, NEW j
    PROVE  /\ IsFiniteSet(ReferencesOf(defs, poms, V, j))
           /\ Cardinality(ReferencesOf(defs, poms, W, j)) \in Nat
           /\ Cardinality(ReferencesOf(defs, poms, V, j)) \in 0..MaxRefs
           /\ Cardinality(ReferencesOf(defs, poms, W, j))
                 <= Cardinality(ReferencesOf(defs, poms, V, j))
<1>1. IsFiniteSet(Item \X (1..2))
  <2>1. \A a, b \in Int : IsFiniteSet(a..b)
    BY FS_Interval
  <2>2. IsFiniteSet(1..2)
    <3>1. 1 \in Int /\ 2 \in Int
      OBVIOUS
    <3> QED BY <2>1, <3>1, Zenon
  <2> QED BY <2>2, FS_Product DEF EnoughRefs
<1>2. /\ ReferencesOf(defs, poms, V, j) \in SUBSET (Item \X (1..2))
      /\ ReferencesOf(defs, poms, W, j) \in SUBSET ReferencesOf(defs, poms, V, j)
  BY DEF ReferencesOf
<1>3. /\ IsFiniteSet(ReferencesOf(defs, poms, V, j))
      /\ Cardinality(ReferencesOf(defs, poms, V, j)) <= Cardinality(Item \X (1..2))
  BY <1>1, <1>2, FS_Subset
<1>4. /\ IsFiniteSet(ReferencesOf(defs, poms, W, j))
      /\ Cardinality(ReferencesOf(defs, poms, W, j))
            <= Cardinality(ReferencesOf(defs, poms, V, j))
  BY <1>2, <1>3, FS_Subset
<1>5. /\ Cardinality(ReferencesOf(defs, poms, V, j)) \in Nat
      /\ Cardinality(ReferencesOf(defs, poms, W, j)) \in Nat
      /\ Cardinality(Item \X (1..2)) \in Nat
  BY <1>1, <1>3, <1>4, FS_CardinalityType
<1> QED BY <1>3, <1>4, <1>5, BoundsAssumption DEF EnoughRefs

\* One more item adds the references it has.
LEMMA ReferencesGrow ==
    ASSUME EnoughRefs, NEW defs, NEW poms, NEW V \in SUBSET Item, NEW i \in Item, NEW j
    PROVE  Cardinality(ReferencesOf(defs, poms, V \cup {i}, j))
              <= Cardinality(ReferencesOf(defs, poms, V, j)) + CountsFrom(defs, poms, i, j)
<1> DEFINE old == ReferencesOf(defs, poms, V, j)
           new == ReferencesOf(defs, poms, V \cup {i}, j)
           count == CountsFrom(defs, poms, i, j)
<1>1. IsFiniteSet(old) /\ Cardinality(old) \in Nat
  BY ReferencesFinite, V \in SUBSET V
<1>2. count \in 0..2
  BY DEF CountsFrom
<1>3. new = old \cup {r \in {i} \X (1..2) : r[2] <= count}
  BY DEF ReferencesOf
<1> HIDE DEF old, new, count
<1>4. ASSUME NEW S, IsFiniteSet(S), NEW x
      PROVE  /\ IsFiniteSet(S \cup {x}) /\ Cardinality(S) \in Nat
             /\ Cardinality(S \cup {x}) \in Nat /\ Cardinality(S \cup {x}) <= Cardinality(S) + 1
  <2>1. /\ IsFiniteSet(S \cup {x}) /\ Cardinality(S) \in Nat
        /\ Cardinality(S \cup {x}) = IF x \in S THEN Cardinality(S) ELSE Cardinality(S) + 1
    BY <1>4, FS_AddElement, FS_CardinalityType
  <2> QED BY <2>1
<1>5. CASE count = 0
  <2>1. new = old
    BY <1>3, <1>5
  <2> QED BY <1>1, <1>5, <2>1 DEF old, new, count
<1>6. CASE count = 1
  <2>1. new = old \cup {<<i, 1>>}
    BY <1>3, <1>6
  <2>2. Cardinality(new) <= Cardinality(old) + 1
    BY <1>1, <1>4, <2>1
  <2> QED BY <1>6, <2>2 DEF old, new, count
<1>7. CASE count = 2
  <2> DEFINE some == old \cup {<<i, 1>>}
  <2>1. new = some \cup {<<i, 2>>}
    BY <1>3, <1>7
  <2>2. /\ IsFiniteSet(some) /\ Cardinality(some) \in Nat
        /\ Cardinality(some) <= Cardinality(old) + 1
    BY <1>1, <1>4
  <2> HIDE DEF some
  <2>3. Cardinality(new) \in Nat /\ Cardinality(new) <= Cardinality(some) + 1
    BY <1>4, <2>1, <2>2
  <2> QED BY <1>1, <1>7, <2>2, <2>3 DEF old, new, count
<1> QED BY <1>2, <1>5, <1>6, <1>7

\* A report that has the definitions of the items, and at least the counters, has
\* counted their references too.
LEMMA CountedFrame ==
    ASSUME EnoughRefs, NEW r \in ReportType, NEW n \in ReportType, NEW poms,
           NEW V \in SUBSET Item, NEW W \in SUBSET V, CountedIn(r, poms, V),
           \A a \in Artifact \cap W : n.def[a] = r.def[a],
           \A j \in Item : r.refs[j] <= n.refs[j]
    PROVE  CountedIn(n, poms, W)
<1> SUFFICES ASSUME NEW j \in Item
             PROVE  Cardinality(ReferencesOf(n.def, poms, W, j)) <= n.refs[j]
  BY DEF CountedIn
<1>1. ReferencesOf(n.def, poms, W, j) = ReferencesOf(r.def, poms, W, j)
  BY DEF ReferencesOf, CountsFrom
<1>2. /\ Cardinality(ReferencesOf(r.def, poms, V, j)) \in 0..MaxRefs
      /\ Cardinality(ReferencesOf(r.def, poms, W, j)) \in Nat
      /\ Cardinality(ReferencesOf(r.def, poms, W, j))
            <= Cardinality(ReferencesOf(r.def, poms, V, j))
  BY ReferencesFinite
<1>3. /\ Cardinality(ReferencesOf(r.def, poms, V, j)) <= r.refs[j] /\ r.refs[j] <= n.refs[j]
      /\ r.refs[j] \in Nat /\ n.refs[j] \in Nat
  BY BoundsAssumption DEF CountedIn, ReportType
<1> QED BY <1>1, <1>2, <1>3

\* Nothing is to be counted for no items.
LEMMA NoneCounted ==
    ASSUME NEW r \in ReportType, NEW poms
    PROVE  CountedIn(r, poms, {})
<1>1. \A j : ReferencesOf(r.def, poms, {}, j) = {}
  BY DEF ReferencesOf
<1>2. \A j \in Item : r.refs[j] \in Nat
  BY BoundsAssumption DEF ReportType
<1> QED BY <1>1, <1>2, FS_EmptySet DEF CountedIn

\* A last stage that fails nothing has counted every reference of its item.
LEMMA CountsAll ==
    ASSUME IndInv, NEW i \in Item, StageFailures(i, Verified) = {}, NEW j \in Item
    PROVE  CountsFrom(report.def, tree, i, j) <= StageCounts(i, Verified, j)
<1>1. CASE i \in Artifact
  <2>1. SUFFICES ASSUME report.def[i].used, report.def[i].pom = j, j \in Pom
                 PROVE  StageCounts(i, Verified, j) = 1
    BY <1>1, StageCountsType DEF CountsFrom
  <2>2. NeedsPom(i)
    BY <2>1, ItemAssumption DEF NeedsPom
  <2>3. ArtifactVerifiedFailures(i) = {}
    BY <1>1, ItemAssumption DEF StageFailures, Inited, Transferred, Loaded, Verified
  <2>4. j \in report.listed /\ Inited \in report.passed[j]
    BY <2>1, <2>2, <2>3 DEF ArtifactVerifiedFailures
  <2> QED BY <1>1, <2>1, <2>2, <2>4 DEF StageCounts
<1>2. CASE i \in Pom
  <2>1. i \notin Artifact
    BY <1>2, ItemAssumption
  <2>2. SUFFICES ASSUME j \in Artifact, tree[i].status = "tracked",
                        tree[i].xml[j] # "none" \/ tree[i].list[j] # "none"
                 PROVE  CountsFrom(report.def, tree, i, j) = StageCounts(i, Verified, j)
    BY <2>1, StageCountsType DEF CountsFrom
  <2>3. PomVerifiedFailures(i) = {} /\ j \in References(i)
    BY <1>2, <2>1, <2>2 DEF StageFailures, Inited, Transferred, Loaded, Verified, References
  <2>4. ReferenceFailure(i, j) = {}
    BY <2>2, <2>3 DEF PomVerifiedFailures
  <2>5. j \in report.listed /\ Inited \in report.passed[j]
    BY <2>4 DEF ReferenceFailure
  <2> QED BY <1>2, <2>1, <2>2, <2>3, <2>5 DEF StageCounts, CountsFrom
<1> QED BY <1>1, <1>2 DEF Item

\* Items with data are entries of the report.
LEMMA VerifiedItems ==
    ASSUME IndInv
    PROVE  /\ VerifiedIn(report) \subseteq report.listed /\ VerifiedIn(report) \subseteq Item
           /\ VerifiedIn(file) \subseteq file.listed /\ VerifiedIn(file) \subseteq Item
           /\ AboutToVerify \subseteq Item
  BY DEF VerifiedIn, AboutToVerify, IndInv, ListedMeans, TypeOK

\* Running a stage counts what it finds, and all if it is to succeed.
LEMMA CountRunStage ==
    ASSUME EnoughRefs, IndInv, IndInv', CountInv, RunStage
    PROVE  CountInv'
<1>1. /\ cur \in Item /\ pc = "stage" /\ pc' = "record" /\ stage \notin report.passed[cur]
      /\ tree' = tree /\ file' = file /\ cur' = cur /\ stage' = stage
      /\ runs' = runs /\ edits' = edits /\ kills' = kills
      /\ report \in ReportType /\ report' \in ReportType
  BY DEF RunStage, inputs, budget, IndInv, TypeOK
<1>2. /\ report'.def = report.def /\ report'.passed = report.passed /\ report'.torn = report.torn
      /\ report'.refs = [j \in Item |-> Bump(report.refs[j], StageCounts(cur, stage, j))]
      /\ Untouched => report'.failed[cur] = report.failed[cur] \cup StageFailures(cur, stage)
  <2>1. PICK failures \in Outcomes(cur, stage) :
            report' = [report EXCEPT
                !.failed[cur] = AddStepLogs(AddStepLogs(@, failures, FALSE),
                                            StageNotes(cur, stage), TRUE),
                !.refs = [j \in Item |-> Bump(@[j], StageCounts(cur, stage, j))]]
    BY DEF RunStage
  <2>2. Untouched => failures = StageFailures(cur, stage)
    BY DEF CountInv, Outcomes
  <2> QED BY <1>1, <2>1, <2>2 DEF AddStepLogs, ReportType
<1>3. VerifiedIn(report') = VerifiedIn(report) /\ AboutToVerify = {}
  BY <1>1, <1>2 DEF VerifiedIn, AboutToVerify
<1>4. \A j \in Item : /\ report.refs[j] \in 0..MaxRefs /\ report'.refs[j] \in 0..MaxRefs
                      /\ report.refs[j] <= report'.refs[j]
  BY <1>1, <1>2, StageCountsType, BoundsAssumption DEF Bump, ReportType
<1>5. ASSUME Untouched
      PROVE  CountedIn(report', tree, VerifiedIn(report) \cup AboutToVerify')
  <2>1. CountedIn(report, tree, VerifiedIn(report))
    BY <1>3, <1>5 DEF CountInv
  <2>2. CASE AboutToVerify' = {}
    <3>1. VerifiedIn(report) \in SUBSET Item
      BY VerifiedItems
    <3>2. CountedIn(report', tree, VerifiedIn(report))
      BY <1>1, <1>2, <1>4, <2>1, <3>1, CountedFrame
    <3> QED BY <2>2, <3>2
  <2>3. CASE AboutToVerify' # {}
    <3>1. stage = Verified /\ report'.failed[cur] = {} /\ AboutToVerify' = {cur}
      BY <1>1, <2>3 DEF AboutToVerify
    <3>2. StageFailures(cur, Verified) = {}
      BY <1>2, <1>5, <3>1
    <3> SUFFICES ASSUME NEW j \in Item
                 PROVE  Cardinality(ReferencesOf(report'.def, tree, VerifiedIn(report) \cup {cur}, j))
                           <= report'.refs[j]
      BY <3>1 DEF CountedIn
    <3> DEFINE old == Cardinality(ReferencesOf(report.def, tree, VerifiedIn(report), j))
               new == Cardinality(ReferencesOf(report.def, tree, VerifiedIn(report) \cup {cur}, j))
               count == CountsFrom(report.def, tree, cur, j)
    <3>3. VerifiedIn(report) \in SUBSET Item /\ VerifiedIn(report) \cup {cur} \in SUBSET Item
      BY <1>1, VerifiedItems
    <3>4. new <= old + count
      BY <1>1, <3>3, ReferencesGrow
    <3>5. old \in 0..MaxRefs /\ new \in 0..MaxRefs
      <4>1. \A V \in SUBSET Item :
               Cardinality(ReferencesOf(report.def, tree, V, j)) \in 0..MaxRefs
        BY ReferencesFinite
      <4> QED BY <3>3, <4>1
    <3>6. count \in 0..2 /\ count <= StageCounts(cur, stage, j)
          /\ StageCounts(cur, stage, j) \in Nat
      <4>1. count \in 0..2
        BY DEF CountsFrom
      <4> QED BY <1>1, <3>1, <3>2, <4>1, CountsAll, StageCountsType
    <3>7. old <= report.refs[j]
      BY <2>1 DEF CountedIn
    <3>8. report'.refs[j] = Bump(report.refs[j], StageCounts(cur, stage, j))
      BY <1>2
    <3> HIDE DEF old, new, count
    <3>9. new <= report'.refs[j]
      BY <1>4, <3>4, <3>5, <3>6, <3>7, <3>8, BoundsAssumption DEF Bump
    <3> QED BY <1>2, <3>9 DEF new
  <2> QED BY <2>2, <2>3
<1> QED BY <1>1, <1>2, <1>3, <1>5 DEF CountInv, Untouched

\* A step that keeps what the references are made of, and records nothing.
LEMMA CountSame ==
    ASSUME EnoughRefs, IndInv, IndInv', CountInv, pc' # "record", runs' > 0,
           runs' = runs, edits' = edits, kills' = kills, tree' = tree, file' = file,
           report'.def = report.def, report'.refs = report.refs,
           report'.passed = report.passed /\ report'.torn = report.torn
    PROVE  CountInv'
<1>1. report \in ReportType /\ report' \in ReportType
  BY DEF IndInv, TypeOK
<1>2. VerifiedIn(report') = VerifiedIn(report) /\ AboutToVerify' = {}
  BY DEF VerifiedIn, AboutToVerify
<1>3. /\ VerifiedIn(report) \cup AboutToVerify \in SUBSET Item
      /\ VerifiedIn(report) \in SUBSET (VerifiedIn(report) \cup AboutToVerify)
  BY VerifiedItems
<1>4. \A j \in Item : report.refs[j] <= report'.refs[j]
  BY <1>1, BoundsAssumption DEF ReportType
<1>5. Untouched' => CountedIn(report', tree, VerifiedIn(report))
  BY <1>1, <1>3, <1>4, CountedFrame DEF CountInv, Untouched
<1> QED BY <1>2, <1>5 DEF CountInv, Untouched

\* An item that is recorded as verified is one that was about to be.
LEMMA CountRecordStage ==
    ASSUME EnoughRefs, IndInv, IndInv', CountInv, RecordStage
    PROVE  CountInv'
<1>1. /\ pc = "record" /\ pc' # "record" /\ cur \in Item
      /\ tree' = tree /\ file' = file /\ runs' = runs /\ edits' = edits /\ kills' = kills
      /\ report \in ReportType /\ report' \in ReportType
  BY DEF RecordStage, Advance, inputs, budget, IndInv, TypeOK
<1>2. /\ report'.def = report.def /\ report'.refs = report.refs /\ report'.torn = report.torn
      /\ report'.passed = [report.passed EXCEPT ![cur] =
                              IF report.failed[cur] = {} THEN @ \cup {stage} ELSE @]
  BY <1>1 DEF RecordStage, ReportType
<1>3. \A i \in Item : report'.passed[i] =
         IF i = cur /\ report.failed[cur] = {} THEN report.passed[i] \cup {stage}
         ELSE report.passed[i]
  BY <1>1, <1>2 DEF ReportType
<1>4. VerifiedIn(report') \subseteq VerifiedIn(report) \cup AboutToVerify
  BY <1>1, <1>3 DEF VerifiedIn, AboutToVerify
<1>5. AboutToVerify' = {}
  BY <1>1 DEF AboutToVerify
<1>6. VerifiedIn(report) \cup AboutToVerify \in SUBSET Item
  BY VerifiedItems
<1>7. \A j \in Item : report.refs[j] <= report'.refs[j]
  BY <1>1, <1>2, BoundsAssumption DEF ReportType
<1>8. Untouched' => CountedIn(report', tree, VerifiedIn(report'))
  BY <1>1, <1>2, <1>4, <1>6, <1>7, CountedFrame DEF CountInv, Untouched
<1> QED BY <1>1, <1>2, <1>5, <1>8 DEF CountInv, Untouched

\* A report that is read or associated anew has counted what the saved one has.
LEMMA CountStart ==
    ASSUME EnoughRefs, IndInv, IndInv', CountInv, Start
    PROVE  CountInv'
<1>1. /\ pc' # "record" /\ runs' = runs + 1 /\ runs \in Nat /\ edits' = edits /\ kills' = kills
      /\ tree' = tree /\ file' = file /\ file \in ReportType /\ report' \in ReportType
  BY DEF Start, Exit, BeginSave, inputs, IndInv, TypeOK
<1>2. AboutToVerify' = {}
  BY <1>1 DEF AboutToVerify
<1>3. CASE report' = EmptyReport
  <2>1. VerifiedIn(report') = {} /\ report'.torn = {}
    BY <1>3 DEF VerifiedIn, EmptyReport
  <2> QED BY <1>1, <1>2, <2>1, NoneCounted DEF CountInv
<1>4. CASE report' = Associate(file)
  <2>1. /\ report'.passed = file.passed /\ report'.refs = file.refs /\ report'.torn = file.torn
        /\ \A a \in Artifact \cap file.listed : report'.def[a] = file.def[a]
    BY <1>1, <1>4 DEF Associate, ReportType
  <2>2. VerifiedIn(report') = VerifiedIn(file) /\ VerifiedIn(file) \subseteq file.listed
        /\ VerifiedIn(file) \in SUBSET Item
    BY <2>1, VerifiedItems DEF VerifiedIn
  <2>3. \A j \in Item : file.refs[j] <= report'.refs[j]
    BY <1>1, <2>1, BoundsAssumption DEF ReportType
  <2>4. CASE runs = 0
    <3>1. VerifiedIn(file) = {} /\ file.torn = {}
      BY <2>4 DEF CountInv, VerifiedIn, EmptyReport
    <3> QED BY <1>1, <1>2, <2>1, <2>2, <3>1, NoneCounted DEF CountInv
  <2>5. CASE runs # 0
    <3>1. Untouched' => file.torn = {} /\ CountedIn(file, tree, VerifiedIn(file))
      BY <1>1, <2>5 DEF CountInv, Untouched
    <3>2. Untouched' => CountedIn(report', tree, VerifiedIn(file))
      BY <1>1, <2>1, <2>2, <2>3, <3>1, CountedFrame
    <3> QED BY <1>1, <1>2, <2>1, <2>2, <3>1, <3>2 DEF CountInv
  <2> QED BY <2>4, <2>5
<1> QED BY <1>3, <1>4 DEF Start

\* Saving takes what was counted to the next run.
LEMMA CountSave ==
    ASSUME EnoughRefs, IndInv, IndInv', CountInv, Save
    PROVE  CountInv'
<1>1. /\ pc = "saving" /\ pc' # "record" /\ file' = report
      /\ report' = report \/ report' = EmptyReport
      /\ tree' = tree /\ runs' = runs /\ edits' = edits /\ kills' = kills
      /\ report \in ReportType /\ report' \in ReportType
  BY DEF Save, Exit, inputs, budget, IndInv, TypeOK
<1>2. AboutToVerify = {} /\ AboutToVerify' = {}
  BY <1>1 DEF AboutToVerify
<1>3. runs # 0
  BY <1>1 DEF CountInv
<1>4. edits + kills = 0 => report.torn = {} /\ CountedIn(report, tree, VerifiedIn(report))
  BY <1>2 DEF CountInv, Untouched
<1>5. Untouched => report'.torn = {} /\ CountedIn(report', tree, VerifiedIn(report'))
  <2>1. CASE report' = report
    BY <1>2, <2>1 DEF CountInv
  <2>2. CASE report' = EmptyReport
    <3>1. VerifiedIn(report') = {} /\ report'.torn = {}
      BY <2>2 DEF VerifiedIn, EmptyReport
    <3> QED BY <1>1, <3>1, NoneCounted
  <2> QED BY <1>1, <2>1, <2>2
<1> QED BY <1>1, <1>2, <1>3, <1>4, <1>5 DEF CountInv, Untouched

\* A report that is gone has no verified items; what is done to the saved one,
\* between two runs or by a kill, is remembered.
LEMMA CountGone ==
    ASSUME IndInv, IndInv', CountInv, report' = EmptyReport, pc' = "idle", runs' = runs,
           edits' + kills' # 0, runs = 0 => file' = EmptyReport
    PROVE  CountInv'
<1>1. VerifiedIn(report') = {} /\ report'.torn = {} /\ AboutToVerify' = {} /\ report' \in ReportType
  BY DEF VerifiedIn, EmptyReport, AboutToVerify, IndInv, TypeOK
<1> QED BY <1>1, NoneCounted DEF CountInv

\* Changing the pillar changes no report.
LEMMA CountEditPillar ==
    ASSUME IndInv, CountInv, EditPillar
    PROVE  CountInv'
<1>1. /\ tree' = tree /\ file' = file /\ report' = report /\ pc' = pc /\ runs' = runs
      /\ cur' = cur /\ stage' = stage
      /\ edits' = edits + 1 /\ kills' = kills /\ edits \in Nat /\ kills \in Nat
  BY DEF EditPillar, Between, IndInv, TypeOK
<1>2. edits' + kills' # 0 /\ (Untouched' => Untouched)
  BY <1>1 DEF Untouched
<1>3. AboutToVerify' = AboutToVerify
  BY <1>1 DEF AboutToVerify
<1> QED BY <1>1, <1>2, <1>3 DEF CountInv

\* No step loses count.
LEMMA CountStep == ASSUME EnoughRefs PROVE IndInv /\ CountInv /\ [Next]_vars => CountInv'
<1> SUFFICES ASSUME IndInv, CountInv, [Next]_vars PROVE CountInv'
  OBVIOUS
<1>1. IndInv'
  BY IndStep
<1>2. edits \in Nat /\ kills \in Nat /\ runs \in Nat /\ report \in ReportType
  BY DEF IndInv, TypeOK
<1>3. CASE \/ (\E i \in Item : BeginItem(i)) \/ SkipStage \/ RaiseInStage \/ EndPass
           \/ NextPass \/ Finish \/ Interrupt
  <2>1. /\ pc # "idle" /\ pc' # "record" /\ runs' = runs /\ edits' = edits /\ kills' = kills
        /\ tree' = tree /\ file' = file
    BY <1>3 DEF BeginItem, SkipStage, RaiseInStage, EndPass, NextPass, Finish, Interrupt,
                BeginSave, Advance, Exit, inputs, budget
  <2>2. /\ report'.def = report.def /\ report'.refs = report.refs
        /\ report'.passed = report.passed /\ report'.torn = report.torn
    BY <1>2, <1>3 DEF BeginItem, SkipStage, RaiseInStage, EndPass, NextPass, Finish, Interrupt,
                      ReportType
  <2>3. runs' > 0
    BY <1>2, <2>1 DEF CountInv
  <2> QED BY <1>1, <2>1, <2>2, <2>3, CountSame
<1>4. CASE Kill
  <2>1. /\ report' = EmptyReport /\ pc' = "idle" /\ runs' = runs /\ pc # "idle"
        /\ kills' = kills + 1 /\ edits' = edits
    BY <1>4 DEF Kill, Exit
  <2> QED BY <1>1, <1>2, <2>1, CountGone DEF CountInv
<1>5. CASE (\E i \in Item : RemoveFromReport(i)) \/ Clean
  <2>1. /\ report' = EmptyReport /\ pc' = "idle" /\ runs' = runs
        /\ edits' = edits + 1 /\ kills' = kills
    BY <1>5 DEF RemoveFromReport, Clean, Between
  <2>2. runs = 0 => file' = EmptyReport
    <3>1. EmptyReport.listed = {}
      BY DEF EmptyReport
    <3>2. (\E i \in Item : RemoveFromReport(i)) => file.listed # {}
      BY DEF RemoveFromReport
    <3>3. Clean => file' = EmptyReport
      BY DEF Clean
    <3> QED BY <1>5, <3>1, <3>2, <3>3 DEF CountInv
  <2> QED BY <1>1, <1>2, <2>1, <2>2, CountGone
<1>6. CASE UNCHANGED vars
  <2>1. /\ tree' = tree /\ file' = file /\ report' = report /\ pc' = pc /\ cur' = cur
        /\ stage' = stage /\ runs' = runs /\ edits' = edits /\ kills' = kills
    BY <1>6 DEF vars
  <2>2. AboutToVerify' = AboutToVerify /\ (Untouched' <=> Untouched)
    BY <2>1 DEF AboutToVerify, Untouched
  <2> QED BY <2>1, <2>2 DEF CountInv
<1> QED BY <1>1, <1>3, <1>4, <1>5, <1>6, CountRunStage, CountRecordStage, CountStart, CountSave,
           CountEditPillar DEF Next, Work, Disturb

LEMMA CountInit == Init => CountInv
<1> SUFFICES ASSUME Init PROVE CountInv
  OBVIOUS
<1>1. /\ VerifiedIn(EmptyReport) = {} /\ EmptyReport.torn = {}
      /\ AboutToVerify = {} /\ EmptyReport \in ReportType
  BY EmptyReportType DEF Init, VerifiedIn, EmptyReport, AboutToVerify
<1> QED BY <1>1, NoneCounted DEF Init, CountInv

\* No reference is missed by a report that has everything verified, whatever the
\* order of its passes, how many runs it took and how they were interrupted.
THEOREM ReferencesAreCounted == ASSUME EnoughRefs PROVE Spec => []ReferencesCounted
<1>1. IndInv /\ CountInv => ReferencesCounted
  <2> SUFFICES ASSUME IndInv, CountInv, outcome = "succeeded", Untouched,
                      NEW j \in report.listed
               PROVE  Cardinality(ReferencesOf(report.def, tree, report.listed, j))
                         <= report.refs[j]
    BY DEF ReferencesCounted
  <2> DEFINE V == VerifiedIn(report) \cup AboutToVerify
  <2>1. report \in ReportType /\ report.listed \subseteq Item /\ j \in Item
    BY DEF IndInv, TypeOK, ReportType
  <2>2. \A i \in report.listed : Verified \in report.passed[i]
    BY DEF IndInv, VerdictMatchesReference
  <2>3. V \in SUBSET Item /\ report.listed \in SUBSET V
    BY <2>1, <2>2, VerifiedItems DEF VerifiedIn
  <2>4. CountedIn(report, tree, V)
    BY DEF CountInv
  <2>5. \A k \in Item : report.refs[k] <= report.refs[k]
    BY <2>1, BoundsAssumption DEF ReportType
  <2> HIDE DEF V
  <2>6. CountedIn(report, tree, report.listed)
    BY <2>1, <2>3, <2>4, <2>5, CountedFrame
  <2> QED BY <2>1, <2>6 DEF CountedIn
<1> QED BY <1>1, CountInit, CountStep, Inductive, PTL DEF Spec

--------------------------------------------------------------------------------
(* The assertion, without interrupts and kills *)

\* A part of a report, and the empty report, keep what FailedMeans says.
LEMMA FailedMeansParts ==
    /\ \A i \in Item : FailedMeans(EmptyReport, i)
    /\ EmptyReport.torn = {}
    /\ \A r \in ReportType : \A lost :
          (\A i \in Item : FailedMeans(r, i)) =>
              \A i \in Item : FailedMeans(WithoutItems(r, lost), i)
<1>1. EmptyReport.torn = {} /\ \A i \in Item : FailedMeans(EmptyReport, i)
  BY DEF FailedMeans, EmptyReport
<1>2. ASSUME NEW r \in ReportType, NEW lost, \A i \in Item : FailedMeans(r, i), NEW i \in Item
      PROVE  FailedMeans(WithoutItems(r, lost), i)
  <2> DEFINE w == WithoutItems(r, lost)
  <2>1. /\ w.failed[i] = IF i \in lost THEN EmptyReport.failed[i] ELSE r.failed[i]
        /\ w.lastResult[i] = IF i \in lost THEN EmptyReport.lastResult[i] ELSE r.lastResult[i]
        /\ w.passed[i] = IF i \in lost THEN EmptyReport.passed[i] ELSE r.passed[i]
    <3> HIDE DEF EmptyReport
    <3> QED BY <1>2 DEF WithoutItems, ReportType
  <2> HIDE DEF w
  <2>2. FailedMeans(w, i)
    BY <1>2, <2>1 DEF FailedMeans, EmptyReport
  <2> QED BY <2>2 DEF w
<1> QED BY <1>1, <1>2

\* The steps of the running process keep AssertInv.
LEMMA AssertWork ==
    ASSUME IndInv, AssertInv, Work
    PROVE  AssertInv'
<1>0. TypeOK /\ StagesMean(report)
  BY DEF IndInv
<1>1. CASE Save
  BY <1>0, <1>1, FailedMeansParts DEF Save, AssertInv, AssertionHolds, FailedMeans, TypeOK, Exit, IndInv
<1>2. ASSUME NEW i \in Item, BeginItem(i) PROVE AssertInv'
  <2>1. FailedMeans(report, i) /\ pc = "pick" /\ file' = file /\ outcome' = outcome
    BY <1>2 DEF AssertInv, BeginItem
  <2>2. ~(report.failed[i] # {} /\ report.lastResult[i])
    BY <2>1 DEF FailedMeans
  <2>3. /\ report' = [report EXCEPT !.progressed[i] = FALSE, !.failed[i] = {}]
        /\ pc' = "stage" /\ after' = after
    BY <1>2, <2>2 DEF BeginItem, AssertInv
  <2>4. \A j \in Item : FailedMeans(report, j)'
    BY <1>0, <2>1, <2>3 DEF AssertInv, FailedMeans, TypeOK, ReportType
  <2> QED BY <2>1, <2>3, <2>4 DEF AssertInv, AssertionHolds, FailedMeans
<1>3. CASE SkipStage
  <2>1. /\ pc = "stage" /\ cur \in Item /\ report.failed[cur] = {} /\ Inited \in report.passed[cur]
        /\ file' = file /\ outcome' = outcome /\ after' = after
        /\ report' = [report EXCEPT !.lastResult[cur] = TRUE]
    BY <1>3, <1>0 DEF SkipStage, IndInv, ItemInv, TypeOK, StagesMean, Stage, Inited
  <2>2. \A j \in Item : FailedMeans(report, j)'
    BY <1>0, <2>1 DEF AssertInv, FailedMeans, TypeOK, ReportType
  <2> QED BY <2>1, <2>2 DEF AssertInv, AssertionHolds, FailedMeans
<1>4. CASE RunStage
  <2>1. /\ pc = "stage" /\ pc' = "record" /\ cur' = cur /\ cur \in Item
        /\ file' = file /\ outcome' = outcome /\ after' = after
        /\ report'.passed = report.passed /\ report'.torn = report.torn /\ report'.lastResult = report.lastResult
        /\ \A j \in Item \ {cur} : report'.failed[j] = report.failed[j]
    BY <1>0, <1>4 DEF RunStage, TypeOK, ReportType
  <2> QED BY <2>1 DEF AssertInv, AssertionHolds, FailedMeans
<1>5. CASE RaiseInStage
  <2>1. /\ pc = "stage" /\ after' = "raised" /\ pc' = "saving" /\ cur \in Item
        /\ report.failed[cur] = {} /\ stage \notin report.passed[cur]
        /\ file' = file /\ outcome' = outcome
    BY <1>0, <1>5 DEF RaiseInStage, BeginSave, IndInv, ItemInv, TypeOK
  <2>2. PICK logged \in {{}, StageFailures(cur, stage)} :
            report' = [report EXCEPT !.failed[cur] = AddStepLogs(@, logged, FALSE)]
    BY <1>5 DEF RaiseInStage, AssertInv, Outcomes
  <2>3. logged # {} => Inited \notin report.passed[cur]
    <3>1. CASE cur \in Artifact /\ stage = Inited
      BY <2>1, <3>1
    <3>2. CASE ~(cur \in Artifact /\ stage = Inited)
      <4>1. StageFailures(cur, stage) = {}
        <5> USE DEF Inited, Transferred, Loaded, Verified
        <5>1. CASE cur \in Artifact
          <6>1. stage = Loaded /\ NeedsPom(cur) /\ tree[report.def[cur].pom].status = "tracked"
            BY <1>5, <3>2, <5>1, ItemAssumption DEF RaiseInStage, MayRaise, MustRaise, AssertInv
          <6>2. ArtifactLoadedFailures(cur) = {}
            BY <6>1 DEF ArtifactLoadedFailures
          <6> QED BY <6>1, <6>2, <5>1, ItemAssumption DEF StageFailures
        <5>2. CASE cur \in Pom
          BY <1>5, <3>2, <5>2, ItemAssumption DEF RaiseInStage, MayRaise, MustRaise, StageFailures, AssertInv
        <5> QED BY <2>1, <5>1, <5>2 DEF Item
      <4> QED BY <4>1
    <3> QED BY <3>1, <3>2
  <2>4. /\ report'.passed = report.passed /\ report'.torn = report.torn /\ report'.lastResult = report.lastResult
        /\ report'.failed = [report.failed EXCEPT ![cur] = logged]
    BY <1>0, <2>1, <2>2 DEF TypeOK, ReportType, AddStepLogs
  <2>5. \A j \in Item : FailedMeans(report, j)'
    BY <1>0, <2>1, <2>3, <2>4 DEF AssertInv, FailedMeans, TypeOK, ReportType
  <2> QED BY <2>1, <2>4, <2>5 DEF AssertInv, AssertionHolds, FailedMeans
<1>6. CASE RecordStage
  <2>1. /\ pc = "record" /\ cur \in Item /\ pc' # "record" /\ stage \in Stage
        /\ 1..(stage - 1) \subseteq report.passed[cur]
        /\ file' = file /\ outcome' = outcome /\ after' = after
    BY <1>0, <1>6 DEF RecordStage, Advance, IndInv, ItemInv, TypeOK
  <2> DEFINE ok == report.failed[cur] = {}
  <2>2. /\ report'.failed = report.failed /\ report'.torn = report.torn
        /\ report'.passed = [report.passed EXCEPT ![cur] = IF ok THEN @ \cup {stage} ELSE @]
        /\ report'.lastResult = [report.lastResult EXCEPT ![cur] = ok]
    BY <1>0, <1>6 DEF RecordStage, TypeOK, ReportType
  <2>3. ok => Inited \in report'.passed[cur]
    <3>1. ok => stage \in report'.passed[cur] /\ 1..(stage - 1) \subseteq report'.passed[cur]
      BY <1>0, <2>1, <2>2 DEF TypeOK, ReportType
    <3> QED BY <3>1, <2>1 DEF Stage, Inited
  <2>4. \A j \in Item : FailedMeans(report, j)'
    BY <1>0, <2>1, <2>2, <2>3 DEF AssertInv, FailedMeans, TypeOK, ReportType
  <2> QED BY <2>1, <2>2, <2>4 DEF AssertInv, AssertionHolds, FailedMeans
<1>7. CASE EndPass
  BY <1>7 DEF EndPass, BeginSave, AssertInv, AssertionHolds, FailedMeans
<1>8. CASE NextPass
  BY <1>8 DEF NextPass, AssertInv, AssertionHolds, FailedMeans
<1>9. CASE Finish
  <2>1. /\ report'.failed = report.failed /\ report'.passed = report.passed /\ report'.torn = report.torn
        /\ report'.lastResult = report.lastResult
    BY <1>0, <1>9 DEF Finish, TypeOK, ReportType
  <2> QED BY <1>9, <2>1 DEF Finish, Exit, AssertInv, AssertionHolds, FailedMeans
<1> QED BY <1>1, <1>2, <1>3, <1>4, <1>5, <1>6, <1>7, <1>8, <1>9 DEF Work

\* Every step keeps AssertInv: an interrupt would not, nor would a kill.
LEMMA AssertStep ==
    ASSUME MaxInterrupts = 0, MaxKills = 0, IndInv, AssertInv, [Next]_vars
    PROVE  AssertInv'
<1>0. TypeOK
  BY DEF IndInv
<1>1. CASE Start
  <2>1. Associate(file).failed = file.failed /\ Associate(file).passed = file.passed
        /\ Associate(file).lastResult = file.lastResult /\ Associate(file).torn = file.torn
    BY <1>0 DEF Associate, TypeOK, ReportType
  <2> QED BY <1>1, <2>1, FailedMeansParts
          DEF Start, Exit, BeginSave, AssertInv, AssertionHolds, FailedMeans
<1>2. CASE Kill \/ Interrupt
  BY <1>0, <1>2, BoundsAssumption DEF Kill, Interrupt, TypeOK
<1>3. CASE EditPillar
  BY <1>3 DEF EditPillar, Between, AssertInv, AssertionHolds, FailedMeans
<1>4. ASSUME NEW i \in Item, RemoveFromReport(i) PROVE AssertInv'
  <2>1. \A j \in Item : FailedMeans(file, j)'
    BY <1>0, <1>4, FailedMeansParts DEF RemoveFromReport, AssertInv, TypeOK, FailedMeans
  <2>2. file'.torn = {}
    BY <1>4 DEF RemoveFromReport, WithoutItems, AssertInv, TypeOK, ReportType
  <2> QED BY <1>4, <2>1, <2>2, FailedMeansParts
          DEF RemoveFromReport, Between, AssertInv, AssertionHolds, FailedMeans
<1>5. CASE Clean
  BY <1>5, FailedMeansParts DEF Clean, Between, AssertInv, AssertionHolds, FailedMeans
<1>6. CASE UNCHANGED vars
  BY <1>6 DEF vars, AssertInv, AssertionHolds, FailedMeans
<1> QED BY <1>1, <1>2, <1>3, <1>4, <1>5, <1>6, AssertWork DEF Next, Disturb

\* "If there was a failed `step_name`, `last_stage_result` must be False" holds
\* in every run, whatever was edited and removed before, if none is cut short.
THEOREM AssertionNeverFails ==
    ASSUME MaxInterrupts = 0, MaxKills = 0
    PROVE  Spec => []AssertionHolds
<1>1. Init => AssertInv
  BY FailedMeansParts DEF Init, AssertInv, AssertionHolds
<1>2. IndInv /\ AssertInv /\ [Next]_vars => AssertInv'
  BY AssertStep
<1>3. AssertInv => AssertionHolds
  BY DEF AssertInv
<1> QED BY <1>1, <1>2, <1>3, Inductive, PTL DEF Spec

--------------------------------------------------------------------------------
(* The refinement, without edits *)

\* The definitions of a fresh report and the pillar's are the same to every item
\* that its incomplete entries do not concern: what the report has all entries
\* for, it agrees on, and a pom that refers to what it lacks does not meet it.
LEMMA FreshMeets ==
    ASSUME NEW r, Fresh(r), ListedMeans(r), NEW i \in Item, i \in r.listed, i \notin r.torn
    PROVE  /\ i \in Artifact => r.def[i] = pillar[i]
           /\ ~RefersTo(pillar, i, r.torn) /\ Meets(r.def, i) => Meets(pillar, i)
           /\ ~RefersTo(pillar, i, r.torn) /\ r.listed = PillarItems /\ Meets(pillar, i) =>
                  Meets(r.def, i)
           /\ RefersTo(r.def, i, r.torn) <=> RefersTo(pillar, i, r.torn)
<1>1. i \in Artifact => r.def[i] = pillar[i]
  BY DEF Fresh
<1>2. RefersTo(r.def, i, r.torn) <=> RefersTo(pillar, i, r.torn)
  BY <1>1 DEF RefersTo
<1>3. CASE i \in Artifact
  <2>1. Meets(r.def, i) <=> Meets(pillar, i)
    BY <1>1, <1>3 DEF Meets, ArtifactMeets
  <2> QED BY <1>1, <1>2, <2>1
<1>4. CASE i \notin Artifact
  <2>1. ASSUME ~RefersTo(pillar, i, r.torn), NEW a \in References(i)
        PROVE  /\ r.def[a] = pillar[a] \/ r.def[a].shape = "absent"
               /\ r.listed = PillarItems => r.def[a] = pillar[a] \/ pillar[a].shape = "absent"
    <3>1. a \in Artifact /\ a \notin r.torn
      BY <1>4, <2>1 DEF RefersTo, References
    <3>2. a \in r.listed => r.def[a] = pillar[a]
      BY <3>1 DEF Fresh
    <3>3. a \notin r.listed => r.def[a].shape = "absent"
      BY <3>1 DEF ListedMeans
    <3>4. a \notin PillarItems => pillar[a].shape = "absent"
      BY <3>1 DEF PillarItems
    <3> QED BY <3>2, <3>3, <3>4
  <2>2. ASSUME ~RefersTo(pillar, i, r.torn), PomMeets(r.def, i) PROVE PomMeets(pillar, i)
    BY <2>1, <2>2 DEF PomMeets
  <2>3. ASSUME ~RefersTo(pillar, i, r.torn), r.listed = PillarItems, PomMeets(pillar, i)
        PROVE  PomMeets(r.def, i)
    BY <2>1, <2>3 DEF PomMeets
  <2> QED BY <1>1, <1>2, <1>4, <2>2, <2>3 DEF Meets
<1> QED BY <1>3, <1>4

\* Fresh only depends on these parts of the report and of the inputs.
LEMMA FreshFrame ==
    ASSUME pillar' = pillar, tree' = tree
    PROVE  /\ PillarItems' = PillarItems
           /\ \A i \in Item : Meets(pillar, i)' <=> Meets(pillar, i)
           /\ \A r : Fresh(r) /\ report'.listed = r.listed /\ report'.def = r.def
                     /\ report'.torn = r.torn => Fresh(report)'
           /\ \A r : Fresh(r) /\ file' = r => Fresh(file)'
           /\ Fresh(file)' => Fresh(file')
<1>1. PillarItems' = PillarItems
  BY DEF PillarItems
<1>2. \A i \in Item : Meets(pillar, i)' <=> Meets(pillar, i)
  BY DEF Meets, ArtifactMeets, PomMeets, References
<1> QED BY <1>1, <1>2 DEF Fresh

\* The empty report is fresh, what is left of a fresh report is, and so is a
\* fresh report that was associated with the pillar.
LEMMA FreshParts ==
    ASSUME TypeOK
    PROVE  /\ Fresh(EmptyReport)
           /\ \A r, f : \A lost : \A cut \in SUBSET r.listed :
                 Fresh(r) /\ LeftOf(r, f, lost, cut) => Fresh(f)
           /\ Fresh(file) => /\ Fresh(Associate(file))
                             /\ Associate(file).listed = PillarItems
                             /\ Associate(file).torn = file.torn
<1>1. Fresh(EmptyReport)
  BY DEF Fresh, EmptyReport
<1>2. ASSUME NEW r, NEW f, NEW lost, NEW cut, Fresh(r), LeftOf(r, f, lost, cut)
      PROVE  Fresh(f)
  <2>1. f.listed \subseteq PillarItems
    BY <1>2 DEF Fresh, LeftOf
  <2>2. ASSUME NEW a \in (Artifact \cap f.listed) \ f.torn
        PROVE  f.def[a] = pillar[a]
    <3>1. a \in (Artifact \cap r.listed) \ r.torn /\ a \notin lost \cup cut
      BY <1>2, <2>2 DEF LeftOf
    <3> QED BY <1>2, <3>1 DEF Fresh, LeftOf
  <2> QED BY <2>1, <2>2 DEF Fresh
<1>3. ASSUME Fresh(file)
      PROVE  /\ Fresh(Associate(file)) /\ Associate(file).listed = PillarItems
             /\ Associate(file).torn = file.torn
  <2> DEFINE w == Associate(file)
  <2>1. /\ w.listed = file.listed \cup PillarItems /\ w.torn = file.torn
        /\ \A a \in Artifact : w.def[a] = IF a \in file.listed THEN file.def[a] ELSE pillar[a]
    BY DEF Associate, TypeOK, ReportType, PillarItems
  <2> HIDE DEF w
  <2>2. Fresh(w) /\ w.listed = PillarItems
    BY <1>3, <2>1 DEF Fresh
  <2> QED BY <2>1, <2>2 DEF w
<1> QED BY <1>1, <1>2, <1>3

\* Every step keeps FreshInv: an edit would not.
LEMMA FreshStep ==
    ASSUME MaxEdits = 0, IndInv, FreshInv, [Next]_vars
    PROVE  FreshInv'
<1>0. TypeOK /\ edits = 0
  BY DEF IndInv, FreshInv
<1>1. ~Between
  BY <1>0 DEF Between
<1>2. /\ pillar' = pillar /\ tree' = tree /\ edits' = 0
  BY <1>0, <1>1 DEF Next, Work, Disturb, Start, Save, BeginItem, SkipStage, RunStage, RaiseInStage,
     RecordStage, EndPass, NextPass, Finish, Interrupt, Kill, EditPillar, RemoveFromReport, Clean,
     vars, inputs, budget
<1>3. ASSUME file' = file, pc # "idle", pc' # "check", pc' = "saving" => after' # "none",
             report'.listed = report.listed, report'.def = report.def,
             report'.torn = report.torn
      PROVE  FreshInv'
  BY <1>2, <1>3, FreshFrame DEF FreshInv
<1>4. CASE Start
  <2>1. file' = file /\ pc' # "check" /\ (pc' = "saving" => after' # "none")
    BY <1>4 DEF Start, Exit, BeginSave
  <2>2. CASE report' = EmptyReport /\ pc' = "idle"
    BY <1>0, <1>2, <2>1, <2>2, FreshFrame, FreshParts DEF FreshInv
  <2>3. CASE report' = Associate(file)
    BY <1>0, <1>2, <2>1, <2>3, FreshFrame, FreshParts DEF FreshInv
  <2> QED BY <1>4, <2>2, <2>3 DEF Start, Exit
<1>5. CASE Save
  <2>1. /\ file' = report /\ pc = "saving"
        /\ \/ report' = report /\ pc' \in {"pick", "check"}
           \/ report' = EmptyReport /\ pc' = "idle"
    BY <1>5 DEF Save, Exit
  <2> QED BY <1>0, <1>2, <2>1, FreshFrame, FreshParts DEF FreshInv
<1>6. ASSUME NEW i \in Item, BeginItem(i) PROVE FreshInv'
  <2>1. /\ file' = file /\ pc = "pick" /\ pc' \in {"saving", "stage"}
        /\ pc' = "saving" => after' # "none"
        /\ \/ report' = [report EXCEPT !.progressed[i] = FALSE]
           \/ report' = [report EXCEPT !.progressed[i] = FALSE, !.failed[i] = {}]
    BY <1>6 DEF BeginItem, BeginSave
  <2>2. /\ report'.listed = report.listed /\ report'.def = report.def
        /\ report'.torn = report.torn
    BY <1>0, <2>1 DEF TypeOK, ReportType
  <2> QED BY <2>1, <2>2, <1>3
<1>7. CASE SkipStage
  <2>1. /\ file' = file /\ pc = "stage" /\ pc' \in {"pick", "stage"}
        /\ report'.listed = report.listed /\ report'.def = report.def
        /\ report'.torn = report.torn
    BY <1>0, <1>7 DEF SkipStage, Advance, TypeOK, ReportType
  <2> QED BY <2>1, <1>3
<1>8. CASE RunStage
  <2>1. /\ file' = file /\ pc = "stage" /\ pc' = "record"
        /\ report'.listed = report.listed /\ report'.def = report.def
        /\ report'.torn = report.torn
    BY <1>0, <1>8 DEF RunStage, TypeOK, ReportType
  <2> QED BY <2>1, <1>3
<1>9. CASE RaiseInStage
  <2>1. /\ file' = file /\ pc = "stage" /\ pc' = "saving" /\ after' # "none"
        /\ report'.listed = report.listed /\ report'.def = report.def
        /\ report'.torn = report.torn
    BY <1>0, <1>9 DEF RaiseInStage, BeginSave, TypeOK, ReportType
  <2> QED BY <2>1, <1>3
<1>10. CASE RecordStage
  <2>1. /\ file' = file /\ pc = "record" /\ pc' \in {"pick", "stage"}
        /\ report'.listed = report.listed /\ report'.def = report.def
        /\ report'.torn = report.torn
    BY <1>0, <1>10 DEF RecordStage, Advance, TypeOK, ReportType
  <2> QED BY <2>1, <1>3
<1>11. CASE EndPass
  BY <1>3, <1>11 DEF EndPass, BeginSave
<1>12. CASE NextPass
  BY <1>3, <1>12 DEF NextPass
<1>13. CASE Finish
  <2>1. /\ file' = file /\ pc = "check" /\ pc' = "idle"
        /\ report'.listed = report.listed /\ report'.def = report.def
        /\ report'.torn = report.torn
    BY <1>0, <1>13 DEF Finish, Exit, TypeOK, ReportType
  <2> QED BY <2>1, <1>3
<1>14. CASE Interrupt
  BY <1>3, <1>14 DEF Interrupt, BeginSave
<1>15. CASE Kill
  <2>1. report' = EmptyReport /\ pc' = "idle"
    BY <1>15 DEF Kill, Exit
  <2>2. Fresh(file)'
    <3>1. CASE \E lost : \E cut \in SUBSET (report.listed \ lost) :
                  LeftOf(report, file', lost, cut)
      <4>1. Fresh(file')
        BY <1>0, <3>1, FreshParts DEF FreshInv
      <4> QED BY <1>2, <4>1, FreshFrame
    <3>2. CASE file' = EmptyReport \/ file' = file
      BY <1>0, <1>2, <3>2, FreshFrame, FreshParts DEF FreshInv
    <3> QED BY <1>0, <1>15, <3>1, <3>2, KillLeaves
  <2>3. Fresh(report)'
    BY <1>0, <1>2, <2>1, FreshFrame, FreshParts
  <2> QED BY <1>2, <2>1, <2>2, <2>3 DEF FreshInv
<1>16. CASE UNCHANGED vars
  <2>1. file' = file /\ report' = report /\ pc' = pc /\ after' = after
    BY <1>16 DEF vars
  <2> QED BY <1>2, <2>1, FreshFrame DEF FreshInv
<1> QED BY <1>1, <1>4, <1>5, <1>6, <1>7, <1>8, <1>9, <1>10, <1>11, <1>12, <1>13, <1>14, <1>15, <1>16
        DEF Next, Work, Disturb, EditPillar, RemoveFromReport, Clean

\* When no item progressed in a pass, the verified items are the good ones, but
\* for the damaged, in memory and in the saved report.
LEMMA NothingLeft ==
    ASSUME IndInv, FreshInv, Finish
    PROVE  /\ VerifiedIn(report) \ Damaged = {i \in PillarItems : Meets(pillar, i)} \ Damaged
           /\ VerifiedIn(file) = VerifiedIn(report)
           /\ (\A i \in report.listed : report.lastResult[i])
                 <=> PillarItems \subseteq VerifiedIn(report)
<1>1. pc = "check" /\ \A i \in report.listed : ~report.progressed[i]
  BY DEF Finish
<1>2. Reached = report.listed /\ queue = {} /\ report.listed \subseteq Item /\ cur = NoItem
  BY <1>1, ItemAssumption DEF Reached, IndInv, PassInv, InPass, TypeOK, ReportType
<1>3. ~AnotherPass
  BY <1>1, <1>2, ItemAssumption DEF AnotherPass
<1>4. \A i \in report.listed :
          /\ report.lastResult[i] <=> Verified \in report.passed[i]
          /\ \/ Verified \in report.passed[i] \/ ~Meets(report.def, i)
             \/ i \in report.torn \/ RefersTo(report.def, i, report.torn)
  BY <1>1, <1>2, <1>3 DEF IndInv, PassInv, InPass
<1>5. /\ report.listed = PillarItems /\ file = report
      /\ Fresh(report) /\ ListedMeans(report) /\ StagesMean(report)
  BY <1>1 DEF FreshInv, IndInv
<1>6. ASSUME NEW i \in VerifiedIn(report) \ Damaged
      PROVE  i \in PillarItems /\ Meets(pillar, i)
  <2>1. i \in Item /\ Verified \in report.passed[i]
    BY <1>6 DEF VerifiedIn
  <2>2. i \in PillarItems
    BY <1>5, <2>1 DEF ListedMeans
  <2>3. i \notin outdated \cup report.torn /\ ~RefersTo(pillar, i, report.torn)
    BY <1>5, <1>6, <2>2 DEF Damaged
  <2>4. Meets(report.def, i)
    BY <1>5, <2>1, <2>3 DEF StagesMean
  <2> QED BY <1>5, <2>1, <2>2, <2>3, <2>4, FreshMeets
<1>7. ASSUME NEW i \in PillarItems \ Damaged, Meets(pillar, i)
      PROVE  i \in VerifiedIn(report)
  <2>1. i \notin report.torn /\ ~RefersTo(pillar, i, report.torn) /\ i \in Item
    BY <1>2, <1>5, <1>7 DEF Damaged
  <2>2. Meets(report.def, i) /\ ~RefersTo(report.def, i, report.torn)
    BY <1>5, <1>7, <2>1, FreshMeets
  <2> QED BY <1>4, <1>5, <2>1, <2>2 DEF VerifiedIn
<1>8. VerifiedIn(report) \ Damaged = {i \in PillarItems : Meets(pillar, i)} \ Damaged
  BY <1>6, <1>7
<1> QED BY <1>2, <1>4, <1>5, <1>8 DEF VerifiedIn

\* A kill saves nothing that the pillar does not confirm: an item that it leaves
\* undamaged was so before, or its entry has meanwhile been shown to be good.
LEMMA KillSaves ==
    ASSUME IndInv, IndInv', FreshInv, FreshInv', Kill,
           NEW lost, NEW cut \in SUBSET (report.listed \ lost), LeftOf(report, file', lost, cut),
           NEW i \in VerifiedIn(file'), i \notin Damaged'
    PROVE  /\ i \in VerifiedIn(report)
           /\ i \in PillarItems /\ Meets(pillar, i)
<1>1. /\ pillar' = pillar /\ tree' = tree /\ report.listed = PillarItems
      /\ i \in Item /\ Verified \in file'.passed[i]
  BY DEF Kill, FreshInv, VerifiedIn
<1>2. PillarItems' = PillarItems /\ Fresh(file')
  BY <1>1, FreshFrame DEF FreshInv
<1>3. /\ ListedMeans(file') /\ i \in file'.listed /\ i \in PillarItems
  BY <1>1, <1>2 DEF IndInv, ListedMeans, Fresh
<1>4. i \notin outdated' \cup file'.torn /\ ~RefersTo(pillar, i, file'.torn)
  <2>1. RefersTo(pillar, i, file.torn)' <=> RefersTo(pillar, i, file'.torn)
    BY <1>1 DEF RefersTo, References
  <2> QED BY <1>2, <1>3, <2>1 DEF Damaged
<1>5. Meets(file'.def, i)
  <2>1. Meets(file.def, i)' <=> Meets(file'.def, i)
    BY <1>1 DEF Meets, ArtifactMeets, PomMeets, References
  <2> QED BY <1>1, <1>4, <2>1 DEF IndInv, StagesMean
<1>6. Meets(pillar, i)
  BY <1>1, <1>2, <1>3, <1>4, <1>5, FreshMeets
<1>7. i \in VerifiedIn(report)
  BY <1>1, <1>4 DEF LeftOf, VerifiedIn
<1> QED BY <1>3, <1>6, <1>7

\* Every step maps to a step of ReportVerdict or to a stutter.
LEMMA StepImplements ==
    ASSUME MaxEdits = 0, IndInv, FreshInv, [Next]_vars, IndInv', FreshInv'
    PROVE  [Abstract!Next]_(Abstract!vars)
<1> DEFINE items == PillarItems
           good == {i \in PillarItems : Meets(pillar, i)}
           damaged == Damaged
           verified == VerifiedIn(report) \ Damaged
           saved == VerifiedIn(file) \ Damaged
           result == IF pc # "idle" THEN "running"
                     ELSE IF outcome \in {"none", "succeeded", "failed"} THEN outcome
                     ELSE "aborted"
<1>0. TypeOK /\ TypeOK'
  BY DEF IndInv
<1>1. ~Between
  BY DEF Between, FreshInv
<1>2. pillar' = pillar /\ tree' = tree
  BY <1>1 DEF Next, Work, Disturb, Start, Save, BeginItem, SkipStage, RunStage, RaiseInStage,
     RecordStage, EndPass, NextPass, Finish, Interrupt, Kill, EditPillar, RemoveFromReport, Clean,
     vars, inputs, budget
<1>3. /\ items' = items /\ good' = good /\ damaged \subseteq items /\ damaged' \subseteq items
      /\ file'.torn = file.torn /\ outdated' = outdated => damaged' = damaged
  <2>1. PillarItems \subseteq Item
    BY DEF PillarItems, Item
  <2>2. PillarItems' = PillarItems /\ \A i \in Item : Meets(pillar, i)' <=> Meets(pillar, i)
    BY <1>2, FreshFrame
  <2>3. Damaged \subseteq PillarItems /\ Damaged' \subseteq PillarItems
    BY <2>2 DEF Damaged
  <2>4. ASSUME file'.torn = file.torn, outdated' = outdated PROVE Damaged' = Damaged
    <3>1. \A i \in Item : RefersTo(pillar, i, file.torn)' <=> RefersTo(pillar, i, file.torn)
      BY <1>2, <2>4 DEF RefersTo, References
    <3> QED BY <2>1, <2>2, <2>4, <3>1 DEF Damaged
  <2> QED BY <2>1, <2>2, <2>3, <2>4
<1>4. VerifiedIn(EmptyReport) = {}
  BY DEF VerifiedIn, EmptyReport
<1> HIDE DEF items, good, damaged, verified, saved, result
<1>5. ASSUME damaged' = damaged, verified' = verified, saved' = saved, result' = result
      PROVE  UNCHANGED Abstract!vars
  BY <1>3, <1>5 DEF Abstract!vars, items, good, damaged, verified, saved, result
<1>6. ASSUME result' = "aborted", verified' = {},
             \/ saved' = saved /\ damaged' = damaged
             \/ saved' \subseteq verified \cup (damaged \cap good)
      PROVE  Abstract!Next
  BY <1>3, <1>6 DEF Abstract!Next, Abstract!Abort, items, good, damaged, verified, saved, result
<1>7. ASSUME pc # "idle", pc' # "idle", file' = file, outdated' = outdated,
             report'.passed = report.passed
      PROVE  UNCHANGED Abstract!vars
  <2>1. damaged' = damaged
    BY <1>3, <1>7
  <2>2. verified' = verified /\ saved' = saved /\ result' = result
    BY <1>7, <2>1 DEF damaged, verified, saved, result, VerifiedIn
  <2> QED BY <2>1, <2>2, <1>5
<1>8. CASE Start
  <2>1. pc = "idle" /\ file' = file /\ damaged' = damaged
    BY <1>3, <1>8 DEF Start
  <2>2. CASE report' = EmptyReport /\ pc' = "idle" /\ outcome' = "raised"
    <3>1. result' = "aborted" /\ verified' = {} /\ saved' = saved
      BY <2>1, <2>2, <1>4 DEF result, damaged, verified, saved, VerifiedIn
    <3> QED BY <2>1, <3>1, <1>6
  <2>3. CASE report' = Associate(file) /\ pc' = "saving"
    <3>1. Associate(file).passed = file.passed
      BY <1>0 DEF Associate, TypeOK, ReportType
    <3>2. result # "running" /\ result' = "running" /\ verified' = saved /\ saved' = saved
      BY <2>1, <2>3, <3>1 DEF result, damaged, verified, saved, VerifiedIn
    <3>3. Abstract!Begin
      BY <2>1, <3>2, <1>3 DEF Abstract!Begin, items, good, damaged, verified, saved, result
    <3> QED BY <3>3 DEF Abstract!Next
  <2> QED BY <1>8, <2>2, <2>3 DEF Start, Exit, BeginSave
<1>9. CASE Save
  <2>1. file' = report /\ pc = "saving" /\ damaged' = damaged
    BY <1>3, <1>9 DEF Save, FreshInv
  <2>2. saved' = verified
    BY <2>1 DEF saved, verified, damaged, VerifiedIn
  <2>3. CASE after \in {"pass", "check"}
    <3>1. report' = report /\ pc' # "idle"
      BY <1>9, <2>3 DEF Save
    <3>2. verified' = verified /\ result = "running" /\ result' = "running"
      BY <2>1, <3>1 DEF damaged, verified, VerifiedIn, result
    <3>3. Abstract!Persist
      BY <2>1, <2>2, <3>2, <1>3 DEF Abstract!Persist, items, good, damaged, verified, saved, result
    <3> QED BY <3>3 DEF Abstract!Next
  <2>4. CASE after \notin {"pass", "check"}
    <3>1. report' = EmptyReport /\ pc' = "idle" /\ outcome' = after
      BY <1>9, <2>4 DEF Save, Exit
    <3>2. after # "none"
      BY <2>1 DEF FreshInv
    <3>3. result' = "aborted" /\ verified' = {}
      BY <1>0, <1>4, <3>1, <3>2, <2>4 DEF result, verified, VerifiedIn, TypeOK
    <3> QED BY <2>2, <3>3, <1>6
  <2> QED BY <2>3, <2>4
<1>10. ASSUME NEW i \in Item, BeginItem(i) PROVE UNCHANGED Abstract!vars
  <2>1. /\ file' = file /\ outdated' = outdated /\ pc = "pick" /\ pc' \in {"saving", "stage"}
        /\ \/ report' = [report EXCEPT !.progressed[i] = FALSE]
           \/ report' = [report EXCEPT !.progressed[i] = FALSE, !.failed[i] = {}]
    BY <1>10 DEF BeginItem, BeginSave
  <2>2. report'.passed = report.passed
    BY <1>0, <2>1 DEF TypeOK, ReportType
  <2> QED BY <2>1, <2>2, <1>7
<1>11. CASE SkipStage
  BY <1>0, <1>7, <1>11 DEF SkipStage, Advance, TypeOK, ReportType
<1>12. CASE RunStage
  BY <1>0, <1>7, <1>12 DEF RunStage, TypeOK, ReportType
<1>13. CASE RaiseInStage
  BY <1>0, <1>7, <1>13 DEF RaiseInStage, BeginSave, TypeOK, ReportType
<1>14. CASE RecordStage
  <2> DEFINE ok == report.failed[cur] = {}
  <2>1. /\ file' = file /\ outdated' = outdated /\ pc = "record" /\ pc' # "idle" /\ cur \in Item
        /\ report'.passed = [report.passed EXCEPT ![cur] = IF ok THEN @ \cup {stage} ELSE @]
    BY <1>0, <1>14 DEF RecordStage, Advance, TypeOK, ReportType
  <2>2. saved' = saved /\ damaged' = damaged /\ result = "running" /\ result' = "running"
    BY <1>3, <2>1 DEF saved, damaged, result, VerifiedIn
  <2>3. CASE ok /\ stage = Verified /\ cur \notin damaged
    <3>1. verified' = verified \cup {cur}
      <4>1. VerifiedIn(report)' = VerifiedIn(report) \cup {cur}
        BY <1>0, <2>1, <2>3 DEF VerifiedIn, TypeOK, ReportType
      <4> QED BY <2>2, <2>3, <4>1 DEF verified, damaged
    <3>2. cur \in good /\ cur \in items
      <4>1. /\ cur \in report.listed /\ {} \in Outcomes(cur, stage)
            /\ report.listed = PillarItems /\ report.torn = file.torn
            /\ Fresh(report) /\ ListedMeans(report)
        BY <2>1, <2>3 DEF IndInv, ItemInv, FreshInv
      <4>2. cur \notin report.torn /\ ~RefersTo(pillar, cur, report.torn)
        BY <2>3, <4>1 DEF damaged, Damaged
      <4>3. Meets(report.def, cur)
        BY <2>1, <2>3, <4>1, <4>2, SoundStage DEF Outcomes
      <4>4. Meets(pillar, cur)
        BY <2>1, <4>1, <4>2, <4>3, FreshMeets
      <4> QED BY <4>1, <4>4 DEF good, items
    <3>3. Abstract!Verify(cur)
      BY <2>2, <3>1, <3>2, <1>3
         DEF Abstract!Verify, items, good, damaged, verified, saved, result
    <3> QED BY <3>2, <3>3 DEF Abstract!Next, items
  <2>4. CASE ~(ok /\ stage = Verified /\ cur \notin damaged)
    <3>1. verified' = verified
      <4>1. \A i \in Item \ Damaged : Verified \in report'.passed[i] <=> Verified \in report.passed[i]
        BY <1>0, <2>1, <2>4 DEF damaged, TypeOK, ReportType, Stage, Verified
      <4> QED BY <2>2, <4>1 DEF verified, damaged, VerifiedIn
    <3> QED BY <2>2, <3>1, <1>5
  <2> QED BY <2>3, <2>4
<1>15. CASE EndPass
  BY <1>7, <1>15 DEF EndPass, BeginSave
<1>16. CASE NextPass
  BY <1>7, <1>16 DEF NextPass
<1>17. CASE Finish
  <2> DEFINE all == \A i \in report.listed : report.lastResult[i]
  <2>1. /\ file' = file /\ outdated' = outdated /\ pc = "check" /\ pc' = "idle"
        /\ outcome' = IF all THEN "succeeded" ELSE "failed"
        /\ report'.passed = report.passed
    BY <1>0, <1>17 DEF Finish, Exit, TypeOK, ReportType
  <2>2. damaged' = damaged
    BY <1>3, <2>1
  <2>3. /\ verified = good \ damaged /\ saved = verified
        /\ all => items \ damaged \subseteq good
        /\ ~all => damaged # {} \/ good # items
    <3>1. /\ VerifiedIn(report) \ Damaged = {i \in PillarItems : Meets(pillar, i)} \ Damaged
          /\ VerifiedIn(file) = VerifiedIn(report)
          /\ all <=> PillarItems \subseteq VerifiedIn(report)
      BY <1>17, NothingLeft
    <3> HIDE DEF all
    <3> QED BY <3>1 DEF damaged, verified, saved, good, items
  <2>4. /\ verified' = verified /\ saved' = saved /\ result = "running"
        /\ result' = IF all THEN "succeeded" ELSE "failed"
    BY <2>1, <2>2 DEF damaged, verified, saved, result, VerifiedIn
  <2> HIDE DEF all
  <2>5. Abstract!Conclude
    BY <2>2, <2>3, <2>4, <1>3 DEF Abstract!Conclude, items, good, damaged, verified, saved, result
  <2> QED BY <2>5 DEF Abstract!Next
<1>18. CASE Interrupt
  BY <1>7, <1>18 DEF Interrupt, BeginSave
<1>19. CASE Kill
  <2>1. /\ report' = EmptyReport /\ pc' = "idle" /\ outcome' = "killed"
    BY <1>19 DEF Kill, Exit
  <2>2. result' = "aborted" /\ verified' = {}
    BY <1>4, <2>1 DEF result, verified, VerifiedIn
  <2>3. CASE file' = EmptyReport
    <3>1. saved' = {}
      BY <1>4, <2>3 DEF saved, VerifiedIn
    <3> QED BY <2>2, <3>1, <1>6
  <2>4. CASE file' = file /\ outdated' = outdated
    <3>1. damaged' = damaged
      BY <1>3, <2>4
    <3>2. saved' = saved
      BY <2>4, <3>1 DEF saved, damaged, VerifiedIn
    <3> QED BY <2>2, <3>1, <3>2, <1>6
  <2>5. ASSUME NEW lost, NEW cut \in SUBSET (report.listed \ lost),
               LeftOf(report, file', lost, cut)
        PROVE  Abstract!Next
    <3>1. ASSUME NEW i \in VerifiedIn(file'), i \notin Damaged'
          PROVE  i \in VerifiedIn(report) /\ i \in PillarItems /\ Meets(pillar, i)
      BY <1>19, <2>5, <3>1, KillSaves
    <3>2. saved' \subseteq verified \cup (damaged \cap good)
      BY <3>1 DEF saved, verified, damaged, good, VerifiedIn
    <3> QED BY <2>2, <3>2, <1>6
  <2> QED BY <1>0, <1>19, <2>3, <2>4, <2>5, KillLeaves
<1>20. CASE UNCHANGED vars
  <2>1. /\ file' = file /\ outdated' = outdated /\ report' = report /\ pc' = pc
        /\ outcome' = outcome
    BY <1>20 DEF vars
  <2>2. damaged' = damaged
    BY <1>3, <2>1
  <2>3. verified' = verified /\ saved' = saved /\ result' = result
    BY <2>1, <2>2 DEF damaged, verified, saved, result, VerifiedIn
  <2> QED BY <2>2, <2>3, <1>5
<1> QED BY <1>1, <1>8, <1>9, <1>10, <1>11, <1>12, <1>13, <1>14, <1>15, <1>16, <1>17, <1>18, <1>19,
           <1>20 DEF Next, Work, Disturb, EditPillar, RemoveFromReport, Clean

\* As long as nobody edits the pillar or the report, what a reader of the report
\* sees of any number of runs, cut short anywhere, is a ReportVerdict.
THEOREM ReportRefinesVerdict ==
    ASSUME MaxEdits = 0
    PROVE  Spec => ImplementsVerdict
<1>1. Init => FreshInv
  <2> SUFFICES ASSUME Init PROVE FreshInv
    OBVIOUS
  <2> QED BY TypeInit, FreshParts DEF Init, FreshInv
<1>2. Init => Abstract!Init
  BY DEF Init, Abstract!Init, VerifiedIn, EmptyReport, Damaged, RefersTo, References
<1>3. IndInv /\ FreshInv /\ [Next]_vars => FreshInv'
  BY FreshStep
<1>4. IndInv /\ FreshInv /\ [Next]_vars /\ IndInv' /\ FreshInv' => [Abstract!Next]_(Abstract!vars)
  BY StepImplements
<1> QED BY <1>1, <1>2, <1>3, <1>4, Inductive, PTL DEF Spec, ImplementsVerdict, Abstract!Spec

================================================================================
