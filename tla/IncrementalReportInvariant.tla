---------------------- MODULE IncrementalReportInvariant -----------------------
(***************************************************************************)
(* The inductive invariant behind the theorems of IncrementalReportProofs: *)
(* why a verdict, given after any history of shuffles, retries, crashes    *)
(* and refreshed entries, is about the definitions in the report.          *)
(***************************************************************************)
EXTENDS IncrementalReport

\* A pass over the items has begun and its end was not evaluated yet.
InPass == pc \in {"pick", "stage", "record", "check"} \/ (pc = "saving" /\ after = "check")

\* Items this pass is done with.
Reached == report.listed \ (queue \cup {cur})

\* An item whose next processing passes stage inited.
Hopeful(i) ==
    /\ i \notin report.torn
    /\ Inited \notin report.passed[i]
    /\ i \in Artifact => report.def[i].shape = "valid"

\* This pass made progress, or is about to: there will be another one.
AnotherPass ==
    \E j \in report.listed :
        \/ j \notin queue /\ report.progressed[j]
        \/ j \in queue \cup {cur} /\ Hopeful(j)

\* What is_<stage> = True says of an item, in memory or in the saved report.  Of
\* an entry cut short it says little, but its last stage covers the others.
StagesMean(r) ==
    /\ \A i \in Item : \A s \in r.passed[i] :
          i \notin r.torn \/ s = Verified => 1..s \subseteq r.passed[i]
    /\ \A i \in Item : Verified \in r.passed[i] => r.failed[i] = {}
    /\ \A a \in Artifact : Inited \in r.passed[a] => r.def[a].shape = "valid"
    /\ \A a \in Artifact \ r.torn : Loaded \in r.passed[a] /\ r.def[a].used /\ r.def[a].pom # NoPom
                               => tree[r.def[a].pom].status = "tracked"
    /\ \A p \in Pom \ r.torn : Transferred \in r.passed[p] => tree[p].status # "untracked"
    /\ \A i \in Item \ (outdated \cup r.torn) : Verified \in r.passed[i] => Meets(r.def, i)

\* Only listed items have data, and only real pom files are listed.
ListedMeans(r) ==
    /\ \A a \in Artifact \ r.listed : r.def[a].shape = "absent"
    /\ \A i \in Item \ r.listed : r.passed[i] = {}
    /\ \A p \in Pom \cap r.listed : tree[p].status \notin {"absent", "directory"}

\* The running process has associated its report with all the pom files.
RunInv ==
    pc # "idle" =>
        /\ outcome = "none"
        /\ \A p \in Pom : tree[p].status # "absent" => p \in report.listed
        /\ \A i \in Item : file.passed[i] \subseteq report.passed[i]

\* The item being processed had its failed step logs cleared, passed every stage
\* before the current one, and logged what this stage logs and nothing else.
ItemInv ==
    /\ pc \in {"stage", "record"} =>
           /\ cur \in report.listed \ queue
           /\ 1..(stage - 1) \subseteq report.passed[cur]
    /\ pc = "stage" => report.failed[cur] = {}
    /\ pc = "record" =>
           /\ stage \notin report.passed[cur]
           /\ report.failed[cur] \in Outcomes(cur, stage)

\* An item the pass is done with is verified, or does not meet its definitions,
\* or failed for the sake of an item that the pass has yet to get further, or of
\* an entry that is incomplete.
PassInv ==
    InPass =>
        /\ queue \subseteq report.listed
        /\ pc = "check" \/ pc = "saving" => queue = {}
        /\ \A i \in Reached :
              /\ ~Hopeful(i)
              /\ report.lastResult[i] <=> Verified \in report.passed[i]
              /\ \/ Verified \in report.passed[i] \/ ~Meets(report.def, i) \/ AnotherPass
                 \/ i \in report.torn \/ RefersTo(report.def, i, report.torn)

IndInv ==
    /\ TypeOK
    /\ StagesMean(report) /\ StagesMean(file)
    /\ ListedMeans(report) /\ ListedMeans(file)
    /\ RunInv
    /\ ItemInv
    /\ PassInv
    /\ VerdictMatchesReference
--------------------------------------------------------------------------------
(* Why every repeated pass has made progress *)

\* The saved report has the stages the items had when the pass began: those not
\* reached have them still, and those that progressed have more.
PassLog ==
    /\ pc \in {"pick", "stage", "record"} =>
           /\ \A i \in queue : report.passed[i] = file.passed[i]
           /\ \A i \in report.listed \ queue :
                 report.progressed[i] => report.passed[i] # file.passed[i]
    /\ pc = "check" => file.passed = report.passed
--------------------------------------------------------------------------------
(* Why the assertion of process_all_stages holds if no run is cut short *)

\* A failed step log goes with a failed last stage, and only an item that passed
\* a stage has a successful one.
FailedMeans(r, i) ==
    /\ r.failed[i] # {} => ~r.lastResult[i]
    /\ r.lastResult[i] => Inited \in r.passed[i]

\* The item whose stage was run and not recorded is the exception; it is not
\* saved in that state unless the run is interrupted.
AssertInv ==
    /\ \A i \in Item : FailedMeans(file, i)
    /\ \A i \in Item : (pc = "record" => i # cur) => FailedMeans(report, i)
    /\ file.torn = {} /\ report.torn = {}
    /\ AssertionHolds
--------------------------------------------------------------------------------
(* Why runs implement ReportVerdict as long as nothing is edited *)

\* The entries of a report are those of the pillar and the repositories.
Fresh(r) ==
    /\ r.listed \subseteq PillarItems
    /\ \A a \in (Artifact \cap r.listed) \ r.torn : r.def[a] = pillar[a]

FreshInv ==
    /\ edits = 0
    /\ Fresh(file) /\ Fresh(report)
    /\ pc # "idle" => report.listed = PillarItems /\ report.torn = file.torn
    /\ pc = "check" => file = report
    /\ pc = "saving" => after # "none"
--------------------------------------------------------------------------------
(* Why no reference is missed when nothing was removed from the report *)

\* The references of some items are in the counters of a report.
CountedIn(r, poms, referrers) ==
    \A j \in Item : Cardinality(ReferencesOf(r.def, poms, referrers, j)) <= r.refs[j]

\* The item whose last stage was run without a failure and not recorded yet.
AboutToVerify ==
    IF pc = "record" /\ stage = Verified /\ report.failed[cur] = {} THEN {cur} ELSE {}

\* The references of the verified items are counted, in the report of the first
\* run or as long as no entry was removed or lost.
CountInv ==
    /\ runs = 0 => pc = "idle" /\ file = EmptyReport /\ report = EmptyReport
    /\ edits + kills = 0 => file.torn = {} /\ CountedIn(file, tree, VerifiedIn(file))
    /\ Untouched => /\ report.torn = {}
                    /\ CountedIn(report, tree, VerifiedIn(report) \cup AboutToVerify)
================================================================================
