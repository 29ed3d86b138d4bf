--------------------------- MODULE RunHighstate ---------------------------
(***************************************************************************)
(* The job run_salt_highstate of the deploy pipeline: submit the highstate *)
(* to all minions, wait until check_running_jobs.sh finds nothing running, *)
(* look up what the minions have returned and check it.                    *)
(*                                                                         *)
(* Minions work on their own, other jobs run on them, and every message    *)
(* between them and the Salt master can be late or lost: the job may be    *)
(* over before a minion has begun, and a minion that does not answer in    *)
(* time counts as one where nothing runs.                                  *)
(***************************************************************************)
EXTENDS SaltOutput, SequencesExt

CONSTANTS
    Minions,
    Returns,        \* the values (nodes) a minion's highstate can return
    Refusal,        \* the value returned when another job runs states: text
    MaxOthers,      \* bound on jobs of others
    MaxFaults       \* bound on messages lost or late

ASSUME MinionsAssumption ==
    /\ IsFiniteSet(Minions) /\ Minions # {}
    /\ Returns \subseteq Nodes /\ Refusal \in Nodes
    /\ MaxOthers \in Nat /\ MaxFaults \in Nat

VARIABLES
    step,       \* of the job, "passed" or "failed" in the end
    unasked,    \* minions check_running_jobs.sh has yet to hear of
    busy,       \* it has heard of a job
    output,     \* salt.output.json
    highstate,  \* [Minions -> how far the highstate is]
    value,      \* [Minions -> what it returned, or 0]
    other,      \* minions that run a job of others
    others, faults,
    excused     \* history variable: minions the wait could not know about

jobVars == <<step, unasked, busy, output, excused>>
minionVars == <<highstate, value, other, others>>
vars == <<jobVars, minionVars, faults>>

-----------------------------------------------------------------------------
(* The job *)

\* salt --async: it prints a job id, or the job fails at once.
Submit ==
    /\ step = "submit"
    /\ \/ /\ step' = "wait"
          /\ highstate' = [m \in Minions |-> "published"]
       \/ /\ step' = "failed"
          /\ UNCHANGED highstate
    /\ UNCHANGED <<unasked, busy, output, value, other, others, faults, excused>>

Runs(m) == highstate[m] = "running" \/ m \in other

\* Mutant of Ask: the last answer counts.
AskLast(m) ==
    /\ step = "wait" /\ m \in unasked
    /\ unasked' = unasked \ {m}
    /\ busy' = Runs(m)
    /\ excused' = IF highstate[m] = "published" THEN excused \cup {m} ELSE excused
    /\ UNCHANGED <<step, output, minionVars, faults>>

\* salt '*' saltutil.running, answered by one minion after another.
Ask(m) ==
    /\ step = "wait" /\ m \in unasked
    /\ unasked' = unasked \ {m}
    /\ busy' = (busy \/ Runs(m))
    /\ excused' = IF highstate[m] = "published" THEN excused \cup {m} ELSE excused
    /\ UNCHANGED <<step, output, minionVars, faults>>

\* No answer within the timeout: nothing is printed of the minion.
NoAnswer(m) ==
    /\ step = "wait" /\ m \in unasked
    /\ faults < MaxFaults /\ faults' = faults + 1
    /\ unasked' = unasked \ {m}
    /\ excused' = excused \cup {m}
    /\ UNCHANGED <<step, busy, output, minionVars>>

\* Mutant of WaitOn: what was found once is not forgotten.
WaitOnForEver ==
    /\ step = "wait" /\ unasked = {}
    /\ unasked' = Minions
    /\ excused' = {}
    /\ IF busy THEN UNCHANGED step ELSE step' = "lookup"
    /\ UNCHANGED <<busy, output, minionVars, faults>>

\* grep '"jid":' of all answers, while something runs.
WaitOn ==
    /\ step = "wait" /\ unasked = {}
    /\ IF busy
       THEN unasked' = Minions /\ busy' = FALSE /\ excused' = {} /\ UNCHANGED step
       ELSE step' = "lookup" /\ UNCHANGED <<unasked, busy, excused>>
    /\ UNCHANGED <<output, minionVars, faults>>

Returned == {m \in Minions : highstate[m] = "returned"}

\* One object with a key for every minion that has returned, or one for each
\* as other commands print it, and possibly lines around them.
OneObject(seq) ==
    IF seq = <<>> THEN <<Plain("empty")>>
    ELSE <<Plain("open")>> \o [i \in 1 .. Len(seq) |-> Value(value[seq[i]])] \o <<Plain("close")>>

ObjectEach(seq) ==
    [i \in 1 .. 4 * Len(seq) |->
        IF i % 4 = 2 THEN Value(value[seq[i \div 4 + 1]])
        ELSE Plain(IF i % 4 = 1 THEN "open" ELSE IF i % 4 = 3 THEN "close" ELSE "plain")]

\* salt-run jobs.lookup_jid | tee: when salt-run fails, so does the job (pipefail),
\* and what tee has written is never checked.
LookUp ==
    /\ step = "lookup"
    /\ \/ /\ LET seq == SetToSeq(Returned)
             IN  output' \in {OneObject(seq), <<Plain("plain")>> \o OneObject(seq),
                              ObjectEach(seq)}
          /\ step' = "check"
       \/ step' = "failed" /\ UNCHANGED output
    /\ UNCHANGED <<unasked, busy, minionVars, faults, excused>>

Check ==
    /\ step = "check"
    /\ step' = IF check_output_data(output) THEN "passed" ELSE "failed"
    /\ UNCHANGED <<unasked, busy, output, minionVars, faults, excused>>

-----------------------------------------------------------------------------
(* The minions *)

\* Mutant of Begin: a refusal is not returned.
BeginOrSkip(m) ==
    /\ highstate[m] = "published"
    /\ highstate' = [highstate EXCEPT ![m] = IF m \in other THEN "skipped" ELSE "running"]
    /\ UNCHANGED <<jobVars, value, other, others, faults>>

\* A minion refuses to run states while another job runs some.
Begin(m) ==
    /\ highstate[m] = "published"
    /\ highstate' = [highstate EXCEPT ![m] = IF m \in other THEN "returning" ELSE "running"]
    /\ value' = [value EXCEPT ![m] = IF m \in other THEN Refusal ELSE @]
    /\ UNCHANGED <<jobVars, other, others, faults>>

Finish(m) ==
    /\ highstate[m] = "running"
    /\ \E v \in Returns : value' = [value EXCEPT ![m] = v]
    /\ highstate' = [highstate EXCEPT ![m] = "returning"]
    /\ UNCHANGED <<jobVars, other, others, faults>>

Deliver(m) ==
    /\ highstate[m] = "returning"
    /\ highstate' = [highstate EXCEPT ![m] = "returned"]
    /\ UNCHANGED <<jobVars, value, other, others, faults>>

\* The minion is not connected when the job is published, is restarted by its
\* own highstate, or its return is lost.
Lose(m) ==
    /\ highstate[m] \in {"published", "running", "returning"}
    /\ faults < MaxFaults /\ faults' = faults + 1
    /\ highstate' = [highstate EXCEPT ![m] = "lost"]
    /\ UNCHANGED <<jobVars, value, other, others>>

BeginOther(m) ==
    /\ m \notin other /\ highstate[m] # "running"
    /\ others < MaxOthers /\ others' = others + 1
    /\ other' = other \cup {m}
    /\ UNCHANGED <<jobVars, highstate, value, faults>>

EndOther(m) ==
    /\ m \in other
    /\ other' = other \ {m}
    /\ UNCHANGED <<jobVars, highstate, value, others, faults>>

-----------------------------------------------------------------------------
Init ==
    /\ step = "submit" /\ unasked = Minions /\ busy = FALSE /\ output = <<>>
    /\ highstate = [m \in Minions |-> "none"] /\ value = [m \in Minions |-> 0]
    /\ other = {} /\ others = 0 /\ faults = 0 /\ excused = {}

Wait == Submit \/ WaitOn \/ LookUp \/ \E m \in Minions : Ask(m)

MinionStep(m) == Begin(m) \/ Finish(m) \/ Deliver(m) \/ EndOther(m)

Next ==
    \/ Wait \/ Check
    \/ \E m \in Minions : MinionStep(m) \/ NoAnswer(m) \/ Lose(m) \/ BeginOther(m)

Spec == Init /\ [][Next]_vars

\* The job runs by itself, and so does every minion.
FairSpec == Spec /\ WF_vars(Wait) /\ \A m \in Minions : WF_vars(MinionStep(m))

-----------------------------------------------------------------------------
(* Properties *)

\* Type invariant.
TypeOK ==
    /\ step \in {"submit", "wait", "lookup", "check", "passed", "failed"}
    /\ unasked \subseteq Minions /\ busy \in BOOLEAN
    /\ output \in Seq(Line)
    /\ highstate \in [Minions -> {"none", "published", "running", "returning",
                                  "returned", "lost"}]
    /\ value \in [Minions -> Nodes \cup {0}]
    /\ other \subseteq Minions /\ excused \subseteq Minions
    /\ others \in 0 .. MaxOthers /\ faults \in 0 .. MaxFaults

\* The job passes iff every result in the output succeeded, at whatever depth
\* and in however many objects it is printed, and there are enough of them.
VerdictMatchesReference ==
    output # <<>> /\ step \in {"passed", "failed"} =>
        LET printed == {i \in 1 .. Len(output) : output[i].node # 0}
            results == {r \in printed \X Nodes : r[2] \in ResultsIn[output[r[1]].node]}
        IN  step = "passed" <=> /\ Cardinality(results) >= MinCount
                                /\ \A r \in results : Succeeds(r[2])

\* The wait is for every minion that has begun when it is asked, and answers:
\* its highstate does not run any more when the returns are looked up.
WaitsForRunning ==
    step \in {"lookup", "check", "passed"} =>
        \A m \in Minions \ excused : highstate[m] # "running"

\* The job does not wait for ever, whatever is lost.
WaitEnds == <>(step \in {"check", "failed"})

=============================================================================
