------------------------- MODULE RunHighstateProofs -------------------------
(***************************************************************************)
(* Proofs about the job run_salt_highstate, for every set of minions and   *)
(* returns and whatever messages are lost: what it prints is made of lines *)
(* of an output, it waits for every highstate that it can know of, and it  *)
(* passes iff all results succeeded and there are enough of them.          *)
(***************************************************************************)
EXTENDS RunHighstate, SaltOutputProofs

-----------------------------------------------------------------------------
(* Types *)

\* The elements of a finite set can be listed: SetToSeq has what it chooses from.
LEMMA SetToSeqType ==
    ASSUME NEW S, IsFiniteSet(S)
    PROVE  SetToSeq(S) \in Seq(S)
<1>1. Cardinality(S) \in Nat /\ ExistsBijection(1 .. Cardinality(S), S)
    BY FS_CardinalityType
<1>2. PICK f \in [1 .. Cardinality(S) -> S] : IsInjective(f)
    BY <1>1 DEF ExistsBijection, Bijection, Injection, IsInjective
<1>3. SetToSeq(S) \in [1 .. Cardinality(S) -> S]
    BY <1>2 DEF SetToSeq
<1> QED
    BY <1>1, <1>3

\* One line is an output, and an output goes on with another.
LEMMA SingletonType ==
    ASSUME NEW S, NEW x \in S
    PROVE  <<x>> \in Seq(S)
OBVIOUS

LEMMA ConcatType ==
    ASSUME NEW S, NEW s \in Seq(S), NEW t \in Seq(S)
    PROVE  s \o t \in Seq(S)
OBVIOUS

\* Every line that a command prints of the returns is a line.
LEMMA OutputType ==
    ASSUME TypeOK, NEW seq \in Seq(Minions)
    PROVE  OneObject(seq) \in Seq(Line) /\ ObjectEach(seq) \in Seq(Line)
<1>1. /\ Plain("open") \in Line /\ Plain("close") \in Line
      /\ Plain("empty") \in Line /\ Plain("plain") \in Line
    BY DEF Plain, Line
<1>2. ASSUME NEW i \in 1 .. Len(seq)
      PROVE  Value(value[seq[i]]) \in Line
    <2>1. seq[i] \in Minions
        OBVIOUS
    <2>2. value[seq[i]] \in Nodes \cup {0}
        BY <2>1 DEF TypeOK
    <2> QED
        BY <2>2 DEF Value, Line
<1>3. OneObject(seq) \in Seq(Line)
    <2>1. [i \in 1 .. Len(seq) |-> Value(value[seq[i]])] \in Seq(Line)
        <3>1. [i \in 1 .. Len(seq) |-> Value(value[seq[i]])] \in [1 .. Len(seq) -> Line]
            BY <1>2
        <3>2. Len(seq) \in Nat
            OBVIOUS
        <3> QED
            BY <3>1, <3>2
    <2>2. /\ <<Plain("empty")>> \in Seq(Line)
          /\ <<Plain("open")>> \in Seq(Line)
          /\ <<Plain("close")>> \in Seq(Line)
        BY <1>1, SingletonType
    <2> QED
        BY <2>1, <2>2, ConcatType DEF OneObject
<1>4. ObjectEach(seq) \in Seq(Line)
    <2>1. 4 * Len(seq) \in Nat
        OBVIOUS
    <2>2. ASSUME NEW i \in 1 .. 4 * Len(seq), i % 4 = 2
          PROVE  i \div 4 + 1 \in 1 .. Len(seq)
        BY <2>2
    <2>3. ASSUME NEW i \in 1 .. 4 * Len(seq)
          PROVE  ObjectEach(seq)[i] \in Line
        <3>1. CASE i % 4 = 2
            <4>1. ObjectEach(seq)[i] = Value(value[seq[i \div 4 + 1]])
                BY <3>1 DEF ObjectEach
            <4> QED
                BY <1>2, <2>2, <3>1, <4>1
        <3>2. CASE i % 4 # 2
            BY <3>2 DEF ObjectEach, Plain, Line
        <3> QED
            BY <3>1, <3>2
    <2>4. ObjectEach(seq) \in [1 .. 4 * Len(seq) -> Line]
        BY <2>3 DEF ObjectEach
    <2> QED
        BY <2>1, <2>4
<1> QED
    BY <1>3, <1>4

LEMMA ReturnedListed == SetToSeq(Returned) \in Seq(Minions)
<1>1. IsFiniteSet(Returned) /\ Returned \subseteq Minions
    BY MinionsAssumption, FS_Subset DEF Returned
<1>2. SetToSeq(Returned) \in Seq(Returned)
    BY <1>1, SetToSeqType
<1> QED
    BY <1>1, <1>2

LEMMA LookUpTyped == ASSUME TypeOK, LookUp PROVE TypeOK'
<1> DEFINE seq == SetToSeq(Returned)
<1>1. seq \in Seq(Minions)
    BY ReturnedListed
<1> HIDE DEF seq
<1>2. <<Plain("plain")>> \in Seq(Line)
    BY DEF Plain, Line
<1>3. output' \in Seq(Line)
    <2>1. \/ output' \in {OneObject(seq), <<Plain("plain")>> \o OneObject(seq), ObjectEach(seq)}
          \/ output' = output
        BY DEF LookUp, seq
    <2>2. /\ OneObject(seq) \in Seq(Line)
          /\ ObjectEach(seq) \in Seq(Line)
          /\ <<Plain("plain")>> \o OneObject(seq) \in Seq(Line)
        BY <1>1, <1>2, OutputType
    <2> QED
        BY <2>1, <2>2 DEF TypeOK
<1> QED
    BY <1>3 DEF LookUp, TypeOK, minionVars

LEMMA NextTyped == TypeOK /\ [Next]_vars => TypeOK'
<1> SUFFICES ASSUME TypeOK, [Next]_vars
             PROVE  TypeOK'
    OBVIOUS
<1> USE MinionsAssumption
<1>1. CASE Submit
    BY <1>1 DEF Submit, TypeOK
<1>2. CASE WaitOn
    BY <1>2 DEF WaitOn, TypeOK, minionVars
<1>3. CASE LookUp
    BY <1>3, LookUpTyped
<1>4. CASE Check
    BY <1>4 DEF Check, TypeOK, minionVars
<1>5. ASSUME NEW m \in Minions, Ask(m)
      PROVE  TypeOK'
    <2>1. busy' \in BOOLEAN
        BY <1>5 DEF Ask, TypeOK
    <2> QED
        BY <1>5, <2>1 DEF Ask, TypeOK, minionVars
<1>6. ASSUME NEW m \in Minions, NoAnswer(m)
      PROVE  TypeOK'
    BY <1>6 DEF NoAnswer, TypeOK, minionVars
<1>7. ASSUME NEW m \in Minions, Begin(m) \/ Deliver(m)
      PROVE  TypeOK'
    BY <1>7 DEF Begin, Deliver, TypeOK, jobVars
<1>8. ASSUME NEW m \in Minions, Finish(m)
      PROVE  TypeOK'
    BY <1>8 DEF Finish, TypeOK, jobVars
<1>9. ASSUME NEW m \in Minions, Lose(m)
      PROVE  TypeOK'
    BY <1>9 DEF Lose, TypeOK, jobVars
<1>10. ASSUME NEW m \in Minions, BeginOther(m) \/ EndOther(m)
       PROVE  TypeOK'
    BY <1>10 DEF BeginOther, EndOther, TypeOK, jobVars
<1>11. CASE UNCHANGED vars
    BY <1>11 DEF vars, jobVars, minionVars, TypeOK
<1> QED
    BY <1>1, <1>2, <1>3, <1>4, <1>5, <1>6, <1>7, <1>8, <1>9, <1>10, <1>11
    DEF Next, Wait, MinionStep

LEMMA InitTyped == ASSUME Init PROVE TypeOK
<1>1. others \in 0 .. MaxOthers /\ faults \in 0 .. MaxFaults
    BY MinionsAssumption DEF Init
<1>2. step = "submit" /\ busy \in BOOLEAN
    BY DEF Init
<1>3. highstate \in [Minions -> {"none", "published", "running",
                                "returning", "returned", "lost"}]
    BY DEF Init
<1>4. value \in [Minions -> Nodes \cup {0}]
    BY DEF Init
<1>5. unasked \subseteq Minions /\ other \subseteq Minions /\ excused \subseteq Minions
    BY DEF Init
<1>6. output \in Seq(Line)
    BY DEF Init
<1> QED
    BY <1>1, <1>2, <1>3, <1>4, <1>5, <1>6 DEF TypeOK

\* Whatever minions return and however a Salt command prints it, what the job
\* gives to check_salt_output.py is a sequence of lines it can read.
THEOREM TypeCorrect == Spec => []TypeOK
BY InitTyped, NextTyped, PTL DEF Spec

-----------------------------------------------------------------------------
(* The wait *)

\* How far a highstate is that does not run any more.
Ended == {"returning", "returned", "lost"}

\* What the proof needs of the types.
Typed ==
    /\ unasked \subseteq Minions
    /\ highstate \in [Minions -> {"none", "published", "running", "returning",
                                  "returned", "lost"}]
    /\ step \in {"submit", "wait", "lookup", "check", "passed", "failed"}

\* What is known of the minions that were asked, and afterwards of all.
WaitInvariant ==
    /\ Typed
    /\ step = "submit" => unasked = Minions
    /\ step = "wait" => \A m \in Minions : highstate[m] # "none"
    /\ step = "wait" =>
          \A m \in Minions \ (unasked \cup excused) : busy \/ highstate[m] \in Ended
    /\ step \in {"lookup", "check", "passed"} =>
          \A m \in Minions \ excused : highstate[m] \in Ended

USE DEF Ended

LEMMA InitWaits == Init => WaitInvariant
BY DEF Init, WaitInvariant, Typed

\* A minion moves on: it does not take a highstate up again.
LEMMA MinionKeepsWait ==
    ASSUME WaitInvariant, NEW m \in Minions, NEW h,
           h \in {"published", "running", "returning", "returned", "lost"},
           highstate[m] # "none",
           highstate[m] \in Ended => h \in Ended,
           highstate' = [highstate EXCEPT ![m] = h], UNCHANGED jobVars
    PROVE  WaitInvariant'
<1>1. Typed'
    BY DEF WaitInvariant, Typed, jobVars
<1>2. \A n \in Minions : highstate'[n] = IF n = m THEN h ELSE highstate[n]
    BY DEF WaitInvariant, Typed
<1>3. \A n \in Minions : highstate[n] \in Ended => highstate'[n] \in Ended
    BY <1>2
<1>4. \A n \in Minions : highstate[n] # "none" => highstate'[n] # "none"
    BY <1>2
<1> QED
    BY <1>1, <1>3, <1>4 DEF WaitInvariant, jobVars

LEMMA JobKeepsWait == WaitInvariant /\ (Wait \/ Check) => WaitInvariant'
<1> SUFFICES ASSUME WaitInvariant, Wait \/ Check
             PROVE  WaitInvariant'
    OBVIOUS
<1>0. Typed
    BY DEF WaitInvariant
<1>1. CASE Submit
    BY <1>0, <1>1 DEF Submit, WaitInvariant, Typed
<1>2. ASSUME NEW m \in Minions, Ask(m)
      PROVE  WaitInvariant'
    <2>1. Typed'
        BY <1>0, <1>2 DEF Ask, Typed, minionVars
    <2>2. highstate[m] \in {"published", "running"} \cup Ended
        BY <1>0, <1>2 DEF Ask, WaitInvariant, Typed
    <2>3. m \notin excused' => busy' \/ highstate[m] \in Ended
        BY <1>2, <2>2 DEF Ask, Runs
    <2>4. busy => busy'
        BY <1>2 DEF Ask
    <2> QED
        BY <1>2, <2>1, <2>3, <2>4 DEF Ask, WaitInvariant, minionVars
<1>3. CASE WaitOn
    <2>1. Typed'
        BY <1>0, <1>3 DEF WaitOn, Typed, minionVars
    <2>2. CASE busy
        BY <1>3, <2>1, <2>2 DEF WaitOn, WaitInvariant, minionVars
    <2>3. CASE ~busy
        <3>1. \A m \in Minions \ excused : highstate[m] \in Ended
            BY <1>3, <2>3 DEF WaitOn, WaitInvariant
        <3> QED
            BY <1>3, <2>1, <2>3, <3>1 DEF WaitOn, WaitInvariant, minionVars
    <2> QED
        BY <2>2, <2>3
<1>4. CASE LookUp
    BY <1>4 DEF LookUp, WaitInvariant, Typed, minionVars
<1>5. CASE Check
    BY <1>5 DEF Check, WaitInvariant, Typed, minionVars
<1> QED
    BY <1>1, <1>2, <1>3, <1>4, <1>5 DEF Wait

LEMMA NextKeepsWait == WaitInvariant /\ [Next]_vars => WaitInvariant'
<1> SUFFICES ASSUME WaitInvariant, [Next]_vars
             PROVE  WaitInvariant'
    OBVIOUS
<1>1. CASE Wait \/ Check
    BY <1>1, JobKeepsWait
<1>2. ASSUME NEW m \in Minions, Begin(m)
      PROVE  WaitInvariant'
    <2>1. PICK h \in {"returning", "running"} : highstate' = [highstate EXCEPT ![m] = h]
        BY <1>2 DEF Begin
    <2> QED
        BY <1>2, <2>1, MinionKeepsWait DEF Begin
<1>3. ASSUME NEW m \in Minions, Finish(m)
      PROVE  WaitInvariant'
    BY <1>3, MinionKeepsWait DEF Finish
<1>4. ASSUME NEW m \in Minions, Deliver(m)
      PROVE  WaitInvariant'
    BY <1>4, MinionKeepsWait DEF Deliver
<1>5. ASSUME NEW m \in Minions, Lose(m)
      PROVE  WaitInvariant'
    BY <1>5, MinionKeepsWait DEF Lose
<1>6. ASSUME NEW m \in Minions, NoAnswer(m)
      PROVE  WaitInvariant'
    BY <1>6 DEF NoAnswer, WaitInvariant, Typed, minionVars
<1>7. ASSUME NEW m \in Minions, BeginOther(m) \/ EndOther(m)
      PROVE  WaitInvariant'
    BY <1>7 DEF BeginOther, EndOther, jobVars, WaitInvariant, Typed
<1>8. CASE UNCHANGED vars
    BY <1>8 DEF vars, jobVars, minionVars, WaitInvariant, Typed
<1> QED
    BY <1>1, <1>2, <1>3, <1>4, <1>5, <1>6, <1>7, <1>8 DEF Next, MinionStep

\* When the returns are looked up and when the job passes, no highstate runs on
\* a minion that had begun it when check_running_jobs.sh asked, and answered.
THEOREM WaitIsForRunning == Spec => []WaitsForRunning
<1>1. WaitInvariant => WaitsForRunning
    BY DEF WaitInvariant, WaitsForRunning
<1> QED
    BY <1>1, InitWaits, NextKeepsWait, PTL DEF Spec

-----------------------------------------------------------------------------
(* The verdict *)

USE DEF Plain, Value

\* An object with all values, with or without lines before it.
LEMMA FramedObject ==
    ASSUME NEW t \in Seq(Line), NEW k \in Nat, NEW n \in Nat, Len(t) = k + n + 2,
           \A i \in 1 .. k : t[i] = Plain("plain"),
           t[k + 1] = Plain("open"),
           \A i \in k + 2 .. k + n + 1 : t[i].text = "part",
           t[k + n + 2] = Plain("close")
    PROVE  Framed(t)
<1>1. \A i \in 1 .. Len(t) : \/ i \in 1 .. k \/ i = k + 1
                             \/ i \in k + 2 .. k + n + 1 \/ i = k + n + 2
    OBVIOUS
<1>2. \A i \in 1 .. Len(t) : t[i].text = "open" => i = k + 1
    BY <1>1
<1>3. \A i \in 1 .. Len(t) : t[i].node # 0 => i \in k + 2 .. k + n + 1
    BY <1>1
<1>4. \A i \in 1 .. Len(t) : t[i].text # "empty"
    BY <1>1
<1>5. /\ k + n + 2 \in k + 1 + 1 .. Len(t)
      /\ \A j \in k + 1 + 1 .. k + n + 2 - 1 : j \in k + 2 .. k + n + 1
    OBVIOUS
<1>6. \A b \in 1 .. Len(t) : t[b].text = "open" =>
          \E e \in b + 1 .. Len(t) : /\ t[e].text = "close"
                                     /\ \A j \in b + 1 .. e - 1 : t[j].text = "part"
    BY <1>2, <1>5
<1>7. \A j \in 1 .. Len(t) : t[j].node # 0 =>
          \E b \in 1 .. j - 1 : /\ t[b].text = "open"
                                /\ \A i \in b + 1 .. j : t[i].text = "part"
    <2> SUFFICES ASSUME NEW j \in 1 .. Len(t), t[j].node # 0
                 PROVE  \E b \in 1 .. j - 1 : /\ t[b].text = "open"
                                              /\ \A i \in b + 1 .. j : t[i].text = "part"
        OBVIOUS
    <2>1. j \in k + 2 .. k + n + 1
        BY <1>3
    <2>2. k + 1 \in 1 .. j - 1 /\ \A i \in k + 1 + 1 .. j : i \in k + 2 .. k + n + 1
        BY <2>1
    <2>3. t[k + 1].text = "open"
        OBVIOUS
    <2> QED
        BY <2>2, <2>3
<1> QED
    BY <1>4, <1>6, <1>7 DEF Framed

\* An object without keys, with or without lines before it.
LEMMA FramedEmpty ==
    ASSUME NEW t \in Seq(Line), NEW k \in Nat, Len(t) = k + 1,
           \A i \in 1 .. k : t[i] = Plain("plain"),
           t[k + 1] = Plain("empty")
    PROVE  Framed(t)
<1>1. \A i \in 1 .. Len(t) : i \in 1 .. k \/ i = k + 1
    OBVIOUS
<1>2. \A i \in 1 .. Len(t) : t[i].node = 0 /\ t[i].text # "open"
    BY <1>1
<1>3. \A i \in 1 .. Len(t) : t[i].text = "empty" => i = Len(t)
    BY <1>1
<1> QED
    BY <1>2, <1>3 DEF Framed

\* So is the object with what all minions returned, also behind a job id.
LEMMA FramedOneObject ==
    ASSUME TypeOK, NEW seq \in Seq(Minions)
    PROVE  Framed(OneObject(seq)) /\ Framed(<<Plain("plain")>> \o OneObject(seq))
<1> DEFINE t == OneObject(seq)
           u == <<Plain("plain")>> \o t
<1>1. t \in Seq(Line) /\ u \in Seq(Line)
    <2>1. t \in Seq(Line)
        BY OutputType
    <2>2. <<Plain("plain")>> \in Seq(Line)
        <3>1. Plain("plain") \in Line
            BY DEF Line
        <3> QED
            BY <3>1, SingletonType
    <2> HIDE DEF t
    <2> QED
        BY <2>1, <2>2, ConcatType
<1>2. Len(u) = Len(t) + 1 /\ u[1] = Plain("plain") /\ \A i \in 1 .. Len(t) : u[i + 1] = t[i]
    <2> HIDE DEF t
    <2> QED
        BY <1>1
<1>3. CASE seq = <<>>
    <2>1. t = <<Plain("empty")>>
        BY <1>3 DEF OneObject
    <2>2. Len(t) = 1 /\ t[1] = Plain("empty")
        BY <2>1
    <2> HIDE DEF t, u
    <2>3. Framed(t)
        <3>1. PICK k \in Nat : k = 0
            OBVIOUS
        <3>2. Len(t) = k + 1 /\ t[k + 1] = Plain("empty") /\ \A i \in 1 .. k : t[i] = Plain("plain")
            BY <2>2, <3>1
        <3> QED
            BY <1>1, <3>2, FramedEmpty
    <2>4. Len(u) = 1 + 1 /\ u[1 + 1] = Plain("empty") /\ \A i \in 1 .. 1 : u[i] = Plain("plain")
        BY <1>1, <1>2, <2>2
    <2>5. Framed(u)
        BY <1>1, <2>4, FramedEmpty
    <2> QED
        BY <2>3, <2>5 DEF t, u
<1>4. CASE seq # <<>>
    <2> DEFINE n == Len(seq)
               v == [i \in 1 .. n |-> Value(value[seq[i]])]
    <2>1. t = <<Plain("open")>> \o v \o <<Plain("close")>>
        BY <1>4 DEF OneObject
    <2>2. n \in Nat /\ Len(v) = n
        OBVIOUS
    <2>3. /\ Len(t) = n + 2
          /\ t[1] = Plain("open")
          /\ \A i \in 2 .. n + 1 : t[i] = v[i - 1]
          /\ t[n + 2] = Plain("close")
        <3> HIDE DEF t, n
        <3>1. v \in Seq(Range(v))
            <4>1. v \in [1 .. n -> Range(v)]
                BY DEF Range
            <4> HIDE DEF v
            <4> QED
                BY <2>2, <4>1
        <3> HIDE DEF v
        <3> QED
            BY <2>1, <2>2, <3>1
    <2>4. \A i \in 2 .. n + 1 : t[i].text = "part"
        <3>1. \A i \in 1 .. n : v[i].text = "part"
            OBVIOUS
        <3>2. \A i \in 2 .. n + 1 : i - 1 \in 1 .. n
            BY <2>2
        <3> HIDE DEF t, v, n
        <3> QED
            BY <2>3, <3>1, <3>2
    <2> HIDE DEF t, u, v, n
    <2>5. Framed(t)
        <3>1. PICK k \in Nat : k = 0
            OBVIOUS
        <3>2. /\ Len(t) = k + n + 2 /\ t[k + 1] = Plain("open")
              /\ \A i \in k + 2 .. k + n + 1 : t[i].text = "part"
              /\ t[k + n + 2] = Plain("close")
              /\ \A i \in 1 .. k : t[i] = Plain("plain")
            BY <2>2, <2>3, <2>4, <3>1
        <3> QED
            BY <1>1, <2>2, <3>2, FramedObject
    <2>6. Framed(u)
        <3>1. Len(u) = 1 + n + 2
            BY <1>2, <2>2, <2>3
        <3>2. /\ 1 \in 1 .. Len(t) /\ n + 2 \in 1 .. Len(t) /\ n + 2 + 1 = 1 + n + 2
              /\ \A i \in 1 + 2 .. 1 + n + 1 : i - 1 \in 2 .. n + 1 /\ i - 1 \in 1 .. Len(t)
                                               /\ i - 1 + 1 = i
            BY <2>2, <2>3
        <3>3. /\ \A i \in 1 .. 1 : u[i] = Plain("plain")
              /\ u[1 + 1] = Plain("open")
              /\ \A i \in 1 + 2 .. 1 + n + 1 : u[i].text = "part"
              /\ u[1 + n + 2] = Plain("close")
            BY <1>2, <2>3, <2>4, <3>2
        <3> QED
            BY <1>1, <2>2, <3>1, <3>3, FramedObject
    <2> QED
        BY <2>5, <2>6 DEF t, u
<1> QED
    BY <1>3, <1>4

\* So is an object for each minion, each followed by an empty line.
LEMMA FramedObjectEach ==
    ASSUME TypeOK, NEW seq \in Seq(Minions)
    PROVE  Framed(ObjectEach(seq))
<1> DEFINE t == ObjectEach(seq)
<1>1. PICK k \in Nat : k = Len(seq)
    OBVIOUS
<1>2. t \in Seq(Line)
    BY OutputType
<1>3. Len(t) = 4 * k
    BY <1>1 DEF ObjectEach
<1>4. ASSUME NEW i \in 1 .. 4 * k
      PROVE  /\ i % 4 = 1 <=> t[i].text = "open"
             /\ i % 4 = 2 <=> t[i].text = "part"
             /\ i % 4 = 3 <=> t[i].text = "close"
             /\ i % 4 # 2 => t[i].node = 0
             /\ t[i].text # "empty"
    BY <1>1 DEF ObjectEach
<1> HIDE DEF t
<1>5. \A b \in 1 .. Len(t) : t[b].text = "open" =>
          \E e \in b + 1 .. Len(t) : /\ t[e].text = "close"
                                     /\ \A j \in b + 1 .. e - 1 : t[j].text = "part"
    <2> SUFFICES ASSUME NEW b \in 1 .. 4 * k, b % 4 = 1
                 PROVE  \E e \in b + 1 .. 4 * k : /\ t[e].text = "close"
                                                  /\ \A j \in b + 1 .. e - 1 : t[j].text = "part"
        BY <1>3, <1>4
    <2>1. /\ b + 1 \in 1 .. 4 * k /\ b + 2 \in 1 .. 4 * k /\ b + 2 \in b + 1 .. 4 * k
          /\ (b + 1) % 4 = 2 /\ (b + 2) % 4 = 3
        OBVIOUS
    <2>2. \A j \in b + 1 .. b + 2 - 1 : j = b + 1
        OBVIOUS
    <2> QED
        BY <1>4, <2>1, <2>2
<1>6. \A j \in 1 .. Len(t) : t[j].node # 0 =>
          \E b \in 1 .. j - 1 : /\ t[b].text = "open"
                                /\ \A i \in b + 1 .. j : t[i].text = "part"
    <2> SUFFICES ASSUME NEW j \in 1 .. 4 * k, j % 4 = 2
                 PROVE  \E b \in 1 .. j - 1 : /\ t[b].text = "open"
                                              /\ \A i \in b + 1 .. j : t[i].text = "part"
        BY <1>3, <1>4
    <2>1. j - 1 \in 1 .. 4 * k /\ (j - 1) % 4 = 1 /\ j - 1 \in 1 .. j - 1
        OBVIOUS
    <2>2. \A i \in j - 1 + 1 .. j : i = j
        OBVIOUS
    <2> QED
        BY <1>4, <2>1, <2>2
<1> QED
    BY <1>2, <1>3, <1>4, <1>5, <1>6 DEF Framed, t

HIDE DEF Plain, Value

\* What is checked is made of whole objects, and it is checked once.
VerdictInvariant ==
    /\ TypeOK
    /\ step \in {"submit", "wait", "lookup"} => output = <<>>
    /\ output # <<>> => Framed(output)
    /\ output # <<>> /\ step \in {"passed", "failed"} =>
          (step = "passed" <=> check_output_data(output))

\* At first nothing is printed.
LEMMA InitVerdict == Init => VerdictInvariant
BY InitTyped DEF Init, VerdictInvariant

\* Every step keeps it: what is looked up is framed, and checked as it is.
LEMMA NextKeepsVerdict == VerdictInvariant /\ [Next]_vars => VerdictInvariant'
<1> SUFFICES ASSUME VerdictInvariant, [Next]_vars
             PROVE  VerdictInvariant'
    OBVIOUS
<1>0. TypeOK /\ TypeOK'
    BY NextTyped DEF VerdictInvariant
<1>1. CASE Submit
    BY <1>0, <1>1 DEF Submit, VerdictInvariant
<1>2. CASE WaitOn
    BY <1>0, <1>2 DEF WaitOn, VerdictInvariant
<1>3. CASE LookUp /\ step' # "failed"
    <2> DEFINE seq == SetToSeq(Returned)
    <2>1. seq \in Seq(Minions)
        BY <1>0, ReturnedListed
    <2>2. output' \in {OneObject(seq), <<Plain("plain")>> \o OneObject(seq), ObjectEach(seq)}
        BY <1>3 DEF LookUp
    <2> HIDE DEF seq
    <2>3. Framed(output')
        <3>1. /\ Framed(OneObject(seq)) /\ Framed(<<Plain("plain")>> \o OneObject(seq))
              /\ Framed(ObjectEach(seq))
            BY <1>0, <2>1, FramedOneObject, FramedObjectEach
        <3> QED
            BY <2>2, <3>1
    <2>4. step' = "check"
        BY <1>3 DEF LookUp
    <2> QED
        BY <1>0, <2>3, <2>4 DEF VerdictInvariant
<1>4. CASE Check
    <2>1. step = "check" /\ output' = output
        BY <1>4 DEF Check
    <2>2. step' = IF check_output_data(output) THEN "passed" ELSE "failed"
        BY <1>4 DEF Check
    <2>3. check_output_data(output)' <=> check_output_data(output)
        BY <2>1
    <2> QED
        BY <1>0, <2>1, <2>2, <2>3 DEF VerdictInvariant
<1>5. ASSUME UNCHANGED <<step, output>>
      PROVE  VerdictInvariant'
    BY <1>0, <1>5 DEF VerdictInvariant
<1>6. ASSUME NEW m \in Minions, Ask(m) \/ NoAnswer(m) \/ MinionStep(m) \/ Lose(m) \/ BeginOther(m)
      PROVE  UNCHANGED <<step, output>>
    BY <1>6 DEF Ask, NoAnswer, MinionStep, Begin, Finish, Deliver, EndOther, Lose,
                BeginOther, jobVars
<1>7. CASE UNCHANGED vars
    BY <1>5, <1>7 DEF vars, jobVars
<1>8. CASE LookUp /\ step' = "failed"
    <2>1. output = <<>> /\ output' = output
        BY <1>8 DEF LookUp, VerdictInvariant
    <2> QED
        BY <1>0, <2>1 DEF VerdictInvariant
<1> QED
    BY <1>1, <1>2, <1>3, <1>4, <1>5, <1>6, <1>7, <1>8 DEF Next, Wait

\* The job passes iff every result that the minions have returned succeeded and
\* there are enough of them, however many minions there are, whatever trees they
\* return, in whichever of its forms a Salt command prints them: lines, objects
\* and recursion do not lose a result, count one twice or let a failure pass.
THEOREM VerdictIsRight == Spec => []VerdictMatchesReference
<1>1. VerdictInvariant => VerdictMatchesReference
    <2> SUFFICES ASSUME VerdictInvariant, output # <<>>, step \in {"passed", "failed"}
                 PROVE  VerdictMatchesReference
        BY DEF VerdictMatchesReference
    <2> DEFINE printed == {i \in 1 .. Len(output) : output[i].node # 0}
               results == {r \in printed \X Nodes : r[2] \in ResultsIn[output[r[1]].node]}
    <2>1. results = Printed(output, 1, Len(output))
        BY DEF Printed
    <2>2. check_output_data(output) <=> /\ Cardinality(results) >= MinCount
                                        /\ \A r \in results : Succeeds(r[2])
        <3> HIDE DEF results
        <3> QED
            BY <2>1, VerdictOfFramed DEF VerdictInvariant
    <2>3. step = "passed" <=> check_output_data(output)
        BY DEF VerdictInvariant
    <2>4. VerdictMatchesReference <=>
              (step = "passed" <=> /\ Cardinality(results) >= MinCount
                                   /\ \A r \in results : Succeeds(r[2]))
        BY DEF VerdictMatchesReference
    <2> HIDE DEF results
    <2> QED
        BY <2>2, <2>3, <2>4
<1> QED
    BY <1>1, InitVerdict, NextKeepsVerdict, PTL DEF Spec

=============================================================================
