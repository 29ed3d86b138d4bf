---------------------------- MODULE SaltOutput ----------------------------
(***************************************************************************)
(* check_salt_output.py: the verdict on a Salt command is taken from what  *)
(* it prints, as Salt does not return error codes consistently.            *)
(*                                                                         *)
(* The output is a stream of lines in which the lines of JSON objects are  *)
(* told from others by their first character.  What YAML makes of an       *)
(* object is a tree of nodes: lists, dicts and plain fields.  A dict with  *)
(* a key `result` is taken for the result of a state, and nothing below it *)
(* is looked at.                                                           *)
(***************************************************************************)
EXTENDS Naturals, Sequences, FiniteSetsExt

CONSTANTS
    Nodes,      \* the values that can occur in an output: numbers
    Kind,       \* [Nodes -> {"list", "dict", "field"}]
    Below,      \* [Nodes -> the values in a list or under the keys of a dict]
    ResultKey,  \* [Nodes -> what is under `result`, "absent" if there is no such key]
    CommentKey, \* [Nodes -> "absent", "requisite" (requisite_failure_prefix) or "own"]
    MinCount

ASSUME NodesAssumption ==
    /\ Nodes \subseteq Nat \ {0} /\ IsFiniteSet(Nodes)
    /\ Kind \in [Nodes -> {"list", "dict", "field"}]
    /\ Below \in [Nodes -> SUBSET Nodes]
    /\ ResultKey \in [Nodes -> {"absent", "None", "False", "True", "other"}]
    /\ CommentKey \in [Nodes -> {"absent", "requisite", "own"}]
    /\ MinCount \in Nat
    /\ \A n \in Nodes :
          /\ \A c \in Below[n] : c > n
          /\ Kind[n] = "field" => Below[n] = {}
          /\ Kind[n] # "dict" => ResultKey[n] = "absent" /\ CommentKey[n] = "absent"

\* JSON has no references: what an object is made of is in one place of it.
ASSUME TreeAssumption ==
    \A m, n \in Nodes : m # n => Below[m] \cap Below[n] = {}

-----------------------------------------------------------------------------
(* Lines and objects *)

\* "open" and "close" are the braces that begin and end an object that is
\* printed over several lines, "empty" is one without keys, on one line, "part"
\* stands for the lines of one value in an object and "plain" is a line outside
\* of objects (the job id of show_jid, messages).
Line == [text : {"open", "close", "empty", "part", "plain"}, node : Nodes \cup {0}]

Plain(t) == [text |-> t, node |-> 0]
Value(n) == [text |-> "part", node |-> n]

BeginsObject(l) == l.text \in {"open", "empty"}
EndsObject(l) == l.text = "close"

First(P(_), stream, from) ==
    LET at == {i \in from .. Len(stream) : P(stream[i])}
    IN  IF at = {} THEN 0 ELSE CHOOSE i \in at : \A j \in at : i <= j

\* object_stream_splitter from line `from` on: a whole object, all that is
\* left when it has no end, and <<>> when none begins.
ObjectLines(stream, from) ==
    LET b == First(BeginsObject, stream, from)
        e == First(EndsObject, stream, b + 1)
    IN  IF b = 0 THEN <<>>
        ELSE SubSeq(stream, b, IF e = 0 THEN Len(stream) ELSE e)

\* yaml.load refuses lines that are not one object.
Parses(lines) ==
    \/ lines = <<Plain("empty")>>
    \/ /\ Len(lines) > 1
       /\ lines[1].text = "open" /\ lines[Len(lines)].text = "close"
       /\ \A i \in 2 .. Len(lines) - 1 : lines[i].text = "part"

Values(lines) == {i \in 1 .. Len(lines) : lines[i].node # 0}

-----------------------------------------------------------------------------
(* Results *)

Nothing == [overall_result |-> TRUE, total_counter |-> 0, success_counter |-> 0,
            independent_failures |-> 0, raised |-> FALSE]

\* Mutant of describe_result: None passes.
DescribeResultOfNone(n) ==
    LET ok == CommentKey[n] # "absent" /\ ResultKey[n] \in {"True", "None"}
    IN  [overall_result |-> ok,
         total_counter |-> 1,
         success_counter |-> IF ok THEN 1 ELSE 0,
         independent_failures |-> 0,
         raised |-> FALSE]

\* describe_result: the comment of a False result is read even if it is absent,
\* which ends the script.
describe_result(n) ==
    LET ok == CommentKey[n] # "absent" /\ ResultKey[n] = "True"
        failed == ResultKey[n] = "False"
    IN  [overall_result |-> ok,
         total_counter |-> 1,
         success_counter |-> IF ok THEN 1 ELSE 0,
         independent_failures |-> IF failed /\ CommentKey[n] = "own" THEN 1 ELSE 0,
         raised |-> failed /\ CommentKey[n] = "absent"]

\* consolidate_results, for all results of f.
consolidate_results(f) ==
    LET Total(field(_)) == MapThenSumSet(field, DOMAIN f)
    IN  [overall_result |-> \A i \in DOMAIN f : f[i].overall_result,
         total_counter |-> Total(LAMBDA i : f[i].total_counter),
         success_counter |-> Total(LAMBDA i : f[i].success_counter),
         independent_failures |-> Total(LAMBDA i : f[i].independent_failures),
         raised |-> \E i \in DOMAIN f : f[i].raised]

\* What is neither a list nor a dict has nothing below it.
traverse_output_data ==
    LET t[n \in Nodes] ==
            IF ResultKey[n] # "absent" THEN describe_result(n)
            ELSE consolidate_results([c \in Below[n] |-> t[c]])
    IN  t

json_multi_object_loader(stream) ==
    LET from[i \in 1 .. Len(stream) + 1] ==
            LET lines == ObjectLines(stream, i)
            IN  IF lines = <<>> THEN <<>>
                ELSE <<lines>> \o from[First(BeginsObject, stream, i) + Len(lines)]
    IN  from[1]

\* An object that does not parse ends the script, with an error code as well.
Loaded(lines) ==
    IF Parses(lines)
    THEN consolidate_results([i \in Values(lines) |-> traverse_output_data[lines[i].node]])
    ELSE [Nothing EXCEPT !.raised = TRUE]

check_output_data(stream) ==
    LET objects == json_multi_object_loader(stream)
        all == consolidate_results([o \in DOMAIN objects |-> Loaded(objects[o])])
    IN  /\ ~all.raised
        /\ all.overall_result
        /\ all.total_counter >= MinCount

-----------------------------------------------------------------------------
(* Reference definitions, without lines and recursion *)

\* The results in a value: those in every set of nodes that has the value and,
\* with a node that is no result, all that is below it.
ResultsIn ==
    LET Closed(T) == \A n \in T : ResultKey[n] = "absent" => Below[n] \subseteq T
        closed == {T \in SUBSET Nodes : Closed(T)}
    IN  [v \in Nodes |->
            {n \in Nodes : /\ ResultKey[n] # "absent"
                           /\ \A T \in closed : v \in T => n \in T}]

Succeeds(n) == ResultKey[n] = "True" /\ CommentKey[n] # "absent"

=============================================================================
