------------------------------ MODULE MCCommands ------------------------------
(***************************************************************************)
(* Small instances of SetupCommand: a lone scan of a repository that       *)
(* others change and whose reads fail, and a setup beside another setup or *)
(* beside a scan.                                                          *)
(***************************************************************************)
EXTENDS SetupCommand

CONSTANTS a, b

\* A source, a directory of two, an ignored source, a text, the configuration.
MCDir      == {0, 2}
MCFile     == {1, 3, 4, 5, 6, 7}
MCChildren == (0 :> {1, 2, 5, 6, 7}) @@ (2 :> {3, 4})
MCUnit     == ("whole" :> <<0>>) @@ ("lib" :> <<2>>) @@ ("twice" :> <<2, 0>>)
              @@ ("gone" :> <<2, 8>>)
MCTopDir   == (1 :> 1) @@ (3 :> 2) @@ (4 :> 2) @@ (5 :> 5)
MCLines    == (1 :> 3) @@ (3 :> 1) @@ (4 :> 2) @@ (5 :> 2)
MCBytes    == (1 :> 30) @@ (3 :> 10) @@ (4 :> 20) @@ (5 :> 20)

NoOptions == [provider |-> Unset, exec |-> Unset, scope |-> Unset, limits |-> Unset]
Asking(scope, files, bytes) ==
  [provider |-> "claude", exec |-> Unset, scope |-> scope,
   limits |-> [files |-> files, bytes |-> bytes]]

MCOptions == {NoOptions, [NoOptions EXCEPT !.provider = "claude"],
              [NoOptions EXCEPT !.scope = "all"], Asking("all", 2, 75),
              Asking("all", 20, 70), Asking("changed", 20, 39), Asking(Unset, 1, 100)}

Finding(axis, path, refs) == [id |-> Unset, axis |-> axis, path |-> path, refs |-> refs]
Good  == Finding("semantic-ambiguity", 3, {3})
Array(findings) == [parses |-> TRUE, schema |-> TRUE, findings |-> findings]

MCAnswers ==
  {<<>>, <<[NoArray EXCEPT !.schema = TRUE], Array(<<>>)>>,
   <<[Array(<<>>) EXCEPT !.schema = FALSE]>>, <<Array(<<Good, Good>>)>>,
   <<Array(<<Finding("fan-in", Elsewhere, {Dangling}), Good>>)>>,
   <<Array(<<Good, Finding("semantic-ambiguity", Unset, {3, Dangling})>>)>>,
   <<Array(<<Finding("semantic-ambiguity", Elsewhere, {})>>)>>,
   <<Array(<<[Good EXCEPT !.id = 2], Good>>)>>}

Codex == [llm |-> [NoOptions EXCEPT !.provider = "codex", !.exec = "codex", !.scope = "all"],
          model |-> Unset, addons |-> TRUE]

\* An executable makes a profile longer than another by more than a newline.
MCBodyEnd == [body \in Profiles |-> IF body.llm.exec = Unset THEN 2 ELSE 4]

Trees(config, edited) ==
  [f \in File |-> IF f = Config THEN config ELSE IF f = edited THEN "new" ELSE "old"]

\* What is varied, for the product of it all is out of reach: the repository
\* and the unit under a lone scan, with two changes or faults; its options
\* and answers; the choices of a lone setup, with one change or fault; and,
\* likewise, a setup beside another or beside a scan, none of the setups
\* running a scan of its own.
VARIABLE scenario

Plain(config) == /\ tree = Trees(config, 6)
                 /\ commits = <<[Trees(config, 6) EXCEPT ![5] = NoFile]>>

MCInit ==
  /\ \/ /\ scenario = "repository"
        /\ \E edited \in {3, 6}, committed \in {Trees("custom", 3), Trees("custom", 6)} :
             /\ tree = Trees("custom", edited)
             /\ commits = <<[committed EXCEPT ![5] = NoFile]>>
        /\ profile = NoProfile /\ budget = 2 /\ InitCommands({a}, {})
     \/ /\ scenario = "options" /\ profile \in {NoProfile, Codex} /\ budget = 0
        /\ (\E config \in {NoFile, "broken"} : Plain(config)) /\ InitCommands({a}, {})
     \/ /\ scenario = "setup" /\ profile \in {NoProfile, Codex} /\ budget = 1
        /\ (\E config \in {NoFile, "custom"} : Plain(config)) /\ InitCommands({}, {a})
     \/ /\ scenario = "both" /\ profile = Codex /\ budget = 1 /\ Plain(NoFile)
        /\ (InitCommands({}, {a, b}) \/ InitCommands({a}, {b}))
  /\ Init

MCNext ==
  /\ Next
  /\ \A p \in Process :
       /\ scenario # "options" => scan'[p].options \in {NoScan.options, [NoOptions EXCEPT !.provider = setup[p].provider]}
       /\ scenario # "repository" => intake'[p].unit \in {Idle.unit, Whole}
       /\ scenario = "both" => ~setup'[p].scanWanted /\ scan'[p].asked = {}
  /\ UNCHANGED scenario

MCSpec == MCInit /\ [][MCNext]_<<vars, scenario>>
=============================================================================
