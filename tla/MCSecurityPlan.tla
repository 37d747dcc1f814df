---------------------------- MODULE MCSecurityPlan ----------------------------
(***************************************************************************)
(* Small instances of SecurityPlan: four units in three files, two of them *)
(* related to two others, under every combination of a few sizes, verdicts *)
(* and limits.                                                             *)
(***************************************************************************)
EXTENDS SecurityPlan, TLC

CONSTANTS a, b, c, d

MCUnit == {a, b, c, d}
MCPath == {"p", "q", "r"}
MCHeadBytes(i) == 1

MCJob ==
  {[primary |-> <<a, b, c>>,
    path |-> (a :> "p" @@ b :> "q" @@ c :> "r" @@ d :> "q"),
    related |-> (a :> {b} @@ b :> {a, d} @@ c :> rc @@ d :> {}),
    line |-> [u \in MCUnit |-> IF u = b THEN y ELSE 1],
    block |-> (a :> x @@ b :> 2 @@ c :> 1 @@ d :> 3),
    verdict |-> (a :> "sent" @@ b :> vb @@ c :> "masked" @@ d :> vd),
    allowed |-> MCUnit \ hidden,
    oversized |-> g[1], needsBase |-> g[2], changes |-> g[3]] :
   rc \in {{}, {b}}, x \in {1, 4}, y \in {1, 5},
   vb \in {"sent", "dropped"}, vd \in {"sent", "dropped"},
   hidden \in {{}, {d}},
   g \in {<<0, FALSE, "none">>, <<1, FALSE, "partial">>, <<0, TRUE, "none">>}}

MCPolicy ==
  [maxBatches: {1, 2}, maxPromptBytes: {5, 9, 13}, maxTotalPromptBytes: {12, 15, 30},
   maxFiles: {1, 2, 3}]
=============================================================================
