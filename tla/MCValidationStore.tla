---------------------------- MODULE MCValidationStore ----------------------------
(***************************************************************************)
(* Small instances of ValidationStore: a clean head, the same head with    *)
(* edits, and another head.                                                *)
(***************************************************************************)
EXTENDS ValidationStore, TLC

CONSTANTS c1, c2

MCGitState == {[head |-> c1, dirty |-> FALSE], [head |-> c1, dirty |-> TRUE]}
MCHeads    == [head: {c1, c2}, dirty: {FALSE}]
\* Processes, ids and payloads are interchangeable.
MCSymmetry == Permutations(Recorder) \cup Permutations(Observer)
              \cup Permutations(RepoId) \cup Permutations(Payload)
=============================================================================
