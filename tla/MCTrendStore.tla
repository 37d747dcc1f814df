----------------------------- MODULE MCTrendStore -----------------------------
(***************************************************************************)
(* Small instances of TrendStore.  The history found at the start holds an *)
(* entry that has expired before one that expires on day 1, or only the    *)
(* second, or that one broken.                                             *)
(***************************************************************************)
EXTENDS TrendAlone

CONSTANTS old, mid, g0, nogit

MCGitState == {g0, nogit}
MCSeed     == {old, mid}

SeedLine(id, at, n) ==
  [id |-> id, at |-> at, n |-> n, sha |-> g0, base |-> NoBase, ok |-> TRUE]

OldLine    == SeedLine(old, -2, -1)
MidLine    == [SeedLine(mid, -1, 0) EXCEPT !.base = old]
BrokenLine == [MidLine EXCEPT !.ok = FALSE]

HistoryOf(lines) == [lines |-> lines, nl |-> TRUE, whole |-> TRUE]

MCHistories ==
  {NoFile, HistoryOf({MidLine}), HistoryOf({OldLine, MidLine}), HistoryOf({BrokenLine})}

\* Concurrent scans run on a day that does not end.
MCNext == AloneNext /\ (alone \/ now' = now)

MCSpec == AloneInit /\ [][MCNext]_aloneVars
=============================================================================
