---------------------------- MODULE MCBaselineStore ----------------------------
(***************************************************************************)
(* Small instances of BaselineStore: the directory found at the start may  *)
(* hold an expired entry, one that expires on day 1, one of another        *)
(* version, a copy under a name of the user's, and a broken file.          *)
(***************************************************************************)
EXTENDS BaselineAlone, TLC

CONSTANTS x, c1, c2, copy

MCClean    == [head: {c1, c2}, dirty: {FALSE}]
MCGitState == MCClean \cup {[head |-> c1, dirty |-> TRUE]}

Saved(c, day, kind) ==
  [input |-> x, commit |-> c, gen |-> day, mtime |-> day, kind |-> kind]

Dir(a, b, s) == (<<x, c1>> :> a) @@ (<<x, c2>> :> b) @@ (copy :> s)

MCParsed ==
  {Dir(NoFile, NoFile, NoFile),
   Dir(Saved(c1, -2, "valid"), Saved(c2, -1, "valid"), NoFile),
   Dir(Saved(c1, -1, "foreign"), Saved(c1, -2, "valid"), Saved(c1, -2, "valid"))}
MCBroken == MCParsed \cup {Dir(Saved(c1, -2, "malformed"), Saved(c2, -2, "invalid"), NoFile)}

FirstSaver == CHOOSE p \in Saver : TRUE

\* Either one save and one load share the directory, or the saves run one at a
\* time, over commits, and nothing is loaded.
MCInit ==
  /\ AloneInit
  /\ \A p \in Saver : mem[p].name = copy
  /\ alone => git \in MCClean /\ \A r \in Reader : view[r].name = copy

MCNext ==
  /\ AloneNext
  /\ IF alone
     THEN git' \in MCClean /\ \A r \in Reader : pc'[r] = pc[r]
     ELSE now' <= 1 /\ \A p \in Saver \ {FirstSaver} : pc'[p] = "begin"

MCSpec == MCInit /\ [][MCNext]_aloneVars
=============================================================================
