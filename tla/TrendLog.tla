------------------------------- MODULE TrendLog -------------------------------
(***************************************************************************)
(* What the trend history promises to the reader of `r3-doctor trend`: a   *)
(* log of entries.  An entry is added after all others and was compared    *)
(* with the one before it; retention removes exactly the entries that are  *)
(* older than some cutoff; removing the storage directory empties the log. *)
(***************************************************************************)
EXTENDS Integers

CONSTANTS Line, InitLogs, NonGit, NoBase

VARIABLE log

Last == CHOOSE l \in log : \A k \in log : k.n <= l.n

Base(sha) ==
  IF log = {} \/ sha = NonGit \/ Last.sha = NonGit THEN NoBase ELSE Last.id

Init == log \in InitLogs

Add(l) ==
  /\ \A k \in log : k.n < l.n /\ k.id # l.id
  /\ l.base = Base(l.sha)
  /\ log' = log \cup {l}

Expire(cutoff) ==
  /\ log' # log
  /\ log' = {l \in log : l.at >= cutoff}

Wipe == log' = {}

Next ==
  \/ \E l \in log' \ log : Add(l)
  \/ \E l \in log : Expire(l.at + 1)
  \/ Wipe

Spec == Init /\ [][Next]_log
=============================================================================
