------------------------------ MODULE TrendAlone ------------------------------
(***************************************************************************)
(* TrendStore under an operator who may run one recording scan at a time,  *)
(* over a history that ends in a newline, readable files and a directory   *)
(* that stays; and the log that the store then is.                         *)
(***************************************************************************)
EXTENDS TrendStore

VARIABLE alone  \* does the operator?

aloneVars == <<vars, alone>>

\* The entries found at the start are numbered up to 0 and are of no scan here.
Tidy(file) ==
  file # NoFile => file.nl /\ \A l \in file.lines : l.n <= 0 /\ l.id \in Seed

AloneInit == Init /\ alone \in BOOLEAN /\ (alone => Tidy(history))

OneAtATime ==
  /\ losses' = losses
  /\ \A p \in Proc :
       /\ ~mem'[p].blind
       /\ pc[p] = "begin" /\ pc'[p] # "begin" => \A q \in Proc : pc[q] \notin Steps

AloneNext == Next /\ (alone => OneAtATime) /\ UNCHANGED alone

AloneSpec == AloneInit /\ [][AloneNext]_aloneVars

Log == INSTANCE TrendLog WITH
         log <- IF alone THEN LinesOf(history) ELSE {},
         InitLogs <- {LinesOf(h) : h \in InitHistories \cup {NoFile}}

(***************************************************************************)
(* With one recording scan at a time and readable files, the store is the  *)
(* log of TrendLog: every replacement of history.jsonl is one Add or one   *)
(* Expire, everything else is invisible (commands/scan.ts: "append score   *)
(* to trend history").  Nothing is said of the log of concurrent scans.    *)
(***************************************************************************)
ImplementsTrendLog == Log!Spec
=============================================================================
