------------------------------ MODULE BaselineMap ------------------------------
(***************************************************************************)
(* What the baseline directory promises: a map from the key of a report to *)
(* its newest manifest.  An entry goes when it is older than the retention *)
(* time; a manifest is put when no such entry is left, never over a newer  *)
(* one; files that the store did not make stay as they are.                *)
(***************************************************************************)
EXTENDS Integers

CONSTANTS Key, Stray, Entry, NoFile, InitFiles, RetentionDays

VARIABLES store, now

Own(n) == store[n] # NoFile /\ store[n].kind = "valid"
          /\ n = <<store[n].input, store[n].commit>>

Init == store \in InitFiles /\ now = 0

Put(n, e) ==
  /\ e # NoFile /\ e.kind = "valid" /\ n = <<e.input, e.commit>>
  /\ \A k \in Key : Own(k) => store[k].mtime >= e.gen - RetentionDays
  /\ Own(n) => store[n].gen <= e.gen
  /\ store' = [store EXCEPT ![n] = e]

Expire(n) ==
  /\ Own(n) /\ store[n].mtime < now - RetentionDays
  /\ store' = [store EXCEPT ![n] = NoFile]

Wipe == store' = [n \in Key \cup Stray |-> NoFile]

Next ==
  \/ \E n \in Key : Put(n, store'[n]) /\ now' = now
  \/ \E n \in Key : Expire(n) /\ now' = now
  \/ Wipe /\ now' = now
  \/ now' = now + 1 /\ UNCHANGED store

Spec == Init /\ [][Next]_<<store, now>>
=============================================================================
