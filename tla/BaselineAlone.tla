----------------------------- MODULE BaselineAlone -----------------------------
(***************************************************************************)
(* BaselineStore under an operator who may run the saves one at a time, in *)
(* a directory that stays and holds nothing from the future; and the map   *)
(* that the directory then is, whatever is loaded meanwhile.               *)
(***************************************************************************)
EXTENDS BaselineStore

VARIABLE alone  \* does the operator?

aloneVars == <<vars, alone>>

Past(contents) == \A n \in Name : contents[n] # NoFile => contents[n].gen <= 0

AloneInit == Init /\ alone \in BOOLEAN /\ (alone => Past(files))

OneAtATime ==
  /\ losses' = losses
  /\ \A p \in Saver :
       pc[p] = "begin" /\ pc'[p] # "begin" => \A q \in Saver : pc[q] \notin SaveSteps

AloneNext == Next /\ (alone => OneAtATime) /\ UNCHANGED alone

AloneSpec == AloneInit /\ [][AloneNext]_aloneVars

Empty == [n \in Name |-> NoFile]

Map == INSTANCE BaselineMap WITH
         store <- IF alone THEN files ELSE Empty,
         InitFiles <- InitFiles \cup {Empty}

(***************************************************************************)
(* With one save at a time, the directory is the map of BaselineMap        *)
(* (commands/scan.ts: "save report as baseline").                          *)
(***************************************************************************)
ImplementsBaselineMap == Map!Spec
=============================================================================
