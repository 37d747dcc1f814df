----------------------------- MODULE SetupCommand -----------------------------
(***************************************************************************)
(* `r3-doctor setup`, with or without its questions: it looks whether a    *)
(* configuration and baselines exist, writes the configuration, rewrites   *)
(* the operator profile for the chosen provider, and may run a scan that   *)
(* saves a baseline.  Several commands run at a time on one repository and *)
(* one profile; between looking and writing anything may happen.           *)
(***************************************************************************)
EXTENDS ScanCommand

CONSTANTS Provider, Model,
  Exec, Limit,   \* the executables and limits that a profile may name
  Whole,         \* no --unit
  BodyEnd        \* where the closing brace of a written profile stands

\* What an operator profile may hold.
Profiles ==
  [llm : [provider : Provider \cup {"none", Unset}, exec : Exec \cup {Unset},
          scope : {"all", "cluster-context", "changed", Unset}, limits : Limit \cup {Unset}],
   model : Model \cup {Unset}, addons : BOOLEAN]

ASSUME SetupAssumption ==
  /\ NoProfile \notin Profiles \cup Torn
  /\ BodyEnd \in [Profiles -> Nat \ {0}]
  /\ \A l \in Limit : l.files \in Nat /\ l.bytes \in Nat

VARIABLES
  setup,     \* the locals of the setup of each command
  original   \* the operator profile before any of them (history variable)

NoSetup == [pc |-> "idle", yes |-> TRUE, dry |-> FALSE, force |-> FALSE, exists |-> FALSE,
            scanWanted |-> FALSE, baselineWanted |-> FALSE, provider |-> Unset,
            model |-> Unset, keep |-> FALSE, merged |-> NoProfile, skipped |-> FALSE,
            written |-> FALSE, profileWritten |-> FALSE, scanRan |-> FALSE,
            baselineSaved |-> FALSE, blocked |-> FALSE, shared |-> FALSE,
            errors |-> {}]

ToSetup(p, state) == setup' = [setup EXCEPT ![p] = state]
Error(s, what) == [s EXCEPT !.errors = @ \cup {what}]

\* The command line: --save-baseline requires --scan.
Start(p) ==
  /\ setup[p].pc = "start"
  /\ \E yes, dry, force, scanWanted, baselineWanted \in BOOLEAN :
       ToSetup(p, [setup[p] EXCEPT
         !.pc = IF baselineWanted /\ ~scanWanted THEN "thrown"
                ELSE IF yes THEN "look" ELSE "ask",
         !.yes = yes, !.dry = dry, !.force = force,
         !.scanWanted = yes /\ scanWanted, !.baselineWanted = yes /\ baselineWanted])
  /\ UNCHANGED <<repository, intake, profile, baselines, scan>>

\* runInteractiveSetupChoices up to the provider; a cancelled question ends it.
Ask(p) ==
  LET s == setup[p]
      exists == tree[Config] # NoFile
  IN /\ s.pc = "ask"
     /\ \/ ToSetup(p, [s EXCEPT !.pc = "thrown"])
        \/ \E yes, keep \in BOOLEAN, provider \in Provider \cup {Unset}, model \in Model \cup {Unset} :
             /\ (exists /\ s.force) \/ (~exists /\ s.dry) => ~yes
             /\ provider = Unset => ~keep /\ model = Unset
             /\ LET dry == s.dry \/ (~exists /\ ~s.dry /\ ~yes)
                IN ToSetup(p, [s EXCEPT
                     !.pc = IF dry THEN "look" ELSE "askScan", !.exists = exists,
                     !.force = @ \/ (exists /\ yes), !.dry = dry,
                     !.provider = provider, !.model = model, !.keep = keep])
     /\ UNCHANGED <<repository, intake, profile, baselines, scan>>

\* assessBaselineSaveEligibility; when Git cannot be inspected, or there is
\* none, the answer is yes.
Assess(willWrite, eligible) ==
  \/ eligible = (~willWrite /\ Status = {}) /\ UNCHANGED repository
  \/ ~willWrite /\ eligible /\ Fault

AskScan(p) ==
  LET s == setup[p] IN
  /\ s.pc = "askScan"
  /\ \/ ToSetup(p, [s EXCEPT !.pc = "look"]) /\ UNCHANGED repository
     \/ \E eligible, save \in BOOLEAN :
          /\ Assess(~s.exists \/ s.force, eligible) /\ (save => eligible)
          /\ ToSetup(p, [s EXCEPT !.pc = "look", !.scanWanted = TRUE, !.baselineWanted = save])
  /\ UNCHANGED <<intake, profile, baselines, scan>>

\* runSetup: an existing configuration is kept unless forced.
LookAtConfig(p) ==
  LET s == setup[p]
      exists == tree[Config] # NoFile
  IN /\ s.pc = "look"
     /\ ToSetup(p, [s EXCEPT !.exists = exists, !.skipped = exists /\ ~s.force,
                             !.pc = IF exists /\ ~s.force THEN "provider" ELSE "count"])
     /\ UNCHANGED <<repository, intake, profile, baselines, scan>>

\* Baselines of another configuration could no longer be compared.
CountBaselines(p) ==
  LET s == setup[p] IN
  /\ s.pc = "count"
  /\ ToSetup(p, IF baselines # {} /\ ~s.force
                THEN [Error(s, "baselines exist") EXCEPT !.pc = "provider"]
                ELSE [s EXCEPT !.pc = IF s.dry THEN "provider" ELSE "write"])
  /\ UNCHANGED <<repository, intake, profile, baselines, scan>>

\* writeRepositoryConfig, which loads the file again after its rename, and a
\* second load.  An exception of the first ends the setup without a report,
\* with or without the file; one of the second is an error in it.
WriteConfig(p) ==
  LET s == setup[p]
      thrown == [s EXCEPT !.pc = "thrown"]
      written == [s EXCEPT !.pc = "provider", !.written = TRUE]
  IN
  /\ s.pc = "write"
  /\ \/ ToSetup(p, thrown) /\ Fault
     \/ /\ Replace(Config, "proposed") /\ UNCHANGED commits
        /\ \/ ToSetup(p, written) /\ UNCHANGED budget
           \/ /\ budget > 0 /\ budget' = budget - 1
              /\ ToSetup(p, thrown) \/ ToSetup(p, Error(written, "config"))
  /\ UNCHANGED <<intake, profile, baselines, scan>>

-----------------------------------------------------------------------------
(* The operator profile.                                                   *)

\* buildProfile: the executable stays only with its provider, the add-ons
\* and the scope always.
BuildProfile(existing, s) ==
  LET old == IF existing = NoProfile THEN NoLlm ELSE existing.llm
  IN [llm |-> [provider |-> s.provider,
               exec |-> IF old.provider = s.provider THEN old.exec ELSE Unset,
               scope |-> Or(old.scope, "changed"), limits |-> old.limits],
      model |-> s.model,
      addons |-> existing # NoProfile /\ existing.addons]

\* As if what does not parse were no profile (for a mutation).
LoadExistingLeniently(p) ==
  LET s == setup[p] IN
  /\ s.pc = "provider"
  /\ ToSetup(p,
       IF s.provider = Unset \/ ~s.keep THEN [s EXCEPT !.pc = "eligible"]
       ELSE [s EXCEPT !.pc = "truncate",
                      !.merged = BuildProfile(IF profile \in Torn THEN NoProfile ELSE profile, s)])
  /\ UNCHANGED <<repository, intake, profile, baselines, scan>>

LoadExisting(p) ==
  LET s == setup[p] IN
  /\ s.pc = "provider"
  /\ ToSetup(p,
       IF s.provider = Unset \/ ~s.keep THEN [s EXCEPT !.pc = "eligible"]
       ELSE IF profile \in Torn THEN [Error(s, "profile") EXCEPT !.pc = "eligible"]
       ELSE [s EXCEPT !.pc = "truncate", !.merged = BuildProfile(profile, s)])
  /\ UNCHANGED <<repository, intake, profile, baselines, scan>>

\* writeFile opens the profile itself for writing and empties it.  (shared
\* notes that another setup is between its opening and its writing.)
TruncateProfile(p) ==
  LET s == setup[p] IN
  /\ s.pc = "truncate"
  /\ profile' = [torn |-> 0]
  /\ ToSetup(p, [s EXCEPT !.pc = "fill",
                          !.shared = @ \/ \E q \in Process \ {p} : setup[q].pc = "fill"])
  /\ UNCHANGED <<repository, intake, baselines, scan>>

\* Where the last visible character of the file stands.
LastVisible == IF profile \in Torn THEN profile.torn ELSE BodyEnd[profile]

\* The body and its newline, written from the start of the file over what
\* another setup has written there in the meantime: more of that than white
\* space, and the file does not parse.
Overlaid(body) ==
  IF LastVisible <= BodyEnd[body] + 1 THEN body ELSE [torn |-> LastVisible]

\* The file is filled, unless the process dies or the disk is full: then the
\* first k characters are written, or none.
FillProfile(p) ==
  LET s == setup[p] IN
  /\ s.pc = "fill"
  /\ \/ /\ profile' = Overlaid(s.merged)
        /\ ToSetup(p, [s EXCEPT !.pc = "eligible", !.profileWritten = TRUE])
        /\ UNCHANGED repository
     \/ /\ \/ ToSetup(p, [Error(s, "profile") EXCEPT !.pc = "eligible"])
           \/ ToSetup(p, [s EXCEPT !.pc = "crashed"])
        /\ \/ UNCHANGED profile
           \/ \E k \in 1 .. BodyEnd[s.merged] - 1 : 
                profile' = [torn |-> IF LastVisible <= k THEN k ELSE LastVisible]
        /\ Fault
  /\ UNCHANGED <<intake, baselines, scan>>

-----------------------------------------------------------------------------
(* The scan of a setup.                                                    *)

CheckEligible(p) ==
  LET s == setup[p]
      asks == s.baselineWanted /\ s.scanWanted /\ s.errors = {}
  IN /\ s.pc = "eligible"
     /\ \/ ~asks /\ ToSetup(p, [s EXCEPT !.pc = "launch"]) /\ UNCHANGED repository
        \/ \E eligible \in BOOLEAN :
             /\ asks /\ Assess(s.written, eligible)
             /\ ToSetup(p, [s EXCEPT !.pc = "launch", !.blocked = ~eligible,
                                     !.baselineWanted = eligible])
     /\ UNCHANGED <<intake, profile, baselines, scan>>

\* Without an operator profile: of it only the provider just chosen counts.
LaunchScan(p) ==
  LET s == setup[p]
      runs == s.scanWanted /\ s.errors = {} /\ (s.written \/ s.skipped)
  IN /\ s.pc = "launch"
     /\ IF runs
        THEN /\ ToSetup(p, [s EXCEPT !.pc = "scanning"])
             /\ Launch(p, FALSE, [NoLlm EXCEPT !.provider = s.provider], NoLlm)
        ELSE ToSetup(p, [s EXCEPT !.pc = "done"]) /\ UNCHANGED scan
     /\ UNCHANGED <<repository, intake, profile, baselines>>

\* As if the report repeated the option (for a mutation).
ScanEndsAsAsked(p) ==
  LET s == setup[p] IN
  /\ s.pc = "scanning" /\ scan[p].pc \in {"ok", "error"}
  /\ ToSetup(p, IF scan[p].pc = "ok"
                THEN [s EXCEPT !.pc = "done", !.scanRan = TRUE,
                               !.baselineSaved = s.baselineWanted \/ s.blocked]
                ELSE [Error(s, "scan") EXCEPT !.pc = "done"])
  /\ UNCHANGED <<repository, intake, profile, baselines, scan>>

ScanEnds(p) ==
  LET s == setup[p] IN
  /\ s.pc = "scanning" /\ scan[p].pc \in {"ok", "error"}
  /\ ToSetup(p, IF scan[p].pc = "ok"
                THEN [s EXCEPT !.pc = "done", !.scanRan = TRUE, !.baselineSaved = s.baselineWanted]
                ELSE [Error(s, "scan") EXCEPT !.pc = "done"])
  /\ UNCHANGED <<repository, intake, profile, baselines, scan>>

SetupStep(p) ==
  \/ Start(p) \/ Ask(p) \/ AskScan(p) \/ LookAtConfig(p) \/ CountBaselines(p)
  \/ WriteConfig(p) \/ LoadExisting(p) \/ TruncateProfile(p) \/ FillProfile(p)
  \/ CheckEligible(p) \/ LaunchScan(p) \/ ScanEnds(p)

\* A setup scans the whole repository and records at most a baseline.
Units(p) == IF setup[p].pc = "scanning" THEN {Whole} ELSE DOMAIN Unit \cup {"unknown"}
Wishes(p) ==
  IF setup[p].pc # "scanning" THEN SUBSET Recordings
  ELSE {IF setup[p].baselineWanted THEN {"baseline"} ELSE {}}

InitCommands(scanners, setups) ==
  /\ scan = [p \in Process |-> [NoScan EXCEPT !.pc = IF p \in scanners THEN "profile" ELSE @]]
  /\ setup = [p \in Process |-> [NoSetup EXCEPT !.pc = IF p \in setups THEN "start" ELSE @]]
  /\ baselines = {} /\ original = profile

Init ==
  /\ InitIntake /\ profile \in Profiles \cup {NoProfile}
  /\ \E scanners, setups \in SUBSET Process :
       scanners \cap setups = {} /\ InitCommands(scanners, setups)

Next ==
  /\ \/ (Edit \/ Commit) /\ UNCHANGED <<profile, baselines, scan, setup>>
     \/ \E p \in Process :
          \/ ScanStep(p, Units(p), Wishes(p)) /\ UNCHANGED setup
          \/ SetupStep(p)
  /\ UNCHANGED original

vars == <<repository, intake, profile, baselines, scan, setup, original>>

Spec == Init /\ [][Next]_vars

-----------------------------------------------------------------------------
(***************************************************************************)
(* The report of a setup is true and complete: what it says was written or *)
(* saved is what was done, a baseline is never saved by a setup that wrote *)
(* the configuration, a dry run leaves the configuration alone, and a scan *)
(* or baseline that was asked for and is missing has its warning or error. *)
(***************************************************************************)
SetupReportIsTrue ==
  \A p \in Process : LET s == setup[p] IN
    s.pc = "done" =>
      /\ ~(s.written /\ (s.dry \/ s.skipped \/ s.baselineSaved))
      /\ s.baselineSaved => /\ intake[p].cfg \in baselines
                            /\ intake[p].now = NoGit \/ Clean(intake[p])
                            /\ "baseline" \in scan[p].recorded
      /\ s.scanRan = (scan[p].pc = "ok")
      /\ s.scanWanted /\ s.errors = {} /\ ~s.scanRan => s.dry
      /\ s.scanRan /\ s.baselineWanted => s.baselineSaved

(***************************************************************************)
(* The operator's settings survive a setup that only chooses a provider:   *)
(* the add-ons (among them the repositories approved for the security      *)
(* add-on) stay, and an executable stays with the provider it was set for. *)
(* The file is unreadable, and every command refuses it, only while it is  *)
(* being rewritten, once a rewrite was cut short, or after two setups that *)
(* rewrote it at the same time (operator/profile.ts:50: the longer body    *)
(* may stick out under the shorter); it never reads as a profile without   *)
(* the settings.                                                           *)
(***************************************************************************)
SettingsSurvive ==
  /\ profile \in Torn =>
       \E p \in Process : \/ setup[p].pc \in {"fill", "crashed"} \/ setup[p].shared
                          \/ "profile" \in setup[p].errors
  /\ profile \notin Torn /\ original # NoProfile =>
       /\ profile.addons = original.addons
       /\ profile.llm.exec # Unset =>
            /\ profile.llm.exec = original.llm.exec
            /\ profile.llm.provider = original.llm.provider
=============================================================================
