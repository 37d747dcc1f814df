------------------------------ MODULE ScanCommand ------------------------------
(***************************************************************************)
(* `r3-doctor scan`: the operator profile, the execution policy, the       *)
(* intake, the diagnosis with its optional provider, the report, and then  *)
(* up to three recordings.  The recordings are the subject of              *)
(* ValidationStore, BaselineStore and TrendStore; here each succeeds or    *)
(* throws.  Setup runs the same action without reading a profile.          *)
(***************************************************************************)
EXTENDS Intake, SemanticStage

CONSTANTS
  Options,      \* what the llm options of a command line may be
  Answers,      \* what a provider may say
  Flagged,      \* the sources in which the analysis finds something
  NoProfile

\* A profile that does not parse: torn is where its last visible character
\* stands, 0 in an empty file.
Torn == [torn : Nat]

\* The limits of a prompt are counts, or are left to their defaults.
ASSUME ScanAssumption ==
  /\ Lines \in [Source -> Nat] /\ Bytes \in [Source -> Nat]
  /\ NoteBytes \in Nat /\ FixedBytes \in Nat /\ Radix \in Nat \ {0, 1}
  /\ \A o \in Options : o.limits # Unset => o.limits.files \in Nat /\ o.limits.bytes \in Nat

VARIABLES
  profile,    \* the operator profile: absent, torn or whole
  baselines,  \* the configurations under which baselines were saved
  scan        \* the locals of runScanAction of each command

Recordings == {"validation", "baseline", "trend"}

NoScan == [pc |-> "idle", asked |-> {}, dry |-> FALSE, llm |-> [provider |-> Unset],
           options |-> [provider |-> Unset], policy |-> Refused, prompt |-> NoPrompt,
           sent |-> FALSE, semantic |-> Unavailable, recorded |-> {}, failed |-> {}]

NoLlm == [provider |-> Unset, exec |-> Unset, scope |-> Unset, limits |-> Unset]

ToScan(p, state) == scan' = [scan EXCEPT ![p] = state]

\* runScanAction begins, of a command line or of setup.
Launch(p, dry, options, llm) ==
  ToScan(p, [NoScan EXCEPT !.pc = "policy", !.dry = dry, !.options = options, !.llm = llm])

\* loadOperatorProfile: a profile that does not parse is an error, a missing
\* one is not.  Then the action begins.
LoadProfile(p) ==
  /\ scan[p].pc = "profile"
  /\ IF profile \in Torn THEN ToScan(p, [scan[p] EXCEPT !.pc = "error"])
     ELSE \E dry \in BOOLEAN, options \in Options :
            Launch(p, dry, options, IF profile = NoProfile THEN NoLlm ELSE profile.llm)
  /\ UNCHANGED <<repository, intake, profile, baselines>>

ParsePolicy(p, units) ==
  LET s == scan[p]
      policy == ParseLlmExecutionPolicy(s.options, s.llm, s.dry)
  IN /\ s.pc = "policy"
     /\ IF policy.refused
        THEN ToScan(p, [s EXCEPT !.pc = "error"]) /\ UNCHANGED intake
        ELSE /\ ToScan(p, [s EXCEPT !.pc = "intake", !.policy = policy])
             /\ \E unit \in units : Open(p, unit)
     /\ UNCHANGED <<repository, profile, baselines>>

Files(p) == Got(intake[p])
Paths(p) == Files(p) \cap Flagged

\* The dry run prints the prompt and returns; whatever --format and the
\* recording options say is not looked at.
IntakeEnds(p) ==
  LET s == scan[p] IN
  /\ s.pc = "intake" /\ intake[p].pc \in {"done", "failed"}
  /\ IF intake[p].pc = "failed" THEN ToScan(p, [s EXCEPT !.pc = "error"])
     ELSE IF s.dry
     THEN ToScan(p, [s EXCEPT !.pc =
            IF FixedPartFits(s.policy) THEN "ok" ELSE "error"])
     ELSE ToScan(p, [s EXCEPT !.pc = "options"])
  /\ UNCHANGED <<repository, intake, profile, baselines>>

\* parseFormat, parseView, parseValidationHorizon; here the options that ask
\* for recordings are looked at for the first time.
ParseOptions(p, wishes) ==
  /\ scan[p].pc = "options"
  /\ \/ \E asked \in wishes :
          ToScan(p, [scan[p] EXCEPT !.pc = "diagnose", !.asked = asked])
     \/ ToScan(p, [scan[p] EXCEPT !.pc = "error"])
  /\ UNCHANGED <<repository, intake, profile, baselines>>

\* runDiagnosis.  The plugins refuse what they extracted (Evidence says
\* when), and nothing is sent; runSemanticAnalysis leaves a report without
\* findings when the provider fails or its answer does not fit; and the
\* report is parsed, which throws when an id is repeated.
Diagnose(p) ==
  LET s == scan[p]
      asks == s.policy.enabled /\ FixedPartFits(s.policy)
      prompt == BuildBudgetedSemanticPrompt(Files(p), Paths(p), s.policy)
      Parsed(semantic) == IF Repeated(semantic.findings) THEN "error" ELSE "output"
  IN /\ s.pc = "diagnose"
     /\ \/ ToScan(p, [s EXCEPT !.pc = "error"])
        \/ /\ asks
           /\ \E answer \in Answers :
                LET semantic == Analyzed(answer, Files(p), Paths(p)) IN
                ToScan(p, [s EXCEPT !.pc = Parsed(semantic), !.sent = TRUE,
                                    !.prompt = prompt, !.semantic = semantic])
        \/ ~asks /\ ToScan(p, [s EXCEPT !.pc = "output"])
     /\ UNCHANGED <<repository, intake, profile, baselines>>

\* The calibration and the team policy are loaded, a malformed file of either
\* is an error; the report is printed.
Output(p) ==
  /\ scan[p].pc = "output"
  /\ \E readable \in BOOLEAN :
       ToScan(p, [scan[p] EXCEPT !.pc = IF readable THEN "validation" ELSE "error"])
  /\ UNCHANGED <<repository, intake, profile, baselines>>

\* What a store refuses whatever happens (assertSnapshotPersistenceIntegrity,
\* assertValidationRecordingAllowed).
Refuses(what, i) ==
  CASE what = "validation" -> ~Clean(i)
    [] what = "baseline" -> i.now # NoGit /\ i.now.dirty
    [] OTHER -> FALSE

NextOf == [validation |-> "baseline", baseline |-> "trend", trend |-> "end"]

\* As if none were inside a try (for a mutation).
AfterFailureThrown(what) == "error"

\* Only the validation recording is inside a try.
AfterFailure(what) == IF what = "validation" THEN NextOf[what] ELSE "error"

RecordOne(p, what) ==
  LET s == scan[p] IN
  /\ s.pc = what
  /\ \/ /\ what \notin s.asked
        /\ ToScan(p, [s EXCEPT !.pc = NextOf[what]])
        /\ UNCHANGED baselines
     \/ /\ what \in s.asked /\ ~Refuses(what, intake[p])
        /\ ToScan(p, [s EXCEPT !.pc = NextOf[what], !.recorded = @ \cup {what}])
        /\ baselines' = IF what = "baseline" THEN baselines \cup {intake[p].cfg} ELSE baselines
     \/ /\ what \in s.asked
        /\ ToScan(p, [s EXCEPT !.pc = AfterFailure(what), !.failed = @ \cup {what}])
        /\ UNCHANGED baselines
  /\ UNCHANGED <<repository, intake, profile>>

\* The error of the validation recording is thrown at the end.
End(p) ==
  /\ scan[p].pc = "end"
  /\ ToScan(p, [scan[p] EXCEPT !.pc = IF scan[p].failed = {} THEN "ok" ELSE "error"])
  /\ UNCHANGED <<repository, intake, profile, baselines>>

ScanStep(p, units, wishes) ==
  \/ LoadProfile(p) \/ ParsePolicy(p, units) \/ IntakeEnds(p) \/ ParseOptions(p, wishes)
  \/ Diagnose(p) \/ Output(p) \/ End(p)
  \/ \E what \in Recordings : RecordOne(p, what)
  \/ IntakeStep(p) /\ UNCHANGED <<profile, baselines, scan>>

-----------------------------------------------------------------------------
(***************************************************************************)
(* The exit of a scan tells the truth about its recordings: it is a        *)
(* success exactly if each one asked for was made, a dry run makes none,   *)
(* and one is missing only because it failed itself or, for the trend,     *)
(* because the baseline did - never because the validation recording did.  *)
(***************************************************************************)
ScanTellsWhatItRecorded ==
  \A p \in Process : LET s == scan[p] IN
    /\ s.recorded \subseteq s.asked \ s.failed
    /\ s.dry => s.recorded = {}
    /\ s.pc = "ok" /\ ~s.dry => s.recorded = s.asked
    /\ s.pc = "error" /\ (s.recorded \cup s.failed # {}) =>
         /\ s.failed # {}
         /\ s.asked \ (s.recorded \cup s.failed) \subseteq
              IF "baseline" \in s.failed THEN {"trend"} ELSE {}

(***************************************************************************)
(* What leaves for the provider keeps to the policy: it is sent only if a  *)
(* provider was chosen and the run is not dry, it holds at most maxFiles   *)
(* of the snapshot's files, within its scope, it fits into maxPromptBytes  *)
(* with the note on what was left out, and it counts what was left out.    *)
(***************************************************************************)
PromptWithinPolicy ==
  \A p \in Process : LET s == scan[p] IN
    s.sent =>
      /\ ~s.dry /\ s.policy.enabled
      /\ s.prompt.bytes <= s.policy.maxBytes
      /\ s.prompt.bytes >= FixedBytes + Size(s.prompt.included)
      /\ Len(s.prompt.included) <= s.policy.maxFiles
      /\ \A f \in Range(s.prompt.included) :
           f \in Files(p) /\ InScope(f, Paths(p), s.policy.scope)
      /\ Len(s.prompt.included) + s.prompt.omitted <= Cardinality(Files(p))
=============================================================================
