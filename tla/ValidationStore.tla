--------------------------- MODULE ValidationStore ---------------------------
(***************************************************************************)
(* The prospective validation records of a repository, under               *)
(* .r3-doctor/validation: one repository id, one sample for each thing     *)
(* recorded with `scan --record-validation`, one outcome for each sample   *)
(* observed with `validation outcome`.  Processes look whether a file is   *)
(* there, decide, and rename a new file into place; nothing locks the      *)
(* three.  Days pass and Git moves between any two steps.                  *)
(*                                                                         *)
(* A replacement by rename is one step here: that the temporary file is    *)
(* whole and the directory still the validated one is TrendStore's subject.*)
(***************************************************************************)
EXTENDS Integers, FiniteSets

CONSTANTS
  Recorder, Observer,  \* the invocations that record a sample, an outcome
  RepoId,              \* the UUIDs that recorders draw
  GitState,            \* what an inspection can see: the head, and if it is clean
  Payload,             \* scores a diagnosis of the same head may compute
  Horizon,             \* horizonDays
  MaxTime,             \* bound of the clock, in days
  Exclusive,           \* does the operator run one recording scan at a time?
  OneObserver,         \* and one `validation outcome` at a time?
  NoId, NoFile

Head == {g.head : g \in GitState}

\* sampleId hashes the repository id and all that a sample is about.
Key    == RepoId \X Head
Sample == [repo: RepoId, head: Head, payload: Payload, recordedAt: Nat, dueAt: Nat]

\* revert and hotfix are treated as regression is.
Positive == {"regression"}
Outcome  == [kind: Positive, occurredAt: Nat, observedAt: Nat]
            \cup [kind: {"no-regression"}, observedAt: Nat]

ASSUME ValidationAssumption ==
  /\ \A g \in GitState : g.dirty \in BOOLEAN
  /\ Horizon \in Nat \ {0} /\ MaxTime \in Nat
  /\ Exclusive \in BOOLEAN /\ OneObserver \in BOOLEAN
  /\ NoId \notin RepoId /\ NoFile \notin Sample \cup Outcome
  /\ Recorder \cap Observer = {}

VARIABLES
  now,       \* the clock
  git,       \* what `git` shows
  id,        \* the file repository-id
  samples,   \* snapshots/<sampleId>.json
  outcomes,  \* outcomes/<sampleId>.json
  pc,        \* the operation each process does next
  rec,       \* the locals of each recorder
  obs        \* the locals of each observer

world == <<now, git>>
files == <<id, samples, outcomes>>
vars  == <<world, files, pc, rec, obs>>

RecordSteps  == {"preflight", "statId", "readId", "renameId", "build",
                 "statSample", "readSample", "renameSample"}
ObserveSteps == {"load", "statOutcome", "readOutcome", "renameOutcome"}
Terminal     == {"created", "unchanged", "replaced", "failed"}

RecordMemory  == [snap: GitState, payload: Payload, repo: RepoId \cup {NoId},
                  sample: Sample \cup {NoFile}]
ObserveMemory == [key: Key, outcome: Outcome \cup {NoFile}, replace: BOOLEAN,
                  found: BOOLEAN]

TypeOK ==
  /\ now \in 0 .. MaxTime /\ git \in GitState
  /\ id \in RepoId \cup {NoId}
  /\ samples \in [Key -> Sample \cup {NoFile}]
  /\ outcomes \in [Key -> Outcome \cup {NoFile}]
  /\ pc \in [Recorder \cup Observer ->
               {"begin"} \cup RecordSteps \cup ObserveSteps \cup Terminal]
  /\ rec \in [Recorder -> RecordMemory]
  /\ obs \in [Observer -> ObserveMemory]

-----------------------------------------------------------------------------
KeyOf(s) == <<s.repo, s.head>>

Goto(p, label) == pc' = [pc EXCEPT ![p] = label]
SetRec(p, m)   == rec' = [rec EXCEPT ![p] = m]
SetObs(p, m)   == obs' = [obs EXCEPT ![p] = m]

Init ==
  /\ now = 0 /\ git \in GitState
  /\ id = NoId
  /\ samples = [k \in Key |-> NoFile] /\ outcomes = [k \in Key |-> NoFile]
  /\ pc = [p \in Recorder \cup Observer |-> "begin"]
  /\ \E a \in Payload :
       rec = [p \in Recorder |->
                [snap |-> git, payload |-> a, repo |-> NoId, sample |-> NoFile]]
  /\ \E k \in Key :
       obs = [p \in Observer |->
                [key |-> k, outcome |-> NoFile, replace |-> FALSE, found |-> FALSE]]

-----------------------------------------------------------------------------
(* saveValidationSnapshot.                                                 *)

\* Intake and diagnosis.
BeginRecord(p) ==
  /\ pc[p] = "begin"
  /\ Exclusive => \A q \in Recorder : pc[q] \notin RecordSteps
  /\ \E a \in Payload : SetRec(p, [rec[p] EXCEPT !.snap = git, !.payload = a])
  /\ Goto(p, "preflight")
  /\ UNCHANGED <<world, files, obs>>

\* assertValidationRecordingAllowed: nothing is written for a state of the
\* repository that is dirty or is no longer the analysed one.
Preflight(p) ==
  /\ pc[p] = "preflight"
  /\ Goto(p, IF git = rec[p].snap /\ ~git.dirty THEN "statId" ELSE "failed")
  /\ UNCHANGED <<world, files, rec, obs>>

StatId(p) ==
  /\ pc[p] = "statId"
  /\ IF id # NoId
     THEN Goto(p, "readId") /\ UNCHANGED rec
     ELSE /\ \E r \in RepoId : SetRec(p, [rec[p] EXCEPT !.repo = r])
          /\ Goto(p, "renameId")
  /\ UNCHANGED <<world, files, obs>>

ReadId(p) ==
  /\ pc[p] = "readId"
  /\ SetRec(p, [rec[p] EXCEPT !.repo = id])
  /\ Goto(p, "build")
  /\ UNCHANGED <<world, files, obs>>

\* Mutant: the id is used but not stored.
RenameIdUnwritten(p) ==
  /\ pc[p] = "renameId"
  /\ Goto(p, "build")
  /\ UNCHANGED <<world, files, rec, obs>>

RenameId(p) ==
  /\ pc[p] = "renameId"
  /\ id' = rec[p].repo
  /\ Goto(p, "build")
  /\ UNCHANGED <<world, samples, outcomes, rec, obs>>

\* buildValidationSnapshot; setUTCDate adds whole days.
Build(p) ==
  /\ pc[p] = "build"
  /\ SetRec(p, [rec[p] EXCEPT !.sample =
       [repo |-> rec[p].repo, head |-> rec[p].snap.head, payload |-> rec[p].payload,
        recordedAt |-> now, dueAt |-> now + Horizon]])
  /\ Goto(p, "statSample")
  /\ UNCHANGED <<world, files, obs>>

\* Mutant: a sample that is there is not looked for.
StatNoSample(p) ==
  /\ pc[p] = "statSample"
  /\ Goto(p, "renameSample")
  /\ UNCHANGED <<world, files, rec, obs>>

StatSample(p) ==
  /\ pc[p] = "statSample"
  /\ Goto(p, IF samples[KeyOf(rec[p].sample)] = NoFile THEN "renameSample" ELSE "readSample")
  /\ UNCHANGED <<world, files, rec, obs>>

\* Equal but for the times of recording: nothing is written.
ReadSample(p) ==
  /\ pc[p] = "readSample"
  /\ LET stored == samples[KeyOf(rec[p].sample)] IN
     Goto(p, IF stored.payload = rec[p].sample.payload THEN "unchanged" ELSE "failed")
  /\ UNCHANGED <<world, files, rec, obs>>

RenameSample(p) ==
  /\ pc[p] = "renameSample"
  /\ samples' = [samples EXCEPT ![KeyOf(rec[p].sample)] = rec[p].sample]
  /\ Goto(p, "created")
  /\ UNCHANGED <<world, id, outcomes, rec, obs>>

-----------------------------------------------------------------------------
(* saveValidationOutcome.                                                  *)

\* The sample is named by its id, so it was once shown to the user.
BeginObserve(p) ==
  /\ pc[p] = "begin"
  /\ OneObserver => \A q \in Observer : pc[q] \notin ObserveSteps
  /\ \E k \in Key, r \in BOOLEAN :
       SetObs(p, [obs[p] EXCEPT !.key = k, !.replace = r])
  /\ Goto(p, "load")
  /\ UNCHANGED <<world, files, rec>>

\* Mutant: the horizon is not checked for its end.
AcceptedLate(o, s) ==
  IF o.kind = "no-regression" THEN o.observedAt >= s.dueAt
  ELSE o.occurredAt >= s.recordedAt /\ o.occurredAt <= o.observedAt

\* No regression is known only when the horizon has passed; what happened
\* lies within the horizon and not in the future.
Accepted(o, s) ==
  IF o.kind = "no-regression" THEN o.observedAt >= s.dueAt
  ELSE /\ o.occurredAt \in s.recordedAt .. s.dueAt
       /\ o.occurredAt <= o.observedAt

\* What the user may report at time t.
Reports(t) ==
  [kind: {"no-regression"}, observedAt: {t}]
  \cup [kind: Positive, occurredAt: 0 .. MaxTime, observedAt: {t}]

\* loadValidationSnapshots, and the checks against the sample.
LoadSample(p) ==
  /\ pc[p] = "load"
  /\ \E o \in Reports(now) :
       LET s == samples[obs[p].key] IN
       IF s # NoFile /\ Accepted(o, s)
       THEN SetObs(p, [obs[p] EXCEPT !.outcome = o]) /\ Goto(p, "statOutcome")
       ELSE Goto(p, "failed") /\ UNCHANGED obs
  /\ UNCHANGED <<world, files, rec>>

StatOutcome(p) ==
  /\ pc[p] = "statOutcome"
  /\ LET there == outcomes[obs[p].key] # NoFile IN
     /\ SetObs(p, [obs[p] EXCEPT !.found = there])
     /\ Goto(p, IF there THEN "readOutcome" ELSE "renameOutcome")
  /\ UNCHANGED <<world, files, rec>>

\* Outcomes are compared without the time of the observation.
SameReport(o, q) ==
  o.kind = q.kind /\ (o.kind = "no-regression" \/ o.occurredAt = q.occurredAt)

\* Mutant: a different outcome is replaced without being asked.
ReadOutcomeOverwrite(p) ==
  /\ pc[p] = "readOutcome"
  /\ Goto(p, IF SameReport(outcomes[obs[p].key], obs[p].outcome)
             THEN "unchanged" ELSE "renameOutcome")
  /\ UNCHANGED <<world, files, rec, obs>>

ReadOutcome(p) ==
  /\ pc[p] = "readOutcome"
  /\ Goto(p, IF SameReport(outcomes[obs[p].key], obs[p].outcome) THEN "unchanged"
             ELSE IF obs[p].replace THEN "renameOutcome" ELSE "failed")
  /\ UNCHANGED <<world, files, rec, obs>>

RenameOutcome(p) ==
  /\ pc[p] = "renameOutcome"
  /\ outcomes' = [outcomes EXCEPT ![obs[p].key] = obs[p].outcome]
  /\ Goto(p, IF obs[p].found THEN "replaced" ELSE "created")
  /\ UNCHANGED <<world, id, samples, rec, obs>>

-----------------------------------------------------------------------------
\* An awaited call rejects, or the process is killed: what it wrote stays.
Stop(p) ==
  /\ pc[p] \in RecordSteps \cup ObserveSteps
  /\ Goto(p, "failed")
  /\ UNCHANGED <<world, files, rec, obs>>

Tick ==
  /\ now < MaxTime /\ now' = now + 1
  /\ UNCHANGED <<git, files, pc, rec, obs>>

GitChange ==
  /\ git' \in GitState \ {git}
  /\ UNCHANGED <<now, files, pc, rec, obs>>

Record(p) ==
  \/ BeginRecord(p) \/ Preflight(p) \/ StatId(p) \/ ReadId(p) \/ RenameId(p)
  \/ Build(p) \/ StatSample(p) \/ ReadSample(p) \/ RenameSample(p)

Observe(p) ==
  \/ BeginObserve(p) \/ LoadSample(p) \/ StatOutcome(p) \/ ReadOutcome(p)
  \/ RenameOutcome(p)

Next ==
  \/ \E p \in Recorder : Record(p)
  \/ \E p \in Observer : Observe(p)
  \/ \E p \in Recorder \cup Observer : Stop(p)
  \/ Tick \/ GitChange

Spec == Init /\ [][Next]_vars

-----------------------------------------------------------------------------
\* buildValidationStatus, for one stored sample.
State(k) ==
  IF outcomes[k] # NoFile THEN "complete"
  ELSE IF now >= samples[k].dueAt THEN "due" ELSE "pending"

(***************************************************************************)
(* Every outcome belongs to a stored sample and fits its horizon, whatever *)
(* is recorded and observed at the same time: "no regression" was not said *)
(* before the sample was due, and what happened lies between recordedAt    *)
(* and dueAt (docs/spec/shadow-score-validation.md).  Needs one recording  *)
(* scan at a time: a second one may replace the sample.                    *)
(***************************************************************************)
OutcomesFitSamples ==
  \A k \in Key : outcomes[k] # NoFile =>
    /\ samples[k] # NoFile
    /\ outcomes[k].kind = "no-regression" =>
         outcomes[k].observedAt >= samples[k].dueAt
    /\ outcomes[k].kind # "no-regression" =>
         /\ outcomes[k].occurredAt \in samples[k].recordedAt .. samples[k].dueAt
         /\ outcomes[k].occurredAt <= outcomes[k].observedAt

(***************************************************************************)
(* All samples of a repository carry the id that its file holds, although  *)
(* the id is drawn, written and read in separate steps: `calibration       *)
(* compare` counts repositories by it.                                     *)
(***************************************************************************)
OneIdentity == \A k \in Key : samples[k] # NoFile => samples[k].repo = id

(***************************************************************************)
(* shadow-score-validation-design.md:209: a stored sample is never written *)
(* again, neither by a retry nor by a diagnosis with other scores.  Two    *)
(* recording scans that both found no sample do (storage.ts:113, :125).    *)
(***************************************************************************)
SamplesImmutable ==
  [][\A k \in Key : samples[k] # NoFile => samples'[k] = samples[k]]_vars

Rank(state) == CASE state = "pending" -> 0 [] state = "due" -> 1 [] OTHER -> 2

(***************************************************************************)
(* What `validation status` shows of a sample only advances, from pending  *)
(* to due to complete.                                                     *)
(***************************************************************************)
StatusOnlyAdvances ==
  [][\A k \in Key : samples[k] # NoFile => Rank(State(k)') >= Rank(State(k))]_vars

(***************************************************************************)
(* shadow-score-validation-design.md:229: an outcome that differs from the *)
(* stored one does not overwrite it, the command ends with an error; only  *)
(* --replace does (outcome.ts:100 looks, :118 writes).  Holds while one    *)
(* outcome is reported at a time; two observers that both found no file    *)
(* overwrite each other.                                                   *)
(***************************************************************************)
OutcomeOnlyReplaced ==
  [][\A k \in Key :
       outcomes[k] # NoFile /\ ~SameReport(outcomes[k], outcomes'[k]) =>
         \E p \in Observer :
           obs[p].key = k /\ pc[p] = "renameOutcome" /\ obs[p].replace]_vars

(***************************************************************************)
(* docs/spec/shadow-score-validation.md:31 Git integrity is verified       *)
(* "before and after the write": a recording that reports success ends in  *)
(* the state of the repository that it analysed.                           *)
(***************************************************************************)
RecordedStateHolds ==
  [][\A p \in Recorder :
       pc[p] # "created" /\ pc'[p] = "created" => git = rec[p].snap]_vars
=============================================================================
