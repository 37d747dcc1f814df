------------------------ MODULE ValidationStore_proofs ------------------------
(***************************************************************************)
(* Theorems about ValidationStore, for any number of recorders and         *)
(* observers, any ids, states, scores, horizon and bounds.  What a record  *)
(* says of the repository it belongs to holds when one recording runs at a *)
(* time; observers and the clock are free.                                 *)
(***************************************************************************)
EXTENDS ValidationStore, TLAPS

\* What a process holds when it needs it, however many run.
RecorderHolds(p) ==
  /\ pc[p] = "readId" => id # NoId
  /\ pc[p] \in {"renameId", "build"} => rec[p].repo # NoId
  /\ pc[p] \in {"statSample", "readSample", "renameSample"} => rec[p].sample # NoFile

ObserverHolds(p) ==
  pc[p] \in {"statOutcome", "readOutcome", "renameOutcome"} => obs[p].outcome # NoFile

Held ==
  /\ TypeOK
  /\ \A p \in Recorder : RecorderHolds(p)
  /\ \A p \in Observer : ObserverHolds(p)

LEMMA InitHeld == Init => Held
<1> SUFFICES ASSUME Init PROVE Held
  OBVIOUS
<1> USE ValidationAssumption DEF Init
<1>1. rec \in [Recorder -> RecordMemory]
  BY DEF RecordMemory
<1>2. obs \in [Observer -> ObserveMemory]
  BY DEF ObserveMemory
<1>3. TypeOK
  <2>1. now \in 0 .. MaxTime /\ git \in GitState /\ id \in RepoId \cup {NoId}
    OBVIOUS
  <2>2. /\ samples \in [Key -> Sample \cup {NoFile}]
        /\ outcomes \in [Key -> Outcome \cup {NoFile}]
    OBVIOUS
  <2>3. pc \in [Recorder \cup Observer ->
                 {"begin"} \cup RecordSteps \cup ObserveSteps \cup Terminal]
    OBVIOUS
  <2> QED BY <1>1, <1>2, <2>1, <2>2, <2>3 DEF TypeOK
<1>4. \A p \in Recorder : RecorderHolds(p)
  BY DEF RecorderHolds
<1>5. \A p \in Observer : ObserverHolds(p)
  BY DEF ObserverHolds
<1> QED BY <1>3, <1>4, <1>5 DEF Held

(***************************************************************************)
(* A step that leaves the locals and the place of a process alone, or ends *)
(* it, keeps what the process holds; an id that is there stays one.        *)
(***************************************************************************)
LEMMA RecorderFrame ==
  ASSUME Held, NEW q \in Recorder,
         id' # NoId \/ id' = id,
         pc'[q] = pc[q] \/ pc'[q] \in Terminal,
         rec'[q] = rec[q]
  PROVE  RecorderHolds(q)'
BY DEF Held, RecorderHolds, Terminal

LEMMA ObserverFrame ==
  ASSUME Held, NEW q \in Observer,
         pc'[q] = pc[q] \/ pc'[q] \in Terminal,
         obs'[q] = obs[q]
  PROVE  ObserverHolds(q)'
BY DEF Held, ObserverHolds, Terminal

\* One recorder moves.
LEMMA RecorderMoves ==
  ASSUME Held, NEW p \in Recorder, TypeOK',
         id' # NoId \/ id' = id, UNCHANGED obs,
         NEW l, Goto(p, l),
         \A q \in Recorder \ {p} : rec'[q] = rec[q],
         RecorderHolds(p)'
  PROVE  Held'
<1>1. \A q \in Recorder \ {p} : pc'[q] = pc[q]
  BY DEF Held, TypeOK, Goto
<1>2. \A q \in Observer : pc'[q] = pc[q]
  BY ValidationAssumption DEF Held, TypeOK, Goto
<1>3. \A q \in Recorder \ {p} : RecorderHolds(q)'
  BY <1>1, RecorderFrame
<1>4. \A q \in Observer : ObserverHolds(q)'
  BY <1>2, ObserverFrame
<1> QED BY <1>3, <1>4 DEF Held

\* One observer moves.
LEMMA ObserverMoves ==
  ASSUME Held, NEW p \in Observer, TypeOK',
         UNCHANGED <<id, rec>>,
         NEW l, Goto(p, l),
         \A q \in Observer \ {p} : obs'[q] = obs[q],
         ObserverHolds(p)'
  PROVE  Held'
<1>1. \A q \in Observer \ {p} : pc'[q] = pc[q]
  BY DEF Held, TypeOK, Goto
<1>2. \A q \in Recorder : pc'[q] = pc[q]
  BY ValidationAssumption DEF Held, TypeOK, Goto
<1>3. \A q \in Observer \ {p} : ObserverHolds(q)'
  BY <1>1, ObserverFrame
<1>4. \A q \in Recorder : RecorderHolds(q)'
  BY <1>2, RecorderFrame
<1> QED BY <1>3, <1>4 DEF Held
-----------------------------------------------------------------------------
(* One lemma for each action that changes locals or files.                 *)

LEMMA BeginRecordHeld == ASSUME Held, NEW p \in Recorder, BeginRecord(p) PROVE Held'
<1> USE DEF BeginRecord, SetRec
<1>1. PICK a \in Payload : rec' = [rec EXCEPT ![p] = [rec[p] EXCEPT !.snap = git, !.payload = a]]
  OBVIOUS
<1>2. rec[p] \in RecordMemory /\ git \in GitState
  BY DEF Held, TypeOK
<1>3. [rec[p] EXCEPT !.snap = git, !.payload = a] \in RecordMemory
  BY ONLY <1>2, a \in Payload DEF RecordMemory
<1>4. TypeOK'
  BY <1>1, <1>3 DEF Held, TypeOK, RecordSteps, Goto, world, files
<1>5. pc'[p] = "preflight" /\ \A q \in Recorder \ {p} : rec'[q] = rec[q]
  BY DEF Held, TypeOK, Goto
<1>6. RecorderHolds(p)'
  BY <1>5 DEF RecorderHolds
<1> QED BY <1>4, <1>5, <1>6, RecorderMoves DEF world, files

LEMMA PreflightHeld == ASSUME Held, NEW p \in Recorder, Preflight(p) PROVE Held'
<1> DEFINE l == IF git = rec[p].snap /\ ~git.dirty THEN "statId" ELSE "failed"
<1>1. Goto(p, l) /\ l \in {"statId", "failed"} /\ UNCHANGED <<world, files, rec, obs>>
  BY DEF Preflight
<1> HIDE DEF l
<1>2. TypeOK'
  BY <1>1 DEF Held, TypeOK, RecordSteps, Terminal, Goto, world, files
<1>3. pc'[p] = l
  BY <1>1 DEF Held, TypeOK, Goto
<1>4. RecorderHolds(p)'
  BY <1>1, <1>3 DEF RecorderHolds
<1> QED BY <1>1, <1>2, <1>4, RecorderMoves DEF world, files

LEMMA StatIdHeld == ASSUME Held, NEW p \in Recorder, StatId(p) PROVE Held'
<1>1. CASE id # NoId
  <2>1. Goto(p, "readId") /\ UNCHANGED <<world, files, rec, obs>>
    BY <1>1 DEF StatId
  <2>2. TypeOK'
    BY <2>1 DEF Held, TypeOK, RecordSteps, Goto, world, files
  <2>3. RecorderHolds(p)'
    BY <1>1, <2>1 DEF RecorderHolds, Held, TypeOK, Goto, files
  <2> QED BY <2>1, <2>2, <2>3, RecorderMoves DEF world, files
<1>2. CASE id = NoId
  <2>1. Goto(p, "renameId") /\ UNCHANGED <<world, files, obs>>
    BY <1>2 DEF StatId
  <2>2. PICK r \in RepoId : rec' = [rec EXCEPT ![p] = [rec[p] EXCEPT !.repo = r]]
    BY <1>2 DEF StatId, SetRec
  <2>3. rec[p] \in RecordMemory
    BY DEF Held, TypeOK
  <2>4. /\ [rec[p] EXCEPT !.repo = r] \in RecordMemory
        /\ [rec[p] EXCEPT !.repo = r].repo = r
    BY ONLY <2>3, r \in RepoId DEF RecordMemory
  <2>5. TypeOK'
    BY <2>1, <2>2, <2>4 DEF Held, TypeOK, RecordSteps, Goto, world, files
  <2>6. pc'[p] = "renameId" /\ rec'[p].repo = r
    BY <2>1, <2>2, <2>4 DEF Held, TypeOK, Goto
  <2>7. RecorderHolds(p)'
    BY <2>6, ValidationAssumption DEF RecorderHolds
  <2>8. \A q \in Recorder \ {p} : rec'[q] = rec[q]
    BY <2>2 DEF Held, TypeOK
  <2> QED BY <2>1, <2>5, <2>7, <2>8, RecorderMoves DEF world, files
<1> QED BY <1>1, <1>2

LEMMA ReadIdHeld == ASSUME Held, NEW p \in Recorder, ReadId(p) PROVE Held'
<1> USE DEF ReadId, SetRec
<1>1. rec[p] \in RecordMemory /\ id \in RepoId
  BY DEF Held, TypeOK, RecorderHolds
<1>2. /\ [rec[p] EXCEPT !.repo = id] \in RecordMemory
      /\ [rec[p] EXCEPT !.repo = id].repo = id
  BY ONLY <1>1 DEF RecordMemory
<1>3. TypeOK'
  BY <1>2 DEF Held, TypeOK, RecordSteps, Goto, world, files
<1>4. pc'[p] = "build" /\ rec'[p].repo = id
  BY <1>2 DEF Held, TypeOK, Goto
<1>5. RecorderHolds(p)'
  BY <1>1, <1>4, ValidationAssumption DEF RecorderHolds
<1>6. \A q \in Recorder \ {p} : rec'[q] = rec[q]
  BY DEF Held, TypeOK
<1> QED BY <1>3, <1>5, <1>6, RecorderMoves DEF world, files

LEMMA RenameIdHeld == ASSUME Held, NEW p \in Recorder, RenameId(p) PROVE Held'
<1> USE DEF RenameId
<1>1. rec[p].repo \in RepoId
  BY DEF Held, TypeOK, RecordMemory, RecorderHolds
<1>2. TypeOK'
  BY <1>1 DEF Held, TypeOK, RecordSteps, Goto, world
<1>3. RecorderHolds(p)'
  BY <1>1, ValidationAssumption DEF RecorderHolds, Held, TypeOK, Goto
<1>4. id' # NoId
  BY <1>1, ValidationAssumption
<1> QED BY <1>2, <1>3, <1>4, RecorderMoves

LEMMA BuildHeld == ASSUME Held, NEW p \in Recorder, Build(p) PROVE Held'
<1> DEFINE s == [repo |-> rec[p].repo, head |-> rec[p].snap.head,
                 payload |-> rec[p].payload, recordedAt |-> now,
                 dueAt |-> now + Horizon]
<1>1. /\ Goto(p, "statSample") /\ UNCHANGED <<world, files, obs>>
      /\ rec' = [rec EXCEPT ![p] = [rec[p] EXCEPT !.sample = s]]
  BY DEF Build, SetRec
<1>2. rec[p] \in RecordMemory
  BY DEF Held, TypeOK
<1>3. s \in Sample
  <2>1. rec[p].repo \in RepoId
    BY <1>2 DEF Held, RecorderHolds, RecordMemory, Build
  <2>2. rec[p].snap.head \in Head /\ rec[p].payload \in Payload
    BY <1>2 DEF RecordMemory, Head
  <2>3. now \in Nat /\ now + Horizon \in Nat
    BY ValidationAssumption DEF Held, TypeOK
  <2> QED BY <2>1, <2>2, <2>3 DEF Sample
<1> HIDE DEF s
<1>4. /\ [rec[p] EXCEPT !.sample = s] \in RecordMemory
      /\ [rec[p] EXCEPT !.sample = s].sample = s
  BY ONLY <1>2, <1>3 DEF RecordMemory
<1>5. TypeOK'
  BY <1>1, <1>4 DEF Held, TypeOK, RecordSteps, Goto, world, files
<1>6. pc'[p] = "statSample" /\ rec'[p].sample = s
  BY <1>1, <1>4 DEF Held, TypeOK, Goto
<1>7. RecorderHolds(p)'
  BY <1>3, <1>6, ValidationAssumption DEF RecorderHolds
<1>8. \A q \in Recorder \ {p} : rec'[q] = rec[q]
  BY <1>1 DEF Held, TypeOK
<1> QED BY <1>1, <1>5, <1>7, <1>8, RecorderMoves DEF world, files

LEMMA StatSampleHeld == ASSUME Held, NEW p \in Recorder, StatSample(p) PROVE Held'
<1>1. PICK l \in {"renameSample", "readSample"} :
        Goto(p, l) /\ pc[p] = "statSample" /\ UNCHANGED <<world, files, rec, obs>>
  BY DEF StatSample
<1>2. TypeOK'
  BY <1>1 DEF Held, TypeOK, RecordSteps, Goto, world, files
<1>3. RecorderHolds(p)'
  BY <1>1 DEF RecorderHolds, Held, TypeOK, Goto
<1> QED BY <1>1, <1>2, <1>3, RecorderMoves DEF world, files

LEMMA ReadSampleHeld == ASSUME Held, NEW p \in Recorder, ReadSample(p) PROVE Held'
<1>1. PICK l \in {"unchanged", "failed"} :
        Goto(p, l) /\ UNCHANGED <<world, files, rec, obs>>
  BY DEF ReadSample
<1>2. TypeOK'
  BY <1>1 DEF Held, TypeOK, Terminal, Goto, world, files
<1>3. RecorderHolds(p)'
  BY <1>1 DEF RecorderHolds, Held, TypeOK, Goto
<1> QED BY <1>1, <1>2, <1>3, RecorderMoves DEF world, files

LEMMA RenameSampleHeld == ASSUME Held, NEW p \in Recorder, RenameSample(p) PROVE Held'
<1> USE DEF RenameSample
<1>1. rec[p].sample \in Sample
  BY DEF Held, TypeOK, RecordMemory, RecorderHolds
<1>2. TypeOK'
  <2>1. samples' \in [Key -> Sample \cup {NoFile}]
    BY <1>1 DEF Held, TypeOK
  <2> QED BY <2>1 DEF Held, TypeOK, Terminal, Goto, world
<1>3. RecorderHolds(p)'
  BY DEF RecorderHolds, Held, TypeOK, Goto
<1> QED BY <1>2, <1>3, RecorderMoves

LEMMA BeginObserveHeld == ASSUME Held, NEW p \in Observer, BeginObserve(p) PROVE Held'
<1>1. PICK k \in Key, r \in BOOLEAN :
        obs' = [obs EXCEPT ![p] = [obs[p] EXCEPT !.key = k, !.replace = r]]
  BY DEF BeginObserve, SetObs
<1>2. Goto(p, "load") /\ UNCHANGED <<world, files, rec>>
  BY DEF BeginObserve
<1>3. obs[p] \in ObserveMemory
  BY DEF Held, TypeOK
<1>4. [obs[p] EXCEPT !.key = k, !.replace = r] \in ObserveMemory
  BY ONLY <1>3, k \in Key, r \in BOOLEAN DEF ObserveMemory
<1>5. TypeOK'
  BY <1>1, <1>2, <1>4 DEF Held, TypeOK, ObserveSteps, Goto, world, files
<1>6. ObserverHolds(p)'
  BY <1>2 DEF ObserverHolds, Held, TypeOK, Goto
<1>7. \A q \in Observer \ {p} : obs'[q] = obs[q]
  BY <1>1 DEF Held, TypeOK
<1> QED BY <1>2, <1>5, <1>6, <1>7, ObserverMoves DEF files

LEMMA LoadSampleHeld == ASSUME Held, NEW p \in Observer, LoadSample(p) PROVE Held'
<1>1. CASE Goto(p, "failed") /\ UNCHANGED <<world, files, rec, obs>>
  <2>1. TypeOK'
    BY <1>1 DEF Held, TypeOK, Terminal, Goto, world, files
  <2>2. ObserverHolds(p)'
    BY <1>1 DEF ObserverHolds, Held, TypeOK, Goto
  <2> QED BY <1>1, <2>1, <2>2, ObserverMoves DEF files
<1>2. ASSUME NEW o \in Reports(now), Goto(p, "statOutcome"), SetObs(p, [obs[p] EXCEPT !.outcome = o]),
             UNCHANGED <<world, files, rec>>
      PROVE  Held'
  <2>1. o \in Outcome
    BY ValidationAssumption DEF Reports, Outcome, Held, TypeOK
  <2>2. obs[p] \in ObserveMemory
    BY DEF Held, TypeOK
  <2>3. /\ [obs[p] EXCEPT !.outcome = o] \in ObserveMemory
        /\ [obs[p] EXCEPT !.outcome = o].outcome = o
    BY ONLY <2>1, <2>2 DEF ObserveMemory
  <2>4. TypeOK'
    BY <1>2, <2>3 DEF Held, TypeOK, ObserveSteps, Goto, SetObs, world, files
  <2>5. pc'[p] = "statOutcome" /\ obs'[p].outcome = o
    BY <1>2, <2>3 DEF Held, TypeOK, Goto, SetObs
  <2>6. ObserverHolds(p)'
    BY <2>1, <2>5, ValidationAssumption DEF ObserverHolds
  <2>7. \A q \in Observer \ {p} : obs'[q] = obs[q]
    BY <1>2 DEF Held, TypeOK, SetObs
  <2> QED BY <1>2, <2>4, <2>6, <2>7, ObserverMoves DEF files
<1> QED BY <1>1, <1>2 DEF LoadSample

LEMMA StatOutcomeHeld == ASSUME Held, NEW p \in Observer, StatOutcome(p) PROVE Held'
<1> DEFINE there == outcomes[obs[p].key] # NoFile
<1>1. /\ obs' = [obs EXCEPT ![p] = [obs[p] EXCEPT !.found = there]]
      /\ Goto(p, IF there THEN "readOutcome" ELSE "renameOutcome")
      /\ pc[p] = "statOutcome" /\ there \in BOOLEAN
      /\ UNCHANGED <<world, files, rec>>
  BY DEF StatOutcome, SetObs
<1> HIDE DEF there
<1>2. obs[p] \in ObserveMemory
  BY DEF Held, TypeOK
<1>3. /\ [obs[p] EXCEPT !.found = there] \in ObserveMemory
      /\ [obs[p] EXCEPT !.found = there].found = there
      /\ [obs[p] EXCEPT !.found = there].outcome = obs[p].outcome
  BY ONLY <1>1, <1>2 DEF ObserveMemory
<1>4. TypeOK'
  BY <1>1, <1>3 DEF Held, TypeOK, ObserveSteps, Goto, world, files
<1>5. /\ pc'[p] = IF there THEN "readOutcome" ELSE "renameOutcome"
      /\ obs'[p].found = there /\ obs'[p].outcome = obs[p].outcome
  BY <1>1, <1>3 DEF Held, TypeOK, Goto
<1>6. ObserverHolds(p)'
  BY <1>1, <1>5 DEF ObserverHolds, Held
<1>7. \A q \in Observer \ {p} : obs'[q] = obs[q]
  BY <1>1 DEF Held, TypeOK
<1> QED BY <1>1, <1>4, <1>6, <1>7, ObserverMoves DEF files

LEMMA ReadOutcomeHeld == ASSUME Held, NEW p \in Observer, ReadOutcome(p) PROVE Held'
<1>1. PICK l \in {"unchanged", "renameOutcome", "failed"} :
        /\ Goto(p, l) /\ pc[p] = "readOutcome" /\ UNCHANGED <<world, files, rec, obs>>
        /\ l = "renameOutcome" => obs[p].replace
  BY DEF ReadOutcome
<1>2. TypeOK'
  BY <1>1 DEF Held, TypeOK, ObserveSteps, Terminal, Goto, world, files
<1>3. ObserverHolds(p)'
  BY <1>1 DEF ObserverHolds, Held, TypeOK, Goto
<1> QED BY <1>1, <1>2, <1>3, ObserverMoves DEF files

LEMMA RenameOutcomeHeld == ASSUME Held, NEW p \in Observer, RenameOutcome(p) PROVE Held'
<1>1. PICK l \in {"replaced", "created"} : Goto(p, l)
  BY DEF RenameOutcome
<1>2. obs[p].outcome \in Outcome /\ obs[p].key \in Key
  BY DEF Held, TypeOK, ObserveMemory, ObserverHolds, RenameOutcome
<1>3. TypeOK'
  <2>1. outcomes' \in [Key -> Outcome \cup {NoFile}]
    BY <1>2 DEF Held, TypeOK, RenameOutcome
  <2> QED BY <1>1, <2>1 DEF Held, TypeOK, Terminal, Goto, world, RenameOutcome
<1>4. ObserverHolds(p)'
  BY <1>1 DEF ObserverHolds, Held, TypeOK, Goto
<1> QED BY <1>1, <1>3, <1>4, ObserverMoves DEF RenameOutcome

LEMMA StepHeld == Held /\ [Next]_vars => Held'
<1> SUFFICES ASSUME Held, [Next]_vars PROVE Held'
  OBVIOUS
<1>1. ASSUME NEW p \in Recorder, Record(p) PROVE Held'
  BY <1>1, BeginRecordHeld, PreflightHeld, StatIdHeld, ReadIdHeld, RenameIdHeld,
     BuildHeld, StatSampleHeld, ReadSampleHeld, RenameSampleHeld DEF Record
<1>2. ASSUME NEW p \in Observer, Observe(p) PROVE Held'
  BY <1>2, BeginObserveHeld, LoadSampleHeld, StatOutcomeHeld, ReadOutcomeHeld,
     RenameOutcomeHeld DEF Observe
<1>3. CASE (\E p \in Recorder \cup Observer : Stop(p)) \/ Tick \/ GitChange \/ UNCHANGED vars
  <2>1. TypeOK'
    <3>1. CASE \E p \in Recorder \cup Observer : Stop(p)
      BY <3>1 DEF Held, TypeOK, Stop, Terminal, Goto, world, files
    <3>2. CASE Tick
      <4>1. now' \in 0 .. MaxTime
        BY <3>2, ValidationAssumption DEF Tick, Held, TypeOK
      <4> QED BY <3>2, <4>1 DEF Tick, Held, TypeOK, files
    <3>3. CASE GitChange \/ UNCHANGED vars
      BY <3>3 DEF Held, TypeOK, GitChange, world, files, vars
    <3> QED BY <1>3, <3>1, <3>2, <3>3
  <2>2. /\ UNCHANGED <<files, rec, obs>>
        /\ \A q \in Recorder \cup Observer : pc'[q] = pc[q] \/ pc'[q] \in Terminal
    BY <1>3 DEF Stop, Tick, GitChange, vars, Goto, Terminal, Held, TypeOK
  <2>3. \A q \in Recorder : RecorderHolds(q)'
    BY <2>2, RecorderFrame DEF files
  <2>4. \A q \in Observer : ObserverHolds(q)'
    BY <2>2, ObserverFrame
  <2> QED BY <2>1, <2>3, <2>4 DEF Held
<1> QED BY <1>1, <1>2, <1>3 DEF Next

LEMMA AlwaysHeld == Spec => []Held
BY InitHeld, StepHeld, PTL DEF Spec

(***************************************************************************)
(* Every variable keeps its type, whatever is recorded and observed at the *)
(* same time.                                                              *)
(***************************************************************************)
THEOREM TypeCorrect == Spec => []TypeOK
<1>1. Held => TypeOK
  BY DEF Held
<1> QED BY <1>1, AlwaysHeld, PTL

-----------------------------------------------------------------------------
(* One report of an outcome at a time.                                     *)

\* At most one observer is at work, and one that is about to write without
\* --replace would still find no outcome.
Watched ==
  /\ Held
  /\ \A p, q \in Observer : pc[p] \in ObserveSteps /\ pc[q] \in ObserveSteps => p = q
  /\ \A p \in Observer :
       pc[p] = "renameOutcome" => obs[p].replace \/ outcomes[obs[p].key] = NoFile

LEMMA InitWatched == Init => Watched
BY InitHeld DEF Init, Watched, ObserveSteps

\* An observer's step that writes no outcome.
LEMMA ObserverWatches ==
  ASSUME Watched, Held', NEW p \in Observer, UNCHANGED outcomes,
         \/ pc[p] \in ObserveSteps
         \/ \A q \in Observer : pc[q] \notin ObserveSteps,
         NEW l, Goto(p, l), l # "renameOutcome" \/ obs'[p].replace
                              \/ outcomes[obs'[p].key] = NoFile,
         \A q \in Observer \ {p} : obs'[q] = obs[q]
  PROVE  Watched'
<1>1. pc'[p] = l /\ \A q \in Observer \ {p} : pc'[q] = pc[q]
  BY DEF Watched, Held, TypeOK, Goto
<1>2. \A q \in Observer \ {p} : pc[q] \notin ObserveSteps
  BY DEF Watched
<1>3. \A q, r \in Observer : pc'[q] \in ObserveSteps /\ pc'[r] \in ObserveSteps => q = r
  BY <1>1, <1>2
<1>4. \A q \in Observer :
        pc'[q] = "renameOutcome" =>
          obs'[q].replace \/ outcomes[obs'[q].key] = NoFile
  BY <1>1 DEF Watched
<1> QED BY <1>3, <1>4 DEF Watched

LEMMA ObserveWatched ==
  ASSUME OneObserver, Watched, Held', NEW p \in Observer, Observe(p)
  PROVE  Watched'
<1>0. TypeOK /\ obs[p] \in ObserveMemory
  BY DEF Watched, Held, TypeOK
<1>1. CASE BeginObserve(p)
  <2>1. \A q \in Observer \ {p} : obs'[q] = obs[q]
    BY <1>0, <1>1 DEF BeginObserve, SetObs, TypeOK
  <2> QED BY <1>1, <2>1, ObserverWatches DEF BeginObserve, files
<1>2. CASE LoadSample(p)
  <2>1. \A q \in Observer \ {p} : obs'[q] = obs[q]
    BY <1>0, <1>2 DEF LoadSample, SetObs, TypeOK
  <2>2. PICK l \in {"statOutcome", "failed"} : Goto(p, l)
    BY <1>2 DEF LoadSample
  <2>3. pc[p] \in ObserveSteps /\ UNCHANGED outcomes
    BY <1>2 DEF LoadSample, ObserveSteps, files
  <2> QED BY <2>1, <2>2, <2>3, ObserverWatches
<1>3. CASE StatOutcome(p)
  <2> DEFINE there == outcomes[obs[p].key] # NoFile
             l     == IF there THEN "readOutcome" ELSE "renameOutcome"
  <2>1. /\ obs' = [obs EXCEPT ![p] = [obs[p] EXCEPT !.found = there]]
        /\ Goto(p, l) /\ pc[p] \in ObserveSteps /\ UNCHANGED outcomes
    BY <1>3 DEF StatOutcome, SetObs, ObserveSteps, files
  <2>2. [obs[p] EXCEPT !.found = there].key = obs[p].key
    BY ONLY <1>0 DEF ObserveMemory
  <2>3. obs'[p].key = obs[p].key /\ \A q \in Observer \ {p} : obs'[q] = obs[q]
    BY <1>0, <2>1, <2>2 DEF TypeOK
  <2>4. l # "renameOutcome" \/ outcomes[obs'[p].key] = NoFile
    BY <2>3
  <2> HIDE DEF l
  <2> QED BY <2>1, <2>3, <2>4, ObserverWatches
<1>4. CASE ReadOutcome(p)
  <2>1. PICK l \in {"unchanged", "renameOutcome", "failed"} :
          Goto(p, l) /\ (l = "renameOutcome" => obs[p].replace)
    BY <1>4 DEF ReadOutcome
  <2>2. pc[p] = "readOutcome" /\ UNCHANGED <<outcomes, obs>>
    BY <1>4 DEF ReadOutcome, files
  <2>3. l # "renameOutcome" \/ obs'[p].replace \/ outcomes[obs'[p].key] = NoFile
    BY <2>1, <2>2
  <2>4. pc[p] \in ObserveSteps
    BY <2>2 DEF ObserveSteps
  <2> QED BY <2>1, <2>2, <2>3, <2>4, ObserverWatches
<1>5. CASE RenameOutcome(p)
  <2>1. PICK l \in {"replaced", "created"} : Goto(p, l)
    BY <1>5 DEF RenameOutcome
  <2>2. pc'[p] = l /\ \A q \in Observer \ {p} : pc'[q] = pc[q]
    BY <1>0, <2>1 DEF TypeOK, Goto
  <2>3. \A q \in Observer \ {p} : pc[q] \notin ObserveSteps
    BY <1>5 DEF RenameOutcome, Watched, ObserveSteps
  <2>4. \A q \in Observer : pc'[q] \notin ObserveSteps
    BY <2>1, <2>2, <2>3 DEF ObserveSteps
  <2> QED BY <2>4 DEF Watched, ObserveSteps
<1> QED BY <1>1, <1>2, <1>3, <1>4, <1>5 DEF Observe

LEMMA StepWatched == ASSUME OneObserver PROVE Watched /\ [Next]_vars => Watched'
<1> SUFFICES ASSUME Watched, [Next]_vars PROVE Watched'
  OBVIOUS
<1>1. Held' /\ TypeOK
  BY StepHeld DEF Watched, Held
<1>2. CASE \E p \in Observer : Observe(p)
  BY <1>1, <1>2, ObserveWatched
<1>3. CASE ~ \E p \in Observer : Observe(p)
  <2>1. CASE \E p \in Recorder : Record(p)
    <3>1. PICK p \in Recorder : Record(p)
      BY <2>1
    <3>2. UNCHANGED <<outcomes, obs>> /\ \E l : Goto(p, l)
      BY <3>1 DEF Record, BeginRecord, Preflight, StatId, ReadId, RenameId, Build,
         StatSample, ReadSample, RenameSample, files
    <3>3. \A q \in Observer : pc'[q] = pc[q]
      BY <1>1, <3>2, ValidationAssumption DEF Goto, TypeOK
    <3> QED BY <1>1, <3>2, <3>3 DEF Watched
  <2>2. CASE (\E p \in Recorder \cup Observer : Stop(p)) \/ Tick \/ GitChange \/ UNCHANGED vars
    <3>1. /\ UNCHANGED <<outcomes, obs>>
          /\ \A q \in Observer : pc'[q] = pc[q] \/ pc'[q] = "failed"
      BY <1>1, <2>2 DEF Stop, Tick, GitChange, vars, files, Goto, TypeOK
    <3> QED BY <1>1, <3>1 DEF Watched, ObserveSteps
  <2> QED BY <1>3, <2>1, <2>2 DEF Next
<1> QED BY <1>2, <1>3

(***************************************************************************)
(* While one outcome is reported at a time, a stored outcome gives way to  *)
(* another report only with --replace (validation/outcome.ts), for any     *)
(* number of recorders at the same time and however calls fail: between    *)
(* its look and its rename the observer is the only writer of outcomes.    *)
(***************************************************************************)
THEOREM OnlyReplaced == ASSUME OneObserver PROVE Spec => OutcomeOnlyReplaced
<1> DEFINE A == \A k \in Key :
       outcomes[k] # NoFile /\ ~SameReport(outcomes[k], outcomes'[k]) =>
         \E p \in Observer :
           obs[p].key = k /\ pc[p] = "renameOutcome" /\ obs[p].replace
<1>1. Watched /\ [Next]_vars => [A]_vars
  <2> SUFFICES ASSUME Watched, [Next]_vars, NEW k \in Key, outcomes[k] # NoFile,
                      ~SameReport(outcomes[k], outcomes'[k])
               PROVE  \E p \in Observer :
                        obs[p].key = k /\ pc[p] = "renameOutcome" /\ obs[p].replace
    OBVIOUS
  <2>1. outcomes'[k] # outcomes[k]
    BY DEF SameReport
  <2>2. PICK p \in Observer : RenameOutcome(p)
    BY <2>1 DEF Next, Record, BeginRecord, Preflight, StatId, ReadId, RenameId, Build,
       StatSample, ReadSample, RenameSample, Observe, BeginObserve, LoadSample,
       StatOutcome, ReadOutcome, Stop, Tick, GitChange, vars, files
  <2>3. obs[p].key = k /\ pc[p] = "renameOutcome"
    BY <2>1, <2>2 DEF RenameOutcome, Watched, Held, TypeOK
  <2> QED BY <2>3 DEF Watched
<1>2. Watched /\ [Next]_vars => Watched'
  BY StepWatched
<1> QED BY <1>1, <1>2, InitWatched, PTL DEF Spec, OutcomeOnlyReplaced

-----------------------------------------------------------------------------
(* One recording scan at a time.                                           *)

Alone ==
  \A p, q \in Recorder : pc[p] \in RecordSteps /\ pc[q] \in RecordSteps => p = q

\* What a recorder has found out stays true while it is alone.
RecorderKnows(p) ==
  /\ pc[p] = "renameId" => id = NoId
  /\ pc[p] = "build" => rec[p].repo = id
  /\ pc[p] \in {"statSample", "readSample", "renameSample"} => rec[p].sample.repo = id
  /\ pc[p] = "renameSample" => samples[KeyOf(rec[p].sample)] = NoFile

\* What an observer has accepted fits the sample that is stored.
ObserverKnows(p) ==
  pc[p] \in {"statOutcome", "readOutcome", "renameOutcome"} =>
    samples[obs[p].key] # NoFile /\ Accepted(obs[p].outcome, samples[obs[p].key])

Ledger ==
  /\ Held /\ Alone
  /\ OneIdentity /\ OutcomesFitSamples
  /\ \A p \in Recorder : RecorderKnows(p)
  /\ \A p \in Observer : ObserverKnows(p)

LEMMA InitLedger == Init => Ledger
<1> SUFFICES ASSUME Init PROVE Ledger
  OBVIOUS
<1>1. Held
  BY InitHeld
<1>2. Alone /\ \A p \in Recorder : RecorderKnows(p)
  BY DEF Init, Alone, RecordSteps, RecorderKnows
<1>3. \A p \in Observer : ObserverKnows(p)
  BY DEF Init, ObserverKnows
<1>4. OneIdentity /\ OutcomesFitSamples
  BY DEF Init, OneIdentity, OutcomesFitSamples
<1> QED BY <1>1, <1>2, <1>3, <1>4 DEF Ledger

\* Moving to a later place keeps a recorder alone; beginning needs Exclusive.
LEMMA StaysAlone ==
  ASSUME Alone, TypeOK, NEW p \in Recorder, NEW l, Goto(p, l),
         \/ pc[p] \in RecordSteps
         \/ \A q \in Recorder : pc[q] \notin RecordSteps
  PROVE  Alone'
BY DEF Alone, TypeOK, Goto

\* The other recorders are not recording when p is.
LEMMA OthersIdle ==
  ASSUME Alone, NEW p \in Recorder, pc[p] \in RecordSteps,
         NEW q \in Recorder \ {p}
  PROVE  pc[q] \notin RecordSteps
BY DEF Alone

\* A recorder that is not recording knows nothing that could become wrong.
LEMMA IdleKnows ==
  ASSUME NEW q \in Recorder, pc'[q] \notin RecordSteps
  PROVE  RecorderKnows(q)'
BY DEF RecorderKnows, RecordSteps

\* p records, and no stored sample changes.
LEMMA RecorderLearns ==
  ASSUME Ledger, Held', NEW p \in Recorder, pc[p] \in RecordSteps,
         NEW l, Goto(p, l), UNCHANGED <<outcomes, obs, samples>>,
         OneIdentity', RecorderKnows(p)'
  PROVE  Ledger'
<1>1. Alone'
  BY StaysAlone DEF Ledger, Held
<1>2. \A q \in Recorder \ {p} : pc'[q] = pc[q]
  BY DEF Ledger, Held, TypeOK, Goto
<1>3. \A q \in Recorder \ {p} : RecorderKnows(q)'
  BY <1>2, OthersIdle, IdleKnows DEF Ledger
<1>4. \A q \in Observer : pc'[q] = pc[q]
  BY ValidationAssumption DEF Ledger, Held, TypeOK, Goto
<1>5. \A q \in Observer : ObserverKnows(q)'
  BY <1>4 DEF Ledger, ObserverKnows
<1>6. OutcomesFitSamples'
  BY DEF Ledger, OutcomesFitSamples
<1> QED BY <1>1, <1>3, <1>5, <1>6 DEF Ledger

LEMMA RecordLedger ==
  ASSUME Exclusive, Ledger, Held', NEW p \in Recorder, Record(p)
  PROVE  Ledger'
<1> USE DEF Ledger
<1>0. TypeOK
  BY DEF Held
<1>1. CASE BeginRecord(p)
  <2>1. \A q \in Recorder : pc[q] \notin RecordSteps
    BY <1>1 DEF BeginRecord
  <2>2. Alone'
    BY <1>0, <1>1, <2>1, StaysAlone DEF BeginRecord
  <2>3. pc'[p] = "preflight" /\ \A q \in Recorder \ {p} : pc'[q] = pc[q]
    BY <1>0, <1>1 DEF BeginRecord, TypeOK, Goto
  <2>4. \A q \in Recorder : RecorderKnows(q)'
    BY <2>1, <2>3, IdleKnows DEF RecorderKnows
  <2>5. \A q \in Observer : pc'[q] = pc[q]
    BY <1>0, <1>1, ValidationAssumption DEF BeginRecord, TypeOK, Goto
  <2>6. \A q \in Observer : ObserverKnows(q)'
    BY <1>1, <2>5 DEF ObserverKnows, BeginRecord, files
  <2>7. OneIdentity' /\ OutcomesFitSamples'
    BY <1>1 DEF BeginRecord, files, OneIdentity, OutcomesFitSamples
  <2> QED BY <2>2, <2>4, <2>6, <2>7
<1>2. CASE Preflight(p) \/ ReadSample(p)
  <2>1. PICK l \in {"statId", "failed", "unchanged"} : Goto(p, l)
    BY <1>2 DEF Preflight, ReadSample
  <2>2. RecorderKnows(p)'
    BY <1>0, <2>1 DEF RecorderKnows, TypeOK, Goto
  <2> QED BY <1>2, <2>1, <2>2, RecorderLearns
        DEF Preflight, ReadSample, files, OneIdentity, RecordSteps
<1>3. CASE StatId(p)
  <2>1. PICK l \in {"readId", "renameId"} :
          Goto(p, l) /\ (l = "renameId" => id = NoId) /\ UNCHANGED <<files, obs>>
    BY <1>3 DEF StatId
  <2>2. RecorderKnows(p)'
    BY <1>0, <2>1 DEF RecorderKnows, TypeOK, Goto, files
  <2> QED BY <1>3, <2>1, <2>2, RecorderLearns DEF StatId, files, OneIdentity, RecordSteps
<1>4. CASE ReadId(p)
  <2>1. rec[p] \in RecordMemory
    BY <1>0 DEF TypeOK
  <2>2. [rec[p] EXCEPT !.repo = id].repo = id
    BY ONLY <2>1 DEF RecordMemory
  <2>3. pc'[p] = "build" /\ rec'[p].repo = id
    BY <1>0, <1>4, <2>2 DEF ReadId, SetRec, Goto, TypeOK
  <2>4. RecorderKnows(p)'
    BY <1>4, <2>3 DEF RecorderKnows, ReadId, files
  <2> QED BY <1>4, <2>4, RecorderLearns DEF ReadId, files, OneIdentity, RecordSteps
<1>5. CASE RenameId(p)
  <2>1. id = NoId /\ id' = rec[p].repo /\ pc'[p] = "build" /\ rec'[p] = rec[p]
    BY <1>0, <1>5 DEF RenameId, RecorderKnows, Goto, TypeOK
  <2>2. RecorderKnows(p)'
    BY <2>1 DEF RecorderKnows
  <2>3. \A k \in Key : samples[k] = NoFile
    BY <1>0, <2>1, ValidationAssumption DEF OneIdentity, TypeOK, Sample
  <2>4. OneIdentity'
    BY <1>5, <2>3 DEF OneIdentity, RenameId
  <2> QED BY <1>5, <2>2, <2>4, RecorderLearns DEF RenameId, RecordSteps
<1>6. CASE Build(p)
  <2> DEFINE s == [repo |-> rec[p].repo, head |-> rec[p].snap.head,
                   payload |-> rec[p].payload, recordedAt |-> now,
                   dueAt |-> now + Horizon]
  <2>1. rec' = [rec EXCEPT ![p] = [rec[p] EXCEPT !.sample = s]] /\ s.repo = id
    BY <1>6 DEF Build, SetRec, RecorderKnows
  <2> HIDE DEF s
  <2>2. rec[p] \in RecordMemory
    BY <1>0 DEF TypeOK
  <2>3. [rec[p] EXCEPT !.sample = s].sample = s
    BY ONLY <2>2 DEF RecordMemory
  <2>4. pc'[p] = "statSample" /\ rec'[p].sample = s
    BY <1>0, <1>6, <2>1, <2>3 DEF Build, Goto, TypeOK
  <2>5. RecorderKnows(p)'
    BY <1>6, <2>1, <2>4 DEF RecorderKnows, Build, files
  <2> QED BY <1>6, <2>5, RecorderLearns DEF Build, files, OneIdentity, RecordSteps
<1>7. CASE StatSample(p)
  <2>1. PICK l \in {"renameSample", "readSample"} :
          /\ Goto(p, l) /\ UNCHANGED <<files, obs, rec>>
          /\ l = "renameSample" => samples[KeyOf(rec[p].sample)] = NoFile
    BY <1>7 DEF StatSample
  <2>2. pc[p] = "statSample" /\ pc'[p] = l
    BY <1>0, <1>7, <2>1 DEF StatSample, TypeOK, Goto
  <2>3. RecorderKnows(p)'
    BY <2>1, <2>2 DEF RecorderKnows, files, KeyOf
  <2> QED BY <2>1, <2>2, <2>3, RecorderLearns DEF files, OneIdentity, RecordSteps
<1>8. CASE RenameSample(p)
  <2> DEFINE s == rec[p].sample
  <2>1. s \in Sample /\ s.repo = id /\ samples[KeyOf(s)] = NoFile
    BY <1>0, <1>8 DEF RenameSample, Held, RecorderHolds, RecorderKnows, TypeOK,
       RecordMemory
  <2>2. KeyOf(s) \in Key
    BY <2>1 DEF KeyOf, Key, Sample
  <2>3. \A k \in Key : samples'[k] = IF k = KeyOf(s) THEN s ELSE samples[k]
    BY <1>0, <1>8, <2>2 DEF RenameSample, TypeOK
  <2>4. OneIdentity'
    BY <1>8, <2>1, <2>3 DEF RenameSample, OneIdentity
  <2>5. \A k \in Key : samples[k] # NoFile => samples'[k] = samples[k]
    BY <2>1, <2>3
  <2>6. OutcomesFitSamples'
    BY <1>8, <2>5 DEF RenameSample, OutcomesFitSamples
  <2>7. Goto(p, "created") /\ pc[p] = "renameSample"
    BY <1>8 DEF RenameSample
  <2>8. \A q \in Observer : pc'[q] = pc[q] /\ obs'[q] = obs[q] /\ obs[q].key \in Key
    BY <1>0, <1>8, ValidationAssumption DEF RenameSample, TypeOK, ObserveMemory, Goto
  <2>9. \A q \in Observer : ObserverKnows(q)'
    BY <2>5, <2>8 DEF ObserverKnows
  <2>10. Alone'
    BY <1>0, <2>7, StaysAlone DEF RecordSteps
  <2>11. \A q \in Recorder : pc'[q] \notin RecordSteps
    BY <1>0, <2>7, OthersIdle DEF RecordSteps, Goto, TypeOK
  <2> QED BY <2>4, <2>6, <2>9, <2>10, <2>11, IdleKnows
<1> QED BY <1>1, <1>2, <1>3, <1>4, <1>5, <1>6, <1>7, <1>8 DEF Record

\* An observer moves; only the outcome of the key it observes may change, to
\* one that fits the sample stored there.
LEMMA ObserverLearns ==
  ASSUME Ledger, Held', NEW p \in Observer, UNCHANGED <<id, samples, rec>>,
         NEW l, Goto(p, l),
         \A q \in Observer \ {p} : obs'[q] = obs[q],
         ObserverKnows(p)', OutcomesFitSamples'
  PROVE  Ledger'
<1>1. \A q \in Recorder : pc'[q] = pc[q]
  BY ValidationAssumption DEF Ledger, Held, TypeOK, Goto
<1>2. Alone' /\ \A q \in Recorder : RecorderKnows(q)'
  BY <1>1 DEF Ledger, Alone, RecorderKnows
<1>3. \A q \in Observer \ {p} : pc'[q] = pc[q]
  BY DEF Ledger, Held, TypeOK, Goto
<1>4. \A q \in Observer \ {p} : ObserverKnows(q)'
  BY <1>3 DEF Ledger, ObserverKnows
<1>5. OneIdentity'
  BY DEF Ledger, OneIdentity
<1> QED BY <1>2, <1>4, <1>5 DEF Ledger

LEMMA ObserveLedger ==
  ASSUME Ledger, Held', NEW p \in Observer, Observe(p)
  PROVE  Ledger'
<1> USE DEF Ledger
<1>0. TypeOK /\ obs[p] \in ObserveMemory
  BY DEF Held, TypeOK
<1>1. CASE BeginObserve(p)
  <2>1. pc'[p] = "load" /\ \A q \in Observer \ {p} : obs'[q] = obs[q]
    BY <1>0, <1>1 DEF BeginObserve, SetObs, Goto, TypeOK
  <2>2. ObserverKnows(p)'
    BY <2>1 DEF ObserverKnows
  <2>3. OutcomesFitSamples'
    BY <1>1 DEF BeginObserve, files, OutcomesFitSamples
  <2> QED BY <1>1, <2>1, <2>2, <2>3, ObserverLearns DEF BeginObserve, files
<1>2. CASE LoadSample(p)
  <2>0. OutcomesFitSamples'
    BY <1>2 DEF LoadSample, files, OutcomesFitSamples
  <2>1. CASE Goto(p, "failed") /\ UNCHANGED obs
    <3>1. ObserverKnows(p)'
      BY <1>0, <2>1 DEF ObserverKnows, Goto, TypeOK
    <3> QED BY <1>2, <2>0, <2>1, <3>1, ObserverLearns DEF LoadSample, files
  <2>2. ASSUME NEW o \in Reports(now), samples[obs[p].key] # NoFile,
               Accepted(o, samples[obs[p].key]),
               SetObs(p, [obs[p] EXCEPT !.outcome = o]), Goto(p, "statOutcome")
        PROVE  Ledger'
    <3>1. /\ [obs[p] EXCEPT !.outcome = o].outcome = o
          /\ [obs[p] EXCEPT !.outcome = o].key = obs[p].key
      BY ONLY <1>0 DEF ObserveMemory
    <3>2. /\ obs'[p].outcome = o /\ obs'[p].key = obs[p].key
          /\ \A q \in Observer \ {p} : obs'[q] = obs[q]
      BY <1>0, <2>2, <3>1 DEF SetObs, TypeOK
    <3>3. UNCHANGED <<id, samples, rec>>
      BY <1>2 DEF LoadSample, files
    <3>4. ObserverKnows(p)'
      BY <2>2, <3>2, <3>3 DEF ObserverKnows
    <3> QED BY <2>0, <2>2, <3>2, <3>3, <3>4, ObserverLearns
  <2> QED BY <1>2, <2>1, <2>2 DEF LoadSample
<1>3. CASE StatOutcome(p)
  <2> DEFINE there == outcomes[obs[p].key] # NoFile
  <2>1. /\ SetObs(p, [obs[p] EXCEPT !.found = there])
        /\ pc[p] = "statOutcome" /\ UNCHANGED <<world, files, rec>>
    BY <1>3 DEF StatOutcome
  <2>2. PICK l : Goto(p, l)
    BY <1>3 DEF StatOutcome
  <2> HIDE DEF there
  <2>3. /\ [obs[p] EXCEPT !.found = there].outcome = obs[p].outcome
        /\ [obs[p] EXCEPT !.found = there].key = obs[p].key
    BY ONLY <1>0 DEF ObserveMemory
  <2>4. /\ obs'[p].outcome = obs[p].outcome /\ obs'[p].key = obs[p].key
        /\ \A q \in Observer \ {p} : obs'[q] = obs[q]
    BY <1>0, <2>1, <2>3 DEF SetObs, TypeOK
  <2>5. ObserverKnows(p)'
    BY <2>1, <2>4 DEF ObserverKnows, files
  <2>6. OutcomesFitSamples'
    BY <2>1 DEF files, OutcomesFitSamples
  <2> QED BY <2>1, <2>2, <2>4, <2>5, <2>6, ObserverLearns DEF files
<1>4. CASE ReadOutcome(p)
  <2>1. PICK l : Goto(p, l)
    BY <1>4 DEF ReadOutcome
  <2>2. ObserverKnows(p)' /\ OutcomesFitSamples'
    BY <1>4 DEF ReadOutcome, ObserverKnows, OutcomesFitSamples, files
  <2> QED BY <1>4, <2>1, <2>2, ObserverLearns DEF ReadOutcome, files
<1>5. CASE RenameOutcome(p)
  <2> DEFINE o == obs[p].outcome
             s == samples[obs[p].key]
  <2>1. PICK l \in {"replaced", "created"} : Goto(p, l)
    BY <1>5 DEF RenameOutcome
  <2>2. s # NoFile /\ Accepted(o, s)
    BY <1>5 DEF RenameOutcome, ObserverKnows
  <2>3. \A k \in Key : outcomes'[k] = IF k = obs[p].key THEN o ELSE outcomes[k]
    BY <1>0, <1>5 DEF RenameOutcome, TypeOK
  <2>4. OutcomesFitSamples'
    <3>1. samples' = samples
      BY <1>5 DEF RenameOutcome
    <3> SUFFICES ASSUME NEW k \in Key, outcomes'[k] # NoFile
                 PROVE  /\ samples[k] # NoFile
                        /\ Accepted(outcomes'[k], samples[k])
      BY <3>1 DEF OutcomesFitSamples, Accepted
    <3>2. CASE k = obs[p].key
      BY <2>2, <2>3, <3>2
    <3>3. CASE k # obs[p].key
      BY <2>3, <3>3 DEF OutcomesFitSamples, Accepted
    <3> QED BY <3>2, <3>3
  <2>5. ObserverKnows(p)'
    BY <1>0, <2>1 DEF ObserverKnows, Goto, TypeOK
  <2> QED BY <1>5, <2>1, <2>4, <2>5, ObserverLearns DEF RenameOutcome
<1> QED BY <1>1, <1>2, <1>3, <1>4, <1>5 DEF Observe

LEMMA StepLedger == ASSUME Exclusive PROVE Ledger /\ [Next]_vars => Ledger'
<1> SUFFICES ASSUME Ledger, [Next]_vars PROVE Ledger'
  OBVIOUS
<1>1. Held'
  BY StepHeld DEF Ledger
<1>2. CASE \E p \in Recorder : Record(p)
  BY <1>1, <1>2, RecordLedger
<1>3. CASE \E p \in Observer : Observe(p)
  BY <1>1, <1>3, ObserveLedger
<1>4. CASE (\E p \in Recorder \cup Observer : Stop(p)) \/ Tick \/ GitChange \/ UNCHANGED vars
  <2>1. /\ UNCHANGED <<files, rec, obs>>
        /\ \A q \in Recorder \cup Observer : pc'[q] = pc[q] \/ pc'[q] = "failed"
    BY <1>4 DEF Stop, Tick, GitChange, vars, Goto, Ledger, Held, TypeOK
  <2>2. Alone'
    BY <2>1 DEF Ledger, Alone, RecordSteps
  <2>3. \A q \in Recorder : RecorderKnows(q)'
    BY <2>1 DEF Ledger, RecorderKnows, files
  <2>4. \A q \in Observer : ObserverKnows(q)'
    BY <2>1 DEF Ledger, ObserverKnows, files
  <2>5. OneIdentity' /\ OutcomesFitSamples'
    BY <2>1 DEF Ledger, OneIdentity, OutcomesFitSamples, files
  <2> QED BY <1>1, <2>2, <2>3, <2>4, <2>5 DEF Ledger
<1> QED BY <1>2, <1>3, <1>4 DEF Next

LEMMA AlwaysLedger == ASSUME Exclusive PROVE Spec => []Ledger
<1>1. Ledger /\ [Next]_vars => Ledger'
  BY StepLedger
<1> QED BY <1>1, InitLedger, PTL DEF Spec

(***************************************************************************)
(* While one recording runs at a time, every outcome belongs to a sample   *)
(* and fits its horizon, and every sample carries the stored id, for any   *)
(* number of observers (validation/store.ts, validation/outcome.ts).       *)
(***************************************************************************)
THEOREM OutcomesFit == ASSUME Exclusive PROVE Spec => []OutcomesFitSamples
<1>1. Ledger => OutcomesFitSamples
  BY DEF Ledger
<1> QED BY <1>1, AlwaysLedger, PTL

(***************************************************************************)
(* While one recording runs at a time, all samples carry the id that the   *)
(* repository's file holds (validation/store.ts).                          *)
(***************************************************************************)
THEOREM SamplesShareId == ASSUME Exclusive PROVE Spec => []OneIdentity
<1>1. Ledger => OneIdentity
  BY DEF Ledger
<1> QED BY <1>1, AlwaysLedger, PTL

\* What is stored stays stored, and time does not go back.
LEMMA StepKeepsSamples ==
  ASSUME Ledger, [Next]_vars, NEW k \in Key, samples[k] # NoFile
  PROVE  samples'[k] = samples[k]
<1> SUFFICES ASSUME samples'[k] # samples[k] PROVE FALSE
  OBVIOUS
<1>1. PICK p \in Recorder : RenameSample(p)
  BY DEF Next, Record, BeginRecord, Preflight, StatId, ReadId, RenameId, Build,
     StatSample, ReadSample, RenameSample, Observe, BeginObserve, LoadSample,
     StatOutcome, ReadOutcome, RenameOutcome, Stop, Tick, GitChange, vars, files
<1>2. samples[KeyOf(rec[p].sample)] = NoFile
  BY <1>1 DEF RenameSample, Ledger, RecorderKnows
<1> QED BY <1>1, <1>2 DEF RenameSample, Ledger, Held, TypeOK

LEMMA StepKeepsOutcomes ==
  ASSUME Held, [Next]_vars, NEW k \in Key, outcomes[k] # NoFile
  PROVE  outcomes'[k] # NoFile
<1>1. CASE outcomes' = outcomes
  BY <1>1
<1>2. CASE \E p \in Observer : RenameOutcome(p)
  <2>1. PICK p \in Observer : RenameOutcome(p)
    BY <1>2
  <2>2. obs[p].outcome # NoFile
    BY <2>1 DEF RenameOutcome, Held, ObserverHolds
  <2> QED BY <2>1, <2>2 DEF RenameOutcome, Held, TypeOK
<1> QED BY <1>1, <1>2 DEF Next, Record, BeginRecord, Preflight, StatId, ReadId, RenameId,
     Build, StatSample, ReadSample, RenameSample, Observe, BeginObserve, LoadSample,
     StatOutcome, ReadOutcome, Stop, Tick, GitChange, vars, files

LEMMA StepKeepsTime == ASSUME Held, [Next]_vars PROVE now' >= now
<1>1. now \in Int
  BY DEF Held, TypeOK
<1>2. CASE Tick
  BY <1>1, <1>2 DEF Tick
<1>3. now' = now => now' >= now
  BY <1>1
<1> QED BY <1>2, <1>3 DEF Next, Record, BeginRecord, Preflight, StatId, ReadId, RenameId,
     Build, StatSample, ReadSample, RenameSample, Observe, BeginObserve, LoadSample,
     StatOutcome, ReadOutcome, RenameOutcome, Stop, GitChange, vars, world

(***************************************************************************)
(* While one recording runs at a time, a stored sample is never written    *)
(* again (validation/store.ts): the writer is alone from the look to the   *)
(* rename.                                                                 *)
(***************************************************************************)
THEOREM SamplesStay == ASSUME Exclusive PROVE Spec => SamplesImmutable
<1> DEFINE A == \A k \in Key : samples[k] # NoFile => samples'[k] = samples[k]
<1>1. Ledger /\ [Next]_vars => [A]_vars
  BY StepKeepsSamples
<1> QED BY <1>1, AlwaysLedger, PTL DEF Spec, SamplesImmutable

(***************************************************************************)
(* While one recording runs at a time, `validation status` of a sample     *)
(* goes from pending to due to complete and never back                     *)
(* (validation/outcome.ts).                                                *)
(***************************************************************************)
THEOREM StatusAdvances == ASSUME Exclusive PROVE Spec => StatusOnlyAdvances
<1> DEFINE A == \A k \in Key : samples[k] # NoFile => Rank(State(k)') >= Rank(State(k))
<1>1. Ledger /\ [Next]_vars => [A]_vars
  <2> SUFFICES ASSUME Ledger, [Next]_vars, NEW k \in Key, samples[k] # NoFile
               PROVE  Rank(State(k)') >= Rank(State(k))
    OBVIOUS
  <2>1. Held
    BY DEF Ledger
  <2>2. samples'[k] = samples[k]
    BY StepKeepsSamples
  <2>3. outcomes[k] # NoFile => outcomes'[k] # NoFile
    BY <2>1, StepKeepsOutcomes
  <2>4. Held'
    BY <2>1, StepHeld
  <2>5. now \in Int /\ now' \in Int /\ now' >= now
    BY <2>1, <2>4, StepKeepsTime DEF Held, TypeOK
  <2>6. samples[k].dueAt \in Int
    BY <2>1 DEF Held, TypeOK, Sample
  <2>7. State(k) = "due" => State(k)' \in {"due", "complete"}
    BY <2>2, <2>5, <2>6 DEF State
  <2>8. State(k) = "complete" => State(k)' = "complete"
    BY <2>3 DEF State
  <2>9. State(k) \in {"pending", "due", "complete"} /\ State(k)' \in {"pending", "due", "complete"}
    BY DEF State
  <2> HIDE DEF A
  <2> QED BY ONLY <2>7, <2>8, <2>9 DEF Rank
<1> QED BY <1>1, AlwaysLedger, PTL DEF Spec, StatusOnlyAdvances
=============================================================================
