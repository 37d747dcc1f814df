-------------------------- MODULE BaselineStore_proofs --------------------------
(***************************************************************************)
(* Theorems about BaselineStore, for any number of saves and loads, any    *)
(* commits and files, and any contents of the directory at the start.      *)
(***************************************************************************)
EXTENDS BaselineAlone, TLAPS

\* What a save knows of the file it is about to remove: as long as the file is
\* the one it looked at, it has expired, and later it is the store's own.
RemoveInv ==
  \A p \in Saver : pc[p] \in {"parse", "rmGuard", "rm"} =>
    /\ mem[p].seen <= version[mem[p].name]
    /\ mem[p].seen = version[mem[p].name] =>
         /\ files[mem[p].name] # NoFile
         /\ Expired(files[mem[p].name], mem[p].cutoff)
         /\ pc[p] # "parse" => Owns(mem[p].name, files[mem[p].name])

\* Only what was there at the start may be half written.
WholeInv ==
  /\ \A n \in Name : files[n] # NoFile /\ files[n].kind = "malformed" => version[n] = 0
  /\ \A p \in Saver : pc[p] \in {"renameGuard", "rename"} /\ temp[p] # NoFile =>
       temp[p].kind = "valid"

\* What a load has not read yet it still will, or has found, or the file was
\* replaced since the load began.
ReadInv ==
  \A r \in Reader : pc[r] \in {"fileGuard", "lstat", "read"} =>
    \A n \in Name :
      /\ view[r].seen[n] <= version[n]
      /\ files[n] # NoFile /\ view[r].seen[n] = version[n] =>
           n \in view[r].todo \cup {view[r].name} \/ files[n] \in view[r].found

IInv == TypeOK /\ RemoveInv /\ WholeInv /\ ReadInv

-----------------------------------------------------------------------------
(* Types.                                                                  *)

LEMMA InitType == Init => TypeOK
<1> SUFFICES ASSUME Init PROVE TypeOK
  OBVIOUS
<1> USE BaselineAssumption DEF Init
<1>1. files \in [Name -> Content] /\ dir \in Inode \cup {NoDir}
  OBVIOUS
<1>2. mem \in [Saver -> Memory]
  <2>1. PICK i \in InputId, n \in Name :
          mem = [p \in Saver |->
                   [snap |-> git, input |-> i, at |-> 0, cutoff |-> 0, inode |-> NoDir,
                    todo |-> {}, name |-> n, seen |-> 0]]
    OBVIOUS
  <2>2. [snap |-> git, input |-> i, at |-> 0, cutoff |-> 0, inode |-> NoDir,
         todo |-> {}, name |-> n, seen |-> 0] \in Memory
    BY DEF Memory
  <2> QED BY <2>1, <2>2
<1>3. version \in [Name -> Nat]
  OBVIOUS
<1>4. view \in [Reader -> View]
  <2>1. PICK n \in Name :
          view = [r \in Reader |->
                    [commit |-> git.head, inode |-> NoDir, todo |-> {}, name |-> n,
                     found |-> {}, seen |-> version, outcome |-> "pending",
                     entry |-> NoFile]]
    OBVIOUS
  <2>2. git.head \in Commit
    OBVIOUS
  <2>3. [commit |-> git.head, inode |-> NoDir, todo |-> {}, name |-> n, found |-> {},
         seen |-> version, outcome |-> "pending", entry |-> NoFile] \in View
    BY <1>3, <2>2 DEF View, Outcomes, Content
  <2> QED BY <2>1, <2>3
<1>5. temp \in [Saver -> Content] /\ now \in 0 .. MaxTime /\ losses \in 0 .. MaxLosses
  BY DEF Content
<1> QED BY <1>1, <1>2, <1>3, <1>4, <1>5 DEF TypeOK

\* Names of the steps a process goes to next.
Step == {"begin"} \cup SaveSteps \cup LoadSteps \cup Terminal

LEMMA GotoType ==
  ASSUME TypeOK, NEW p \in Saver \cup Reader, NEW l \in Step, Goto(p, l)
  PROVE  pc' \in [Saver \cup Reader -> Step]
BY DEF TypeOK, Goto, Step

LEMMA ProceedType ==
  ASSUME TypeOK, NEW p \in Saver, NEW m \in Memory, Proceed(p, m)
  PROVE  pc' \in [Saver \cup Reader -> Step] /\ mem' \in [Saver -> Memory]
<1>1. "writeGuard" \in Step /\ "entryGuard" \in Step
  BY DEF Step, SaveSteps, SaveGuards
<1>2. CASE m.todo = {}
  BY <1>1, <1>2, GotoType DEF Proceed, SetMem, TypeOK
<1>3. CASE m.todo # {}
  <2>1. PICK n \in m.todo : SetMem(p, [m EXCEPT !.todo = @ \ {n}, !.name = n])
    BY <1>3 DEF Proceed
  <2>2. n \in Key /\ [m EXCEPT !.todo = @ \ {n}, !.name = n] \in Memory
    BY DEF Memory, Name
  <2> QED BY <1>1, <1>3, <2>1, <2>2, GotoType DEF Proceed, SetMem, TypeOK
<1> QED BY <1>2, <1>3

LEMMA FinishType ==
  ASSUME TypeOK, NEW r \in Reader, NEW v \in View, NEW o \in Outcomes, NEW e \in Content,
         Finish(r, v, o, e)
  PROVE  pc' \in [Saver \cup Reader -> Step] /\ view' \in [Reader -> View]
<1>1. [v EXCEPT !.outcome = o, !.entry = e] \in View
  BY DEF View
<1>2. "done" \in Step /\ "failed" \in Step
  BY DEF Step, Terminal
<1> QED BY <1>1, <1>2, GotoType DEF Finish, SetView, TypeOK

LEMMA AdvanceType ==
  ASSUME TypeOK, NEW r \in Reader, NEW v \in View, Advance(r, v)
  PROVE  pc' \in [Saver \cup Reader -> Step] /\ view' \in [Reader -> View]
<1>1. CASE v.todo = {}
  <2>1. \E o \in Outcomes, e \in Content : Finish(r, v, o, e)
    BY <1>1 DEF Advance, Select, Outcomes, Content, NewestOf, View
  <2> QED BY <2>1, FinishType
<1>2. CASE v.todo # {}
  <2>1. PICK n \in v.todo : SetView(r, [v EXCEPT !.todo = @ \ {n}, !.name = n])
    BY <1>2 DEF Advance
  <2>2. [v EXCEPT !.todo = @ \ {n}, !.name = n] \in View
    BY DEF View
  <2>3. "fileGuard" \in Step
    BY DEF Step, LoadSteps, LoadGuards
  <2> QED BY <1>2, <2>1, <2>2, <2>3, GotoType DEF Advance, SetView, TypeOK
<1> QED BY <1>1, <1>2

LEMMA ReplaceType ==
  ASSUME TypeOK, NEW n \in Name, NEW c \in Content, Replace(n, c)
  PROVE  files' \in [Name -> Content] /\ version' \in [Name -> Nat]
BY DEF TypeOK, Replace

LEMMA SaveType ==
  ASSUME TypeOK, NEW p \in Saver, SaveStep(p)
  PROVE  TypeOK'
<1> USE BaselineAssumption
<1>1. /\ UNCHANGED <<now, git, losses, view>>
      /\ mem[p] \in Memory /\ git \in GitState /\ now \in 0 .. MaxTime
      /\ SaveSteps \cup {"begin", "failed", "crashed", "done"} \subseteq Step
  BY DEF SaveStep, BeginSave, CheckIntegrity, ResolveDir, SaveGuard, ListEntries, StatEntry,
     ParseEntry, RemoveEntry, OpenTemp, FillTemp, RenameTemp, Throw, Crash, world, TypeOK, Step,
     Terminal
<1>2. Fail(p) => pc' \in [Saver \cup Reader -> Step] /\ temp' \in [Saver -> Content]
  BY <1>1, GotoType DEF Fail, TypeOK, Content
<1>3. CASE BeginSave(p)
  <2>1. PICK i \in InputId :
          SetMem(p, [mem[p] EXCEPT !.snap = git, !.input = i, !.at = now])
    BY <1>3 DEF BeginSave
  <2>2. [mem[p] EXCEPT !.snap = git, !.input = i, !.at = now] \in Memory
    <3>1. now \in Int
      BY <1>1
    <3> QED BY ONLY <1>1, <3>1, i \in InputId DEF Memory
  <2>3. pc' \in [Saver \cup Reader -> Step]
    BY <1>1, <1>3, GotoType DEF BeginSave, SaveSteps
  <2> QED BY <1>1, <1>3, <2>1, <2>2, <2>3 DEF BeginSave, SetMem, TypeOK, Step
<1>4. CASE CheckIntegrity(p)
  <2>1. pc' \in [Saver \cup Reader -> Step] /\ temp' \in [Saver -> Content]
    BY <1>1, <1>2, <1>4, GotoType DEF CheckIntegrity, SaveSteps, TypeOK
  <2> QED BY <1>1, <1>4, <2>1 DEF CheckIntegrity, TypeOK, Step
<1>5. CASE ResolveDir(p)
  <2>1. PICK i \in IF dir = NoDir THEN Inode ELSE {dir} :
          dir' = i /\ SetMem(p, [mem[p] EXCEPT !.cutoff = now - RetentionDays, !.inode = i])
    BY <1>5 DEF ResolveDir
  <2>2. i \in Inode /\ now - RetentionDays \in Int
    BY <2>1, <1>1 DEF TypeOK
  <2>3. [mem[p] EXCEPT !.cutoff = now - RetentionDays, !.inode = i] \in Memory
    BY <1>1, <2>2 DEF Memory
  <2>4. pc' \in [Saver \cup Reader -> Step]
    BY <1>1, <1>5, GotoType DEF ResolveDir, SaveSteps, SaveGuards
  <2> QED BY <1>1, <1>5, <2>1, <2>2, <2>3, <2>4 DEF ResolveDir, SetMem, TypeOK, Step
<1>6. CASE SaveGuard(p)
  <2>1. AfterSaveGuard(p) \in Step
    BY <1>1, <1>6 DEF AfterSaveGuard, SaveGuard, SaveGuards, SaveSteps
  <2>2. /\ pc' \in [Saver \cup Reader -> Step] /\ temp' \in [Saver -> Content]
        /\ mem' \in [Saver -> Memory]
    BY <1>1, <1>2, <1>6, <2>1, GotoType, ProceedType DEF SaveGuard, TypeOK
  <2> QED BY <1>1, <1>6, <2>2 DEF SaveGuard, TypeOK, Step
<1>7. CASE ListEntries(p)
  <2>1. [mem[p] EXCEPT !.todo = {n \in Key : files[n] # NoFile}] \in Memory
    BY <1>1 DEF Memory
  <2> QED BY <1>1, <1>7, <2>1, ProceedType DEF ListEntries, TypeOK, Step
<1>8. CASE StatEntry(p)
  <2>1. version[mem[p].name] \in Nat
    BY <1>1 DEF TypeOK, Memory
  <2>2. [mem[p] EXCEPT !.seen = version[mem[p].name]] \in Memory
    BY <1>1, <2>1 DEF Memory
  <2>3. pc' \in [Saver \cup Reader -> Step] /\ mem' \in [Saver -> Memory]
    BY <1>1, <1>8, <2>2, GotoType, ProceedType DEF StatEntry, SetMem, SaveSteps, TypeOK
  <2> QED BY <1>1, <1>8, <2>3 DEF StatEntry, TypeOK, Step
<1>9. CASE ParseEntry(p)
  <2>1. pc' \in [Saver \cup Reader -> Step] /\ mem' \in [Saver -> Memory]
    BY <1>1, <1>9, GotoType, ProceedType DEF ParseEntry, SaveSteps, SaveGuards, TypeOK
  <2> QED BY <1>1, <1>9, <2>1 DEF ParseEntry, TypeOK, Step
<1>10. CASE RemoveEntry(p)
  <2>1. mem[p].name \in Name /\ NoFile \in Content
    BY <1>1 DEF Memory, Content
  <2>2. files' \in [Name -> Content] /\ version' \in [Name -> Nat]
    BY <1>10, <2>1, ReplaceType DEF RemoveEntry, TypeOK
  <2>3. pc' \in [Saver \cup Reader -> Step]
    BY <1>1, <1>10, GotoType DEF RemoveEntry, SaveSteps, SaveGuards
  <2> QED BY <1>1, <1>10, <2>2, <2>3 DEF RemoveEntry, TypeOK, Step
<1>11. CASE OpenTemp(p)
  <2>1. [input |-> mem[p].input, commit |-> mem[p].snap.head, gen |-> mem[p].at,
         mtime |-> now, kind |-> "malformed"] \in Entry
    BY <1>1 DEF Memory, Entry, Kinds
  <2>2. pc' \in [Saver \cup Reader -> Step] /\ temp' \in [Saver -> Content]
    BY <1>1, <1>2, <1>11, <2>1, GotoType DEF OpenTemp, SaveSteps, TypeOK, Content
  <2> QED BY <1>1, <1>11, <2>2 DEF OpenTemp, TypeOK, Step
<1>12. CASE FillTemp(p)
  <2>1. temp[p] # NoFile => [temp[p] EXCEPT !.mtime = now, !.kind = "valid"] \in Entry
    <3>1. temp[p] # NoFile => temp[p] \in Entry
      BY DEF TypeOK, Content
    <3>2. now \in Int
      BY <1>1
    <3>3. \A e \in Entry : [e EXCEPT !.mtime = now, !.kind = "valid"] \in Entry
      BY ONLY <3>2 DEF Entry, Kinds
    <3> QED BY <3>1, <3>3
  <2>2. temp' \in [Saver -> Content]
    BY <1>12, <2>1 DEF FillTemp, TypeOK, Content
  <2>3. pc' \in [Saver \cup Reader -> Step]
    BY <1>1, <1>12, GotoType DEF FillTemp, SaveSteps, SaveGuards
  <2> QED BY <1>1, <1>12, <2>2, <2>3 DEF FillTemp, TypeOK, Step
<1>13. CASE RenameTemp(p)
  <2>1. SavedKey(p) \in Name /\ temp[p] \in Content
    BY <1>1 DEF SavedKey, Memory, Name, Key, TypeOK
  <2>2. files' \in [Name -> Content] /\ version' \in [Name -> Nat]
    BY <1>13, <2>1, ReplaceType DEF RenameTemp, TypeOK
  <2>3. pc' \in [Saver \cup Reader -> Step] /\ temp' \in [Saver -> Content]
    BY <1>1, <1>2, <1>13, GotoType DEF RenameTemp, SaveSteps, SaveGuards, TypeOK, Content
  <2> QED BY <1>1, <1>13, <2>2, <2>3 DEF RenameTemp, TypeOK, Step
<1>14. CASE Throw(p) \/ Crash(p)
  <2>1. pc' \in [Saver \cup Reader -> Step] /\ temp' \in [Saver -> Content]
    BY <1>1, <1>2, <1>14, GotoType DEF Throw, Crash, TypeOK
  <2> QED BY <1>1, <1>14, <2>1 DEF Throw, Crash, TypeOK, Step
<1> QED BY <1>3, <1>4, <1>5, <1>6, <1>7, <1>8, <1>9, <1>10, <1>11, <1>12, <1>13, <1>14
     DEF SaveStep

LEMMA LoadType ==
  ASSUME TypeOK, NEW r \in Reader, LoadStep(r)
  PROVE  TypeOK'
<1>1. /\ UNCHANGED <<now, git, losses, dir, files, version, temp, mem>>
      /\ view[r] \in View
      /\ LoadSteps \subseteq Step
  BY DEF LoadStep, BeginLoad, Locate, LoadGuard, ScanDir, StatFile, ReadEntry, world, TypeOK, Step
<1>2. \A o \in Outcomes : Refuse(r, o) =>
        pc' \in [Saver \cup Reader -> Step] /\ view' \in [Reader -> View]
  BY <1>1, FinishType DEF Refuse, Content
<1>3. pc' \in [Saver \cup Reader -> Step] /\ view' \in [Reader -> View]
  <2>1. CASE BeginLoad(r)
    <3>1. PICK c \in Commit : SetView(r, [view[r] EXCEPT !.commit = c])
      BY <2>1 DEF BeginLoad
    <3>2. [view[r] EXCEPT !.commit = c] \in View
      BY <1>1 DEF View
    <3> QED BY <1>1, <2>1, <3>1, <3>2, GotoType DEF BeginLoad, SetView, LoadSteps, TypeOK
  <2>2. CASE Locate(r)
    <3>1. [view[r] EXCEPT !.inode = dir] \in View
      BY <1>1 DEF View, TypeOK
    <3> QED BY <1>1, <1>2, <2>2, <3>1, GotoType
         DEF Locate, SetView, LoadSteps, LoadGuards, TypeOK, Outcomes
  <2>3. CASE LoadGuard(r)
    BY <1>1, <1>2, <2>3, GotoType DEF LoadGuard, LoadSteps, TypeOK, Outcomes
  <2>4. CASE ScanDir(r)
    <3>1. [view[r] EXCEPT !.todo = {n \in Name : files[n] # NoFile}, !.seen = version] \in View
      BY <1>1 DEF View, TypeOK
    <3> QED BY <1>2, <2>4, <3>1, AdvanceType DEF ScanDir, Outcomes
  <2>5. CASE StatFile(r)
    BY <1>1, <1>2, <2>5, GotoType DEF StatFile, LoadSteps, TypeOK, Outcomes
  <2>6. CASE ReadEntry(r)
    <3>1. files[view[r].name] # NoFile => files[view[r].name] \in Entry
      BY <1>1 DEF View, TypeOK, Content
    <3>2. files[view[r].name] # NoFile =>
            [view[r] EXCEPT !.found = @ \cup {files[view[r].name]}] \in View
      BY <1>1, <3>1 DEF View
    <3> QED BY <1>2, <2>6, <3>2, AdvanceType DEF ReadEntry, Outcomes
  <2> QED BY <2>1, <2>2, <2>3, <2>4, <2>5, <2>6 DEF LoadStep
<1> QED BY <1>1, <1>3 DEF TypeOK, Step

LEMMA StepType == TypeOK /\ [Next]_vars => TypeOK'
<1> SUFFICES ASSUME TypeOK, [Next]_vars PROVE TypeOK'
  OBVIOUS
<1>1. CASE Tick
  BY <1>1, BaselineAssumption DEF Tick, TypeOK
<1>2. CASE GitChange
  BY <1>2 DEF GitChange, TypeOK
<1>3. CASE LoseDirectory
  BY <1>3, BaselineAssumption DEF LoseDirectory, TypeOK, Content
<1>4. CASE UNCHANGED vars
  BY <1>4 DEF vars, world, TypeOK
<1> QED BY <1>1, <1>2, <1>3, <1>4, SaveType, LoadType DEF Next

-----------------------------------------------------------------------------
(* Who changes what.                                                       *)

\* A file stays or its version moves on.
LEMMA VersionMoves ==
  ASSUME TypeOK, [Next]_vars, NEW n \in Name
  PROVE  \/ files'[n] = files[n] /\ version'[n] = version[n]
         \/ version'[n] = version[n] + 1
<1>1. CASE \E p \in Saver : SaveStep(p)
  <2>1. PICK p \in Saver : SaveStep(p)
    BY <1>1
  <2>2. \/ UNCHANGED <<files, version>>
        \/ \E m \in Name, c \in Content : Replace(m, c)
    <3>1. mem[p].name \in Name /\ SavedKey(p) \in Name
      BY BaselineAssumption DEF TypeOK, Memory, SavedKey, Name, Key
    <3>2. temp[p] \in Content /\ NoFile \in Content
      BY DEF TypeOK, Content
    <3>3. CASE RemoveEntry(p)
      BY <3>1, <3>2, <3>3 DEF RemoveEntry
    <3>4. CASE RenameTemp(p)
      BY <3>1, <3>2, <3>4 DEF RenameTemp
    <3> QED BY <2>1, <3>3, <3>4 DEF SaveStep, BeginSave, CheckIntegrity, ResolveDir, SaveGuard,
         ListEntries, StatEntry, ParseEntry, OpenTemp, FillTemp, Throw, Crash
  <2> QED BY <2>2 DEF Replace, TypeOK
<1>2. CASE LoseDirectory
  BY <1>2 DEF LoseDirectory
<1>3. CASE Tick \/ GitChange \/ UNCHANGED vars \/ \E r \in Reader : LoadStep(r)
  BY <1>3 DEF Tick, GitChange, vars, LoadStep, BeginLoad, Locate, LoadGuard, ScanDir, StatFile,
     ReadEntry
<1> QED BY <1>1, <1>2, <1>3 DEF Next

LEMMA FinishGoes ==
  ASSUME NEW r, NEW v, Select(r, v) \/ (\E o \in Outcomes : Refuse(r, o))
  PROVE  \E l \in {"done", "failed"} : Goto(r, l)
BY DEF Select, Refuse, Finish

\* A step of one process leaves the place and the locals of the others.
LEMMA SaverStays ==
  ASSUME TypeOK, [Next]_vars, NEW p \in Saver, ~SaveStep(p)
  PROVE  /\ pc'[p] = pc[p] /\ mem'[p] = mem[p]
         /\ temp'[p] = temp[p] \/ temp'[p] = NoFile
<1>1. CASE \E q \in Saver : SaveStep(q)
  <2>1. PICK q \in Saver : SaveStep(q)
    BY <1>1
  <2>2. /\ \E l : Goto(q, l)
        /\ mem' = mem \/ \E m : SetMem(q, m)
        /\ temp' = temp \/ \E c : temp' = [temp EXCEPT ![q] = c]
    BY <2>1 DEF SaveStep, BeginSave, CheckIntegrity, ResolveDir, SaveGuard, ListEntries, StatEntry,
       ParseEntry, RemoveEntry, OpenTemp, FillTemp, RenameTemp, Throw, Crash, Proceed, Fail
  <2> QED BY <2>1, <2>2 DEF Goto, SetMem, TypeOK
<1>2. CASE \E r \in Reader : LoadStep(r)
  <2>1. PICK r \in Reader : LoadStep(r)
    BY <1>2
  <2>2. UNCHANGED <<mem, temp>>
    BY <2>1 DEF LoadStep, BeginLoad, Locate, LoadGuard, ScanDir, StatFile, ReadEntry
  <2>3. \E l : Goto(r, l)
    BY <2>1, FinishGoes DEF LoadStep, BeginLoad, Locate, LoadGuard, ScanDir, StatFile, ReadEntry,
       Advance, Outcomes
  <2> QED BY <2>2, <2>3, BaselineAssumption DEF Goto, TypeOK
<1>3. CASE Tick \/ GitChange \/ LoseDirectory \/ UNCHANGED vars
  BY <1>3 DEF Tick, GitChange, LoseDirectory, vars
<1> QED BY <1>1, <1>2, <1>3 DEF Next

LEMMA ReaderStays ==
  ASSUME TypeOK, [Next]_vars, NEW r \in Reader, ~LoadStep(r)
  PROVE  pc'[r] = pc[r] /\ view'[r] = view[r]
<1>1. CASE \E p \in Saver : SaveStep(p)
  <2>1. PICK p \in Saver : SaveStep(p)
    BY <1>1
  <2>2. (\E l : Goto(p, l)) /\ view' = view
    BY <2>1 DEF SaveStep, BeginSave, CheckIntegrity, ResolveDir, SaveGuard, ListEntries, StatEntry,
       ParseEntry, RemoveEntry, OpenTemp, FillTemp, RenameTemp, Throw, Crash, Proceed, Fail
  <2> QED BY <2>2, BaselineAssumption DEF Goto, TypeOK
<1>2. CASE \E q \in Reader : LoadStep(q)
  <2>1. PICK q \in Reader : LoadStep(q)
    BY <1>2
  <2>2. \E l : Goto(q, l)
    BY <2>1, FinishGoes DEF LoadStep, BeginLoad, Locate, LoadGuard, ScanDir, StatFile, ReadEntry,
       Advance, Outcomes
  <2>3. view' = view \/ \E v : SetView(q, v)
    BY <2>1 DEF LoadStep, BeginLoad, Locate, LoadGuard, ScanDir, StatFile, ReadEntry,
       Advance, Select, Refuse, Finish
  <2> QED BY <2>1, <2>2, <2>3 DEF Goto, SetView, TypeOK
<1>3. CASE Tick \/ GitChange \/ LoseDirectory \/ UNCHANGED vars
  BY <1>3 DEF Tick, GitChange, LoseDirectory, vars
<1> QED BY <1>1, <1>2, <1>3 DEF Next

-----------------------------------------------------------------------------
(* The invariant.                                                          *)

LEMMA InitIInv == Init => IInv
<1> SUFFICES ASSUME Init PROVE IInv
  OBVIOUS
<1>1. \A p \in Saver \cup Reader : pc[p] = "begin"
  BY DEF Init
<1>2. \A n \in Name : version[n] = 0
  BY DEF Init
<1> QED BY <1>1, <1>2, InitType DEF IInv, RemoveInv, WholeInv, ReadInv

LEMMA RemoveKept == IInv /\ [Next]_vars => RemoveInv'
<1> SUFFICES ASSUME IInv, [Next]_vars, NEW p \in Saver, pc'[p] \in {"parse", "rmGuard", "rm"}
             PROVE  /\ mem'[p].seen <= version'[mem'[p].name]
                    /\ mem'[p].seen = version'[mem'[p].name] =>
                         /\ files'[mem'[p].name] # NoFile
                         /\ Expired(files'[mem'[p].name], mem'[p].cutoff)
                         /\ pc'[p] # "parse" => Owns(mem'[p].name, files'[mem'[p].name])
  BY DEF RemoveInv
<1> DEFINE n == mem[p].name
<1>1. /\ TypeOK /\ n \in Name /\ mem[p].seen \in Nat /\ version[n] \in Nat
      /\ mem[p] \in Memory
  BY DEF IInv, TypeOK, Memory
<1>2. CASE ~SaveStep(p)
  <2>1. pc'[p] = pc[p] /\ mem'[p] = mem[p]
    BY <1>1, <1>2, SaverStays
  <2>2. \/ files'[n] = files[n] /\ version'[n] = version[n]
        \/ version'[n] = version[n] + 1
    BY <1>1, VersionMoves
  <2>3. /\ mem[p].seen <= version[n]
        /\ mem[p].seen = version[n] =>
             /\ files[n] # NoFile /\ Expired(files[n], mem[p].cutoff)
             /\ pc[p] # "parse" => Owns(n, files[n])
    BY <2>1 DEF IInv, RemoveInv
  <2> HIDE DEF n
  <2>4. CASE files'[n] = files[n] /\ version'[n] = version[n]
    BY <2>1, <2>3, <2>4 DEF n
  <2>5. CASE version'[n] = version[n] + 1
    <3>1. mem[p].seen < version'[n]
      BY <1>1, <2>3, <2>5
    <3> QED BY <1>1, <2>1, <2>5, <3>1 DEF n
  <2> QED BY <2>2, <2>4, <2>5
<1>3. CASE SaveStep(p)
  <2>1. \A l : Goto(p, l) => pc'[p] = l
    BY <1>1 DEF Goto, TypeOK
  <2>2. \A m : ~Proceed(p, m) /\ ~Fail(p)
    BY <2>1 DEF Proceed, Fail
  <2>3. StatEntry(p) \/ ParseEntry(p) \/ (SaveGuard(p) /\ pc[p] = "rmGuard")
    BY <1>3, <2>1, <2>2 DEF SaveStep, BeginSave, CheckIntegrity, ResolveDir, SaveGuard,
       AfterSaveGuard, SaveGuards, ListEntries, RemoveEntry, OpenTemp, FillTemp, RenameTemp, Throw,
       Crash
  <2>4. UNCHANGED <<files, version>>
    BY <2>3 DEF StatEntry, ParseEntry, SaveGuard
  <2>5. CASE StatEntry(p)
    <3>1. /\ files[n] # NoFile /\ Expired(files[n], mem[p].cutoff) /\ pc'[p] = "parse"
          /\ SetMem(p, [mem[p] EXCEPT !.seen = version[n]])
      BY <2>1, <2>2, <2>5 DEF StatEntry
    <3>2. mem'[p] = [mem[p] EXCEPT !.seen = version[n]]
      BY <3>1, <1>1 DEF SetMem, TypeOK
    <3>3. mem'[p].name = n /\ mem'[p].seen = version[n] /\ mem'[p].cutoff = mem[p].cutoff
      BY <3>2, <1>1 DEF Memory
    <3> QED BY <1>1, <2>4, <3>1, <3>3
  <2>6. CASE ParseEntry(p)
    <3>1. Owns(n, files[n]) /\ mem' = mem /\ pc[p] = "parse"
      BY <2>2, <2>6 DEF ParseEntry
    <3> QED BY <2>4, <3>1 DEF IInv, RemoveInv
  <2>7. CASE SaveGuard(p) /\ pc[p] = "rmGuard"
    <3>1. mem' = mem
      BY <2>2, <2>7 DEF SaveGuard
    <3> QED BY <2>4, <2>7, <3>1 DEF IInv, RemoveInv
  <2> QED BY <2>3, <2>5, <2>6, <2>7
<1> QED BY <1>2, <1>3

LEMMA WholeKept == IInv /\ [Next]_vars => WholeInv'
<1> SUFFICES ASSUME IInv, [Next]_vars PROVE WholeInv'
  OBVIOUS
<1>1. TypeOK
  BY DEF IInv
<1>2. ASSUME NEW n \in Name, files'[n] # NoFile, files'[n].kind = "malformed"
      PROVE  version'[n] = 0
  <2>1. CASE files'[n] = files[n] /\ version'[n] = version[n]
    BY <1>2, <2>1 DEF IInv, WholeInv
  <2>2. CASE ~(files'[n] = files[n] /\ version'[n] = version[n])
    <3>1. ~LoseDirectory
      BY <1>2 DEF LoseDirectory
    <3>2. PICK p \in Saver : SaveStep(p) /\ ~UNCHANGED <<files, version>>
      BY <2>2, <3>1 DEF Next, Tick, GitChange, vars, LoadStep, BeginLoad, Locate, LoadGuard,
         ScanDir, StatFile, ReadEntry
    <3>3. RemoveEntry(p) \/ RenameTemp(p)
      BY <3>2 DEF SaveStep, BeginSave, CheckIntegrity, ResolveDir, SaveGuard, ListEntries, StatEntry,
         ParseEntry, OpenTemp, FillTemp, Throw, Crash
    <3>4. ~RemoveEntry(p)
      BY <1>1, <1>2, <2>2 DEF RemoveEntry, Replace, TypeOK
    <3>5. /\ pc[p] = "rename" /\ temp[p] # NoFile
          /\ files' = [files EXCEPT ![SavedKey(p)] = temp[p]]
          /\ version' = [version EXCEPT ![SavedKey(p)] = @ + 1]
      BY <3>2, <3>3, <3>4 DEF RenameTemp, Replace
    <3>6. files'[n] = temp[p]
      BY <1>1, <2>2, <3>5 DEF TypeOK
    <3> QED BY <1>2, <3>5, <3>6 DEF IInv, WholeInv
  <2> QED BY <2>1, <2>2
<1>3. ASSUME NEW p \in Saver, pc'[p] \in {"renameGuard", "rename"}, temp'[p] # NoFile
      PROVE  temp'[p].kind = "valid"
  <2>1. CASE ~SaveStep(p)
    BY <1>1, <1>3, <2>1, SaverStays DEF IInv, WholeInv
  <2>2. CASE SaveStep(p)
    <3>1. \A l : Goto(p, l) => pc'[p] = l
      BY <1>1 DEF Goto, TypeOK
    <3>2. \A m : ~Proceed(p, m) /\ ~Fail(p)
      BY <1>3, <3>1 DEF Proceed, Fail
    <3>3. FillTemp(p) \/ (SaveGuard(p) /\ pc[p] = "renameGuard")
      BY <1>3, <2>2, <3>1, <3>2 DEF SaveStep, BeginSave, CheckIntegrity, ResolveDir, SaveGuard,
         AfterSaveGuard, SaveGuards, ListEntries, StatEntry, ParseEntry, RemoveEntry, OpenTemp,
         RenameTemp, Throw, Crash
    <3>4. CASE FillTemp(p)
      <4>1. temp[p] # NoFile /\ temp'[p] = [temp[p] EXCEPT !.mtime = now, !.kind = "valid"]
        BY <1>1, <1>3, <3>4 DEF FillTemp, TypeOK
      <4>2. temp[p] \in Entry
        BY <1>1, <4>1 DEF TypeOK, Content
      <4> QED BY <4>1, <4>2 DEF Entry
    <3>5. CASE SaveGuard(p) /\ pc[p] = "renameGuard"
      BY <1>3, <3>2, <3>5 DEF SaveGuard, IInv, WholeInv
    <3> QED BY <3>3, <3>4, <3>5
  <2> QED BY <2>1, <2>2
<1> QED BY <1>2, <1>3 DEF WholeInv

LEMMA ReadKept == IInv /\ [Next]_vars => ReadInv'
<1> SUFFICES ASSUME IInv, [Next]_vars, NEW r \in Reader, pc'[r] \in {"fileGuard", "lstat", "read"},
                    NEW n \in Name
             PROVE  /\ view'[r].seen[n] <= version'[n]
                    /\ files'[n] # NoFile /\ view'[r].seen[n] = version'[n] =>
                         n \in view'[r].todo \cup {view'[r].name} \/ files'[n] \in view'[r].found
  BY DEF ReadInv
<1>1. TypeOK /\ view[r] \in View /\ version[n] \in Nat /\ view[r].seen[n] \in Nat
  BY DEF IInv, TypeOK, View
<1>2. CASE ~LoadStep(r)
  <2>1. pc'[r] = pc[r] /\ view'[r] = view[r]
    BY <1>1, <1>2, ReaderStays
  <2>2. \/ files'[n] = files[n] /\ version'[n] = version[n]
        \/ version'[n] = version[n] + 1
    BY <1>1, VersionMoves
  <2>3. /\ view[r].seen[n] <= version[n]
        /\ files[n] # NoFile /\ view[r].seen[n] = version[n] =>
             n \in view[r].todo \cup {view[r].name} \/ files[n] \in view[r].found
    BY <2>1 DEF IInv, ReadInv
  <2>4. CASE files'[n] = files[n] /\ version'[n] = version[n]
    BY <2>1, <2>3, <2>4
  <2>5. CASE version'[n] = version[n] + 1
    <3>1. view[r].seen[n] < version'[n] /\ view'[r].seen[n] = view[r].seen[n]
      BY <1>1, <2>1, <2>3, <2>5
    <3> QED BY <1>1, <2>5, <3>1
  <2> QED BY <2>2, <2>4, <2>5
<1>3. CASE LoadStep(r)
  <2>1. \A l : Goto(r, l) => pc'[r] = l
    BY <1>1 DEF Goto, TypeOK
  <2>2. \A v : ~Select(r, v) /\ \A o \in Outcomes : ~Refuse(r, o)
    BY <2>1, FinishGoes
  <2>3. UNCHANGED <<files, version>>
    BY <1>3 DEF LoadStep, BeginLoad, Locate, LoadGuard, ScanDir, StatFile, ReadEntry
  <2>4. ASSUME NEW v \in View, Advance(r, v)
        PROVE  /\ view'[r].seen = v.seen /\ view'[r].found = v.found
               /\ v.todo \subseteq view'[r].todo \cup {view'[r].name}
    <3>1. PICK m \in v.todo : SetView(r, [v EXCEPT !.todo = @ \ {m}, !.name = m])
      BY <2>2, <2>4 DEF Advance
    <3>2. view'[r] = [v EXCEPT !.todo = @ \ {m}, !.name = m]
      BY <3>1, <1>1 DEF SetView, TypeOK
    <3> QED BY <3>2 DEF View
  <2>5. ScanDir(r) \/ ReadEntry(r) \/ (UNCHANGED view /\ pc[r] \in {"fileGuard", "lstat"})
    BY <1>3, <2>1, <2>2 DEF LoadStep, BeginLoad, Locate, LoadGuard, LoadGuards, StatFile, Outcomes
  <2>6. CASE ScanDir(r)
    <3> DEFINE v == [view[r] EXCEPT !.todo = {k \in Name : files[k] # NoFile}, !.seen = version]
    <3>1. /\ v \in View /\ v.seen = version /\ v.todo = {k \in Name : files[k] # NoFile}
      BY <1>1 DEF View, TypeOK
    <3>2. Advance(r, v)
      BY <2>2, <2>6 DEF ScanDir, Outcomes
    <3> HIDE DEF v
    <3>3. /\ view'[r].seen = version
          /\ {k \in Name : files[k] # NoFile} \subseteq view'[r].todo \cup {view'[r].name}
      BY <2>4, <3>1, <3>2
    <3> QED BY <1>1, <2>3, <3>3
  <2>7. CASE ReadEntry(r)
    <3> DEFINE e == files[view[r].name]
               v == [view[r] EXCEPT !.found = @ \cup {e}]
    <3>1. e # NoFile /\ Advance(r, v) /\ pc[r] = "read"
      BY <2>2, <2>7 DEF ReadEntry, Outcomes
    <3>2. e \in Entry
      BY <1>1, <3>1 DEF View, TypeOK, Content
    <3>3. /\ v \in View /\ v.seen = view[r].seen /\ v.todo = view[r].todo
          /\ v.found = view[r].found \cup {e}
      BY <1>1, <3>2 DEF View
    <3> HIDE DEF v
    <3>4. /\ view'[r].seen = view[r].seen /\ view'[r].found = view[r].found \cup {e}
          /\ view[r].todo \subseteq view'[r].todo \cup {view'[r].name}
      BY <2>4, <3>1, <3>3
    <3>5. /\ view[r].seen[n] <= version[n]
          /\ files[n] # NoFile /\ view[r].seen[n] = version[n] =>
               n \in view[r].todo \cup {view[r].name} \/ files[n] \in view[r].found
      BY <3>1 DEF IInv, ReadInv
    <3> QED BY <2>3, <3>4, <3>5
  <2>8. CASE UNCHANGED view /\ pc[r] \in {"fileGuard", "lstat"}
    BY <2>3, <2>8 DEF IInv, ReadInv
  <2> QED BY <2>5, <2>6, <2>7, <2>8
<1> QED BY <1>2, <1>3

(***************************************************************************)
(* IInv is an invariant.                                                   *)
(***************************************************************************)
THEOREM Invariance == Spec => []IInv
<1>1. IInv /\ [Next]_vars => IInv'
  <2> SUFFICES ASSUME IInv, [Next]_vars PROVE IInv'
    OBVIOUS
  <2>1. TypeOK'
    BY StepType DEF IInv
  <2> QED BY <2>1, RemoveKept, WholeKept, ReadKept DEF IInv
<1> QED BY <1>1, InitIInv, PTL DEF Spec

(***************************************************************************)
(* Every variable has its type.                                            *)
(***************************************************************************)
THEOREM TypeCorrect == Spec => []TypeOK
<1>1. IInv => TypeOK
  BY DEF IInv
<1> QED BY <1>1, Invariance, PTL

\* The step of a load that ends on the file it reads.
LEMMA ReadEnds ==
  ASSUME TypeOK, [Next]_vars, NEW r \in Reader, pc[r] = "read",
         view'[r].outcome # view[r].outcome \/ pc'[r] = "done"
  PROVE  ReadEntry(r) /\ (\A l : Goto(r, l) => pc'[r] = l)
         /\ \A v : SetView(r, v) => view'[r] = v
<1>1. LoadStep(r)
  BY ReaderStays
<1>2. ReadEntry(r)
  BY <1>1 DEF LoadStep, BeginLoad, Locate, LoadGuard, LoadGuards, ScanDir, StatFile
<1> QED BY <1>2 DEF Goto, SetView, TypeOK

(***************************************************************************)
(* A load that refuses a file as malformed refuses one that nobody wrote   *)
(* or removed since the start: savers never show it a half-written entry   *)
(* (atomic-write.ts), dying and failing at any point.                      *)
(***************************************************************************)
THEOREM LoadsOnlyWhole == Spec => LoadsParse
<1> DEFINE A == \A r \in Reader :
                  view[r].outcome = "pending" /\ view'[r].outcome = "malformed"
                    => version[view[r].name] = 0
<1>1. IInv /\ [Next]_vars => [A]_vars
  <2> SUFFICES ASSUME IInv, [Next]_vars, NEW r \in Reader,
                      view[r].outcome = "pending", view'[r].outcome = "malformed"
               PROVE  version[view[r].name] = 0
    OBVIOUS
  <2>1. TypeOK /\ view[r] \in View
    BY DEF IInv, TypeOK
  <2>2. LoadStep(r)
    BY <2>1, ReaderStays
  <2>3. \A v : SetView(r, v) => view'[r] = v
    BY <2>1 DEF SetView, TypeOK
  <2>4. \A v \in View, o \in Outcomes, e \in Content : Finish(r, v, o, e) => view'[r].outcome = o
    BY <2>3 DEF Finish, View
  <2>5. \A o \in Outcomes : Refuse(r, o) => o = "malformed"
    BY <2>1, <2>4 DEF Refuse, Content
  <2>6. \A v \in View : v.outcome = "pending" => ~Advance(r, v)
    <3> SUFFICES ASSUME NEW v \in View, v.outcome = "pending", Advance(r, v) PROVE FALSE
      OBVIOUS
    <3>1. CASE v.todo = {}
      <4>1. \E o \in {"none", "loaded", "invalid"}, e \in Content : Finish(r, v, o, e)
        BY <3>1 DEF Advance, Select, NewestOf, View, Content
      <4> QED BY <4>1, <2>4 DEF Outcomes
    <3>2. CASE v.todo # {}
      <4>1. PICK n \in v.todo : view'[r] = [v EXCEPT !.todo = @ \ {n}, !.name = n]
        BY <3>2, <2>3 DEF Advance
      <4> QED BY <4>1 DEF View
    <3> QED BY <3>1, <3>2
  <2>7. ReadEntry(r)
    <3>1. ~BeginLoad(r)
      BY <2>1, <2>3 DEF BeginLoad, View
    <3>2. ~Locate(r) /\ ~LoadGuard(r) /\ ~StatFile(r)
      BY <2>1, <2>3, <2>5 DEF Locate, LoadGuard, StatFile, View, Outcomes
    <3>3. ~ScanDir(r)
      <4>1. [view[r] EXCEPT !.todo = {n \in Name : files[n] # NoFile}, !.seen = version] \in View
        BY <2>1 DEF View, TypeOK
      <4>2. [view[r] EXCEPT !.todo = {n \in Name : files[n] # NoFile}, !.seen = version].outcome
              = "pending"
        BY <2>1 DEF View
      <4> QED BY <2>5, <2>6, <4>1, <4>2 DEF ScanDir, Outcomes
    <3> QED BY <2>2, <3>1, <3>2, <3>3 DEF LoadStep
  <2>8. files[view[r].name] # NoFile /\ files[view[r].name].kind = "malformed"
    <3> DEFINE e == files[view[r].name]
    <3>1. e # NoFile => e \in Entry
      BY <2>1 DEF View, TypeOK, Content
    <3>2. e # NoFile => /\ [view[r] EXCEPT !.found = @ \cup {e}] \in View
                        /\ [view[r] EXCEPT !.found = @ \cup {e}].outcome = "pending"
      BY <2>1, <3>1 DEF View
    <3> QED BY <2>5, <2>6, <2>7, <3>2 DEF ReadEntry, Outcomes
  <2> QED BY <2>1, <2>8 DEF IInv, WholeInv, View
<1> QED BY <1>1, Invariance, PTL DEF Spec, LoadsParse

(***************************************************************************)
(* Retention removes a file that nobody replaced since its lstat only when *)
(* it has expired and is a manifest of the store under its own name        *)
(* (retainBaselineEntries), among any number of saves and losses.          *)
(***************************************************************************)
THEOREM RemovesChecked == Spec => RemovesWhatItChecked
<1> DEFINE A == \A p \in Saver :
                  pc[p] = "rm" /\ pc'[p] = "rmAfter" /\ version[mem[p].name] = mem[p].seen =>
                    LET e == files[mem[p].name] IN
                    /\ e # NoFile
                    /\ e.mtime < mem[p].cutoff /\ e.kind = "valid"
                    /\ <<e.input, e.commit>> = mem[p].name
<1>1. IInv => A
  BY DEF IInv, RemoveInv, Expired, Owns, KeyOf
<1>2. IInv /\ [Next]_vars => [A]_vars
  BY <1>1
<1> QED BY <1>2, Invariance, PTL DEF Spec, RemovesWhatItChecked

(***************************************************************************)
(* No entry that was there from the listing of the directory to the end of *)
(* a load is newer than what the load returns, whatever is saved and       *)
(* removed meanwhile (loadBaselineForCommit).                              *)
(***************************************************************************)
THEOREM LoadsNewest == Spec => LoadedIsNewest
<1> DEFINE A == \A r \in Reader : pc[r] = "read" /\ pc'[r] = "done" =>
       LET v == view'[r] IN
       /\ v.outcome = "loaded" => v.entry.commit = v.commit /\ v.entry.kind = "valid"
       /\ \A n \in Name : Stable(r, n) =>
            IF v.outcome = "loaded" THEN v.entry.gen >= files[n].gen
            ELSE \E f \in v.found : f.kind = "foreign" /\ f.commit = v.commit
                                   /\ f.gen >= files[n].gen
<1>1. IInv /\ [Next]_vars => [A]_vars
  <2> SUFFICES ASSUME IInv, [Next]_vars, NEW r \in Reader, pc[r] = "read", pc'[r] = "done"
               PROVE  LET v == view'[r] IN
       /\ v.outcome = "loaded" => v.entry.commit = v.commit /\ v.entry.kind = "valid"
       /\ \A n \in Name : Stable(r, n) =>
            IF v.outcome = "loaded" THEN v.entry.gen >= files[n].gen
            ELSE \E f \in v.found : f.kind = "foreign" /\ f.commit = v.commit
                                   /\ f.gen >= files[n].gen
    OBVIOUS
  <2> DEFINE e == files[view[r].name]
             v == [view[r] EXCEPT !.found = @ \cup {e}]
             matching == {f \in v.found : f.commit = v.commit}
  <2>1. TypeOK /\ view[r] \in View
    BY DEF IInv, TypeOK
  <2>2. ReadEntry(r) /\ (\A l : Goto(r, l) => pc'[r] = l) /\ \A w : SetView(r, w) => view'[r] = w
    BY <2>1, ReadEnds
  <2>3. e # NoFile /\ Advance(r, v)
    BY <2>2 DEF ReadEntry, Refuse, Finish
  <2>4. e \in Entry
    BY <2>1, <2>3 DEF View, TypeOK, Content
  <2>5. /\ v \in View /\ v.found = view[r].found \cup {e} /\ v.commit = view[r].commit
        /\ v.todo = view[r].todo
    BY <2>1, <2>4 DEF View
  <2> HIDE DEF v, e
  <2>6. v.todo = {} /\ Select(r, v)
    BY <2>2, <2>3 DEF Advance
  <2>7. \/ matching = {} /\ Finish(r, v, "none", NoFile)
        \/ \E m \in NewestOf(matching) :
             \/ m.kind = "valid" /\ Finish(r, v, "loaded", m)
             \/ m.kind = "foreign" /\ Finish(r, v, "none", NoFile)
    BY <2>2, <2>6 DEF Select, Finish
  <2>8. \A o \in Outcomes, m \in Content : Finish(r, v, o, m) =>
          /\ view'[r].outcome = o /\ view'[r].entry = m
          /\ view'[r].commit = v.commit /\ view'[r].found = v.found
    BY <2>2, <2>5 DEF Finish, View
  <2>9. matching \subseteq Entry /\ matching \subseteq v.found
    BY <2>5 DEF View
  <2>10. ASSUME NEW n \in Name, Stable(r, n)
         PROVE  files[n] \in matching
    <3>1. n \in view[r].todo \cup {view[r].name} \/ files[n] \in view[r].found
      BY <2>10 DEF IInv, ReadInv, Stable
    <3>2. files[n] \in v.found
      BY <3>1, <2>5, <2>6 DEF e
    <3> QED BY <3>2, <2>5, <2>10 DEF Stable
  <2>11. CASE matching = {} /\ Finish(r, v, "none", NoFile)
    BY <2>8, <2>10, <2>11 DEF Outcomes, Content
  <2>12. ASSUME NEW m \in NewestOf(matching), m.kind = "valid", Finish(r, v, "loaded", m)
         PROVE  /\ view'[r].outcome = "loaded" /\ view'[r].entry = m
                /\ m.commit = view'[r].commit /\ \A f \in matching : m.gen >= f.gen
    <3>1. m \in matching /\ \A f \in matching : f.gen <= m.gen
      BY <2>12 DEF NewestOf
    <3>2. m \in Entry /\ \A f \in matching : f.gen \in Int
      BY <3>1, <2>9 DEF Entry
    <3> QED BY <3>1, <3>2, <2>8, <2>12 DEF Outcomes, Content, Entry
  <2>13. ASSUME NEW m \in NewestOf(matching), m.kind = "foreign", Finish(r, v, "none", NoFile)
         PROVE  /\ view'[r].outcome = "none" /\ m \in view'[r].found
                /\ m.commit = view'[r].commit /\ \A f \in matching : m.gen >= f.gen
    <3>1. m \in matching /\ \A f \in matching : f.gen <= m.gen
      BY <2>13 DEF NewestOf
    <3>2. m \in Entry /\ \A f \in matching : f.gen \in Int
      BY <3>1, <2>9 DEF Entry
    <3> QED BY <3>1, <3>2, <2>8, <2>9, <2>13 DEF Outcomes, Content, Entry
  <2> HIDE DEF matching
  <2> QED BY <2>7, <2>10, <2>11, <2>12, <2>13
<1> QED BY <1>1, Invariance, PTL DEF Spec, LoadedIsNewest

-----------------------------------------------------------------------------
(* One save at a time: the directory is the map.                           *)

Sweeping == {"entryGuard", "stat", "parse", "rmGuard", "rm"}
Writing  == {"writeGuard", "open", "fill", "renameGuard", "rename"}

OneRuns == \A p, q \in Saver : pc[p] \in SaveSteps /\ pc[q] \in SaveSteps => p = q

WrittenBy(time) == \A n \in Name : files[n] # NoFile => files[n].gen <= time

\* The entries that p still has to look at.
Pending(p) == mem[p].todo \cup IF pc[p] \in Sweeping THEN {mem[p].name} ELSE {}

Stale(p) == {k \in Key : Owns(k, files[k]) /\ Expired(files[k], mem[p].cutoff)}

\* What the save that runs knows of the directory: nothing in it is newer than
\* its report, and what has expired it has removed or is about to.
Informed(p) ==
  pc[p] \in SaveSteps =>
    /\ mem[p].at <= now /\ WrittenBy(mem[p].at)
    /\ pc[p] \notin {"check", "resolve"} =>
         mem[p].at <= mem[p].cutoff + RetentionDays /\ mem[p].cutoff + RetentionDays <= now
    /\ pc[p] \in Sweeping \cup Writing \cup {"rmAfter"} => Stale(p) \subseteq Pending(p)
    /\ pc[p] \in Writing => mem[p].todo = {}
    /\ pc[p] \in {"parse", "rmGuard", "rm"} => mem[p].seen = version[mem[p].name]

\* The temporary file is the report of its save.
Signed(p) ==
  pc[p] \in {"fill", "renameGuard", "rename"} /\ temp[p] # NoFile =>
    KeyOf(temp[p]) = SavedKey(p) /\ temp[p].gen = mem[p].at

AloneInv ==
  alone => /\ OneRuns /\ WrittenBy(now)
           /\ \A p \in Saver : Informed(p) /\ Signed(p)

LEMMA InitAlone == AloneInit => IInv /\ AloneInv
<1> SUFFICES ASSUME AloneInit PROVE IInv /\ AloneInv
  OBVIOUS
<1>1. IInv
  BY InitIInv DEF AloneInit
<1>2. \A p \in Saver : pc[p] = "begin"
  BY DEF AloneInit, Init
<1>3. OneRuns /\ \A p \in Saver : Informed(p) /\ Signed(p)
  BY <1>2 DEF OneRuns, Informed, Signed, SaveSteps, SaveGuards
<1>4. alone => WrittenBy(now)
  BY DEF AloneInit, Init, Past, WrittenBy
<1> QED BY <1>1, <1>3, <1>4 DEF AloneInv

\* The loop of the retention goes on with what it has not looked at.
LEMMA ProceedInformed ==
  ASSUME TypeOK, NEW p \in Saver, NEW m \in Memory, Proceed(p, m),
         UNCHANGED <<now, files, version>>,
         m.at <= now, WrittenBy(m.at),
         m.at <= m.cutoff + RetentionDays, m.cutoff + RetentionDays <= now,
         \A k \in Key : Owns(k, files[k]) /\ Expired(files[k], m.cutoff) => k \in m.todo
  PROVE  Informed(p)'
<1>1. CASE m.todo = {}
  <2>1. pc'[p] = "writeGuard" /\ mem'[p] = m
    BY <1>1 DEF Proceed, Goto, SetMem, TypeOK
  <2>2. Stale(p)' = {}
    BY <1>1, <2>1 DEF Stale
  <2> QED BY <1>1, <2>1, <2>2 DEF Informed, WrittenBy, Sweeping, Writing
<1>2. CASE m.todo # {}
  <2>1. PICK n \in m.todo : SetMem(p, [m EXCEPT !.todo = @ \ {n}, !.name = n])
    BY <1>2 DEF Proceed
  <2>2. pc'[p] = "entryGuard" /\ mem'[p] = [m EXCEPT !.todo = @ \ {n}, !.name = n]
    BY <1>2, <2>1 DEF Proceed, Goto, SetMem, TypeOK
  <2>3. /\ mem'[p].todo = m.todo \ {n} /\ mem'[p].name = n
        /\ mem'[p].at = m.at /\ mem'[p].cutoff = m.cutoff
    BY <2>2 DEF Memory
  <2>4. Stale(p)' \subseteq m.todo /\ Pending(p)' = m.todo
    BY <2>2, <2>3 DEF Stale, Pending, Sweeping
  <2> QED BY <2>2, <2>3, <2>4 DEF Informed, WrittenBy, Writing
<1> QED BY <1>1, <1>2

LEMMA SignedKept ==
  ASSUME TypeOK, NEW p \in Saver, Signed(p), SaveStep(p)
  PROVE  Signed(p)'
<1>1. \A l : Goto(p, l) => pc'[p] = l
  BY DEF Goto, TypeOK
<1>2. SUFFICES ASSUME pc'[p] \in {"fill", "renameGuard", "rename"}, temp'[p] # NoFile
      PROVE  (KeyOf(temp[p]) = SavedKey(p) /\ temp[p].gen = mem[p].at)'
  BY DEF Signed
<1>3. \A m : ~Proceed(p, m) /\ ~Fail(p)
  BY <1>1, <1>2 DEF Proceed, Fail
<1>4. OpenTemp(p) \/ FillTemp(p) \/ (SaveGuard(p) /\ pc[p] = "renameGuard")
  BY <1>1, <1>2, <1>3 DEF SaveStep, BeginSave, CheckIntegrity, ResolveDir, SaveGuard,
     AfterSaveGuard, SaveGuards, ListEntries, StatEntry, ParseEntry, RemoveEntry, RenameTemp,
     Throw, Crash
<1>5. CASE OpenTemp(p)
  <2>1. temp'[p] = [input |-> mem[p].input, commit |-> mem[p].snap.head,
                    gen |-> mem[p].at, mtime |-> now, kind |-> "malformed"] /\ mem' = mem
    BY <1>3, <1>5 DEF OpenTemp, TypeOK
  <2> QED BY <2>1 DEF KeyOf, SavedKey
<1>6. CASE FillTemp(p)
  <2>1. /\ temp[p] # NoFile /\ temp'[p] = [temp[p] EXCEPT !.mtime = now, !.kind = "valid"]
        /\ mem' = mem /\ pc[p] = "fill"
    BY <1>2, <1>6 DEF FillTemp, TypeOK
  <2>2. temp[p] \in Entry
    BY <2>1 DEF TypeOK, Content
  <2>3. /\ temp'[p].input = temp[p].input /\ temp'[p].commit = temp[p].commit
        /\ temp'[p].gen = temp[p].gen
    BY <2>1, <2>2 DEF Entry
  <2> QED BY <2>1, <2>3 DEF KeyOf, SavedKey, Signed
<1>7. CASE SaveGuard(p) /\ pc[p] = "renameGuard"
  <2>1. UNCHANGED <<temp, mem>>
    BY <1>3, <1>7 DEF SaveGuard
  <2> QED BY <1>2, <1>7, <2>1 DEF Signed, KeyOf, SavedKey
<1> QED BY <1>4, <1>5, <1>6, <1>7

\* A save changes the directory in two places only.
LEMMA OnlyTwo ==
  ASSUME NEW p \in Saver, SaveStep(p)
  PROVE  UNCHANGED now /\ (UNCHANGED <<files, version>> \/ RemoveEntry(p) \/ RenameTemp(p))
BY DEF SaveStep, BeginSave, CheckIntegrity, ResolveDir, SaveGuard, ListEntries, StatEntry,
   ParseEntry, RemoveEntry, OpenTemp, FillTemp, RenameTemp, Throw, Crash, world

\* The file about to be removed is stale.
LEMMA RemovesStale ==
  ASSUME IInv, NEW p \in Saver, pc[p] = "rm", Informed(p)
  PROVE  /\ Owns(mem[p].name, files[mem[p].name]) /\ mem[p].name \in Key
         /\ Expired(files[mem[p].name], mem[p].cutoff)
<1>1. TypeOK /\ mem[p] \in Memory /\ mem[p].name \in Name
  BY DEF IInv, TypeOK, Memory
<1>2. mem[p].seen = version[mem[p].name]
  BY DEF Informed, SaveSteps
<1>3. /\ Owns(mem[p].name, files[mem[p].name]) /\ files[mem[p].name] # NoFile
      /\ Expired(files[mem[p].name], mem[p].cutoff)
  BY <1>2 DEF IInv, RemoveInv
<1>4. files[mem[p].name] \in Entry
  BY <1>1, <1>3 DEF TypeOK, Content
<1> QED BY <1>3, <1>4 DEF Owns, KeyOf, Entry, Key

\* What the save puts in the directory.
LEMMA RenamesReport ==
  ASSUME IInv, NEW p \in Saver, RenameTemp(p), temp[p] # NoFile, Signed(p)
  PROVE  /\ files' = [files EXCEPT ![SavedKey(p)] = temp[p]] /\ pc'[p] = "afterGuard"
         /\ temp[p] \in Entry /\ temp[p].kind = "valid" /\ SavedKey(p) \in Key
         /\ KeyOf(temp[p]) = SavedKey(p) /\ temp[p].gen = mem[p].at
<1>1. TypeOK /\ temp[p] \in Entry /\ pc[p] = "rename"
  BY DEF IInv, TypeOK, Content, RenameTemp
<1>2. temp[p].kind = "valid" /\ KeyOf(temp[p]) = SavedKey(p) /\ temp[p].gen = mem[p].at
  BY <1>1 DEF IInv, WholeInv, Signed
<1>3. SavedKey(p) \in Key
  BY <1>1, <1>2 DEF KeyOf, Entry, Key
<1> QED BY <1>1, <1>2, <1>3 DEF RenameTemp, Replace, Goto, TypeOK

LEMMA MoverInformed ==
  ASSUME IInv, NEW p \in Saver, SaveStep(p), Informed(p), Signed(p), WrittenBy(now)
  PROVE  Informed(p)'
<1>1. /\ TypeOK /\ mem[p] \in Memory /\ now \in Int /\ RetentionDays \in Int
      /\ \A n \in Name : files[n] # NoFile => files[n] \in Entry
  BY BaselineAssumption DEF IInv, TypeOK, Content
<1>2. (\A l : Goto(p, l) => pc'[p] = l) /\ (\A m : SetMem(p, m) => mem'[p] = m)
  BY <1>1 DEF Goto, SetMem, TypeOK
<1>3. Fail(p) => Informed(p)'
  BY <1>2 DEF Fail, Informed, SaveSteps, SaveGuards
<1>4. CASE BeginSave(p)
  <2>1. pc'[p] = "check" /\ UNCHANGED <<now, files>>
    BY <1>2, <1>4 DEF BeginSave, world
  <2>2. mem'[p].at = now
    <3>1. PICK i \in InputId : mem'[p] = [mem[p] EXCEPT !.snap = git, !.input = i, !.at = now]
      BY <1>2, <1>4 DEF BeginSave
    <3> QED BY <1>1, <3>1 DEF Memory
  <2> QED BY <1>1, <2>1, <2>2 DEF Informed, WrittenBy, Sweeping, Writing
<1>5. CASE CheckIntegrity(p)
  <2>1. CASE Fail(p)
    BY <1>3, <2>1
  <2>2. CASE ~Fail(p)
    <3>1. pc'[p] = "resolve" /\ pc[p] = "check" /\ UNCHANGED <<now, files, mem>>
      BY <1>2, <1>5, <2>2 DEF CheckIntegrity, world
    <3> QED BY <3>1 DEF Informed, WrittenBy, Sweeping, Writing, SaveSteps
  <2> QED BY <2>1, <2>2
<1>6. CASE ResolveDir(p)
  <2>1. pc'[p] = "listGuard" /\ pc[p] = "resolve" /\ UNCHANGED <<now, files>>
    BY <1>2, <1>6 DEF ResolveDir, world
  <2>2. mem'[p].at = mem[p].at /\ mem'[p].cutoff = now - RetentionDays
    <3>1. PICK i \in IF dir = NoDir THEN Inode ELSE {dir} :
            mem'[p] = [mem[p] EXCEPT !.cutoff = now - RetentionDays, !.inode = i]
      BY <1>2, <1>6 DEF ResolveDir
    <3> QED BY <1>1, <3>1 DEF Memory
  <2>3. mem[p].at \in Int /\ mem[p].at <= now /\ WrittenBy(mem[p].at)
    BY <1>1, <2>1 DEF Informed, SaveSteps, Memory
  <2> QED BY <1>1, <2>1, <2>2, <2>3 DEF Informed, WrittenBy, Sweeping, Writing
<1>7. ASSUME pc[p] \in SaveSteps \ {"check", "resolve"}
      PROVE  /\ mem[p].at <= now /\ WrittenBy(mem[p].at)
             /\ mem[p].at <= mem[p].cutoff + RetentionDays
             /\ mem[p].cutoff + RetentionDays <= now
  BY <1>7 DEF Informed
<1>8. CASE SaveGuard(p)
  <2>1. CASE Fail(p)
    BY <1>3, <2>1
  <2>2. CASE ~Fail(p) /\ pc[p] = "rmAfter"
    <3>1. Proceed(p, mem[p]) /\ UNCHANGED <<now, files, version>>
      BY <1>8, <2>2 DEF SaveGuard, world
    <3>2. Stale(p) \subseteq mem[p].todo
      BY <2>2 DEF Informed, SaveSteps, SaveGuards, Pending, Sweeping
    <3> QED BY <1>1, <1>7, <2>2, <3>1, <3>2, ProceedInformed DEF SaveSteps, SaveGuards, Stale
  <2>3. CASE ~Fail(p) /\ pc[p] # "rmAfter"
    <3>1. UNCHANGED <<now, files, version, mem>> /\ pc'[p] = AfterSaveGuard(p) /\ pc[p] \in SaveGuards
      BY <1>2, <1>8, <2>3 DEF SaveGuard, world
    <3>2. \/ pc[p] = "listGuard"   /\ pc'[p] = "list"
          \/ pc[p] = "entryGuard"  /\ pc'[p] = "stat"
          \/ pc[p] = "rmGuard"     /\ pc'[p] = "rm"
          \/ pc[p] = "writeGuard"  /\ pc'[p] = "open"
          \/ pc[p] = "renameGuard" /\ pc'[p] = "rename"
          \/ pc[p] = "afterGuard"  /\ pc'[p] = "done"
      BY <2>3, <3>1 DEF AfterSaveGuard, SaveGuards
    <3> QED BY <1>7, <3>1, <3>2
         DEF Informed, WrittenBy, Stale, Pending, Sweeping, Writing, SaveSteps, SaveGuards
  <2> QED BY <2>1, <2>2, <2>3
<1>9. CASE ListEntries(p)
  <2> DEFINE m == [mem[p] EXCEPT !.todo = {n \in Key : files[n] # NoFile}]
  <2>1. /\ m \in Memory /\ m.at = mem[p].at /\ m.cutoff = mem[p].cutoff
        /\ m.todo = {n \in Key : files[n] # NoFile}
    BY <1>1 DEF Memory
  <2>2. pc[p] = "list" /\ Proceed(p, m) /\ UNCHANGED <<now, files, version>>
    BY <1>9 DEF ListEntries, world
  <2> HIDE DEF m
  <2> QED BY <1>1, <1>7, <2>1, <2>2, ProceedInformed DEF SaveSteps, Owns
<1>10. CASE StatEntry(p)
  <2>1. pc[p] = "stat" /\ UNCHANGED <<now, files, version>>
    BY <1>10 DEF StatEntry, world
  <2>2. Stale(p) \subseteq mem[p].todo \cup {mem[p].name}
    BY <2>1 DEF Informed, SaveSteps, Pending, Sweeping
  <2>3. CASE Proceed(p, mem[p]) /\ ~Expired(files[mem[p].name], mem[p].cutoff)
    BY <1>1, <1>7, <2>1, <2>2, <2>3, ProceedInformed DEF SaveSteps, Stale
  <2>4. CASE Proceed(p, mem[p]) /\ files[mem[p].name] = NoFile
    BY <1>1, <1>7, <2>1, <2>2, <2>4, ProceedInformed DEF SaveSteps, Stale, Owns
  <2>5. CASE /\ pc'[p] = "parse"
             /\ mem'[p] = [mem[p] EXCEPT !.seen = version[mem[p].name]]
    <3>1. /\ mem'[p].todo = mem[p].todo /\ mem'[p].name = mem[p].name /\ mem'[p].at = mem[p].at
          /\ mem'[p].cutoff = mem[p].cutoff /\ mem'[p].seen = version[mem[p].name]
      BY <1>1, <2>5 DEF Memory
    <3> QED BY <1>7, <2>1, <2>2, <2>5, <3>1
         DEF Informed, WrittenBy, Stale, Pending, Sweeping, Writing, SaveSteps
  <2> QED BY <1>2, <1>10, <2>3, <2>4, <2>5 DEF StatEntry
<1>11. CASE ParseEntry(p)
  <2>1. pc[p] = "parse" /\ UNCHANGED <<now, files, version>>
    BY <1>11 DEF ParseEntry, world
  <2>2. Stale(p) \subseteq mem[p].todo \cup {mem[p].name} /\ mem[p].seen = version[mem[p].name]
    BY <2>1 DEF Informed, SaveSteps, Pending, Sweeping
  <2>3. CASE Proceed(p, mem[p]) /\ ~Owns(mem[p].name, files[mem[p].name])
    BY <1>1, <1>7, <2>1, <2>2, <2>3, ProceedInformed DEF SaveSteps, Stale
  <2>4. CASE pc'[p] = "rmGuard" /\ mem' = mem
    BY <1>7, <2>1, <2>2, <2>4
       DEF Informed, WrittenBy, Stale, Pending, Sweeping, Writing, SaveSteps
  <2> QED BY <1>2, <1>11, <2>3, <2>4 DEF ParseEntry
<1>12. CASE RemoveEntry(p)
  <2>1. pc[p] = "rm" /\ pc'[p] = "rmAfter" /\ UNCHANGED <<now, mem>>
    BY <1>2, <1>12 DEF RemoveEntry, world
  <2>2. \A n \in Name : files'[n] = files[n] \/ files'[n] = NoFile
    BY <1>1, <1>12 DEF RemoveEntry, Replace, TypeOK
  <2>3. files'[mem[p].name] = NoFile
    BY <1>1, <1>12 DEF RemoveEntry, Replace, TypeOK, Memory
  <2>4. Stale(p) \subseteq mem[p].todo \cup {mem[p].name}
    BY <2>1 DEF Informed, SaveSteps, Pending, Sweeping
  <2>5. Stale(p)' \subseteq mem[p].todo
    BY <2>1, <2>2, <2>3, <2>4 DEF Stale, Owns, Name
  <2>6. WrittenBy(mem[p].at)'
    BY <1>7, <2>1, <2>2 DEF WrittenBy, SaveSteps
  <2> QED BY <1>7, <2>1, <2>5, <2>6 DEF Informed, WrittenBy, Pending, Sweeping, Writing, SaveSteps
<1>13. CASE OpenTemp(p) \/ FillTemp(p)
  <2>1. CASE Fail(p)
    BY <1>3, <2>1
  <2>2. CASE ~Fail(p)
    <3>1. /\ UNCHANGED <<now, files, version, mem>>
          /\ \/ pc[p] = "open" /\ pc'[p] = "fill"
             \/ pc[p] = "fill" /\ pc'[p] = "renameGuard"
      BY <1>2, <1>13, <2>2 DEF OpenTemp, FillTemp, world
    <3> QED BY <1>7, <3>1 DEF Informed, WrittenBy, Stale, Pending, Sweeping, Writing, SaveSteps,
         SaveGuards
  <2> QED BY <2>1, <2>2
<1>14. CASE RenameTemp(p)
  <2>1. CASE temp[p] = NoFile
    BY <1>3, <1>14, <2>1 DEF RenameTemp
  <2>2. CASE temp[p] # NoFile
    <3>1. /\ files' = [files EXCEPT ![SavedKey(p)] = temp[p]] /\ pc'[p] = "afterGuard"
          /\ temp[p].gen = mem[p].at /\ mem[p].at \in Int
      BY <1>1, <1>14, <2>2, RenamesReport DEF Memory
    <3>2. pc[p] = "rename" /\ UNCHANGED <<now, mem>>
      BY <1>14 DEF RenameTemp, world
    <3>3. \A n \in Name : files'[n] = files[n] \/ files'[n] = temp[p]
      BY <1>1, <3>1 DEF TypeOK
    <3>4. WrittenBy(mem[p].at)'
      BY <1>7, <3>1, <3>2, <3>3 DEF WrittenBy, SaveSteps
    <3> QED BY <1>7, <3>1, <3>2, <3>4 DEF Informed, WrittenBy, Sweeping, Writing, SaveSteps
  <2> QED BY <2>1, <2>2
<1>15. CASE Throw(p) \/ Crash(p)
  BY <1>2, <1>3, <1>15 DEF Throw, Crash, Informed, SaveSteps, SaveGuards
<1> QED BY <1>4, <1>5, <1>6, <1>8, <1>9, <1>10, <1>11, <1>12, <1>13, <1>14, <1>15 DEF SaveStep

LEMMA SaverAlone ==
  ASSUME IInv, AloneInv, alone, OneAtATime, [Next]_vars, NEW p \in Saver, SaveStep(p)
  PROVE  OneRuns' /\ WrittenBy(now)' /\ \A q \in Saver : Informed(q)' /\ Signed(q)'
<1>1. /\ TypeOK /\ OneRuns /\ WrittenBy(now)
      /\ \A q \in Saver : Informed(q) /\ Signed(q)
  BY DEF IInv, AloneInv
<1>2. ASSUME NEW q \in Saver \ {p}
      PROVE  pc'[q] = pc[q] /\ mem'[q] = mem[q] /\ (temp'[q] = temp[q] \/ temp'[q] = NoFile)
  <2>1. /\ \E l : Goto(p, l)
        /\ mem' = mem \/ \E m : SetMem(p, m)
        /\ temp' = temp \/ \E c : temp' = [temp EXCEPT ![p] = c]
    BY DEF SaveStep, BeginSave, CheckIntegrity, ResolveDir, SaveGuard, ListEntries, StatEntry,
       ParseEntry, RemoveEntry, OpenTemp, FillTemp, RenameTemp, Throw, Crash, Proceed, Fail
  <2> QED BY <1>1, <2>1 DEF Goto, SetMem, TypeOK
<1>3. pc[p] \in SaveSteps \cup {"begin"}
  BY DEF SaveStep, BeginSave, CheckIntegrity, ResolveDir, SaveGuard, ListEntries, StatEntry,
     ParseEntry, RemoveEntry, OpenTemp, FillTemp, RenameTemp, Throw, Crash, SaveSteps
<1>4. \A q \in Saver \ {p} : pc[q] \notin SaveSteps
  <2>1. CASE pc[p] = "begin"
    <3>1. BeginSave(p)
      BY <2>1 DEF SaveStep, CheckIntegrity, ResolveDir, SaveGuard, SaveGuards, SaveSteps,
         ListEntries, StatEntry, ParseEntry, RemoveEntry, OpenTemp, FillTemp, RenameTemp, Throw,
         Crash
    <3>2. pc'[p] = "check"
      BY <1>1, <3>1 DEF BeginSave, Goto, TypeOK
    <3> QED BY <2>1, <3>2 DEF OneAtATime
  <2>2. CASE pc[p] \in SaveSteps
    BY <1>1, <2>2 DEF OneRuns
  <2> QED BY <1>3, <2>1, <2>2
<1>5. OneRuns'
  BY <1>2, <1>4 DEF OneRuns
<1>6. \A q \in Saver : Informed(q)'
  BY <1>1, <1>2, <1>4, MoverInformed DEF Informed
<1>7. \A q \in Saver : Signed(q)'
  <2>1. \A q \in Saver \ {p} : Signed(q)'
    BY <1>1, <1>2 DEF Signed, KeyOf, SavedKey
  <2> QED BY <1>1, <2>1, SignedKept
<1>8. WrittenBy(now)'
  <2>1. UNCHANGED now /\ (UNCHANGED <<files, version>> \/ RemoveEntry(p) \/ RenameTemp(p))
    BY OnlyTwo
  <2>2. CASE UNCHANGED <<files, version>>
    BY <1>1, <2>1, <2>2 DEF WrittenBy
  <2>3. CASE RemoveEntry(p)
    BY <1>1, <2>1, <2>3 DEF RemoveEntry, Replace, WrittenBy, TypeOK
  <2>4. CASE RenameTemp(p) /\ temp[p] # NoFile
    <3>1. files' = [files EXCEPT ![SavedKey(p)] = temp[p]] /\ temp[p].gen = mem[p].at
      BY <1>1, <2>4, RenamesReport
    <3>2. mem[p].at <= now
      BY <1>1, <2>4 DEF RenameTemp, Informed, SaveSteps
    <3> QED BY <1>1, <2>1, <3>1, <3>2 DEF WrittenBy, TypeOK
  <2>5. CASE RenameTemp(p) /\ temp[p] = NoFile
    BY <1>1, <2>1, <2>5 DEF RenameTemp, WrittenBy
  <2> QED BY <2>1, <2>2, <2>3, <2>4, <2>5
<1> QED BY <1>5, <1>6, <1>7, <1>8

LEMMA StepAlone == IInv /\ AloneInv /\ [AloneNext]_aloneVars => AloneInv'
<1> SUFFICES ASSUME IInv, AloneInv, [AloneNext]_aloneVars, alone'
             PROVE  OneRuns' /\ WrittenBy(now)' /\ \A p \in Saver : Informed(p)' /\ Signed(p)'
  BY DEF AloneInv
<1>1. alone /\ (OneAtATime \/ UNCHANGED vars) /\ [Next]_vars
  BY DEF AloneNext, aloneVars
<1>2. TypeOK /\ OneRuns /\ WrittenBy(now) /\ \A p \in Saver : Informed(p) /\ Signed(p)
  BY <1>1 DEF AloneInv, IInv
<1>3. CASE OneAtATime /\ \E p \in Saver : SaveStep(p)
  BY <1>1, <1>3, SaverAlone
<1>4. CASE /\ UNCHANGED <<files, version, temp, mem>> /\ now' \in {now, now + 1}
           /\ \A p \in Saver : pc'[p] = pc[p]
  <2>1. /\ now \in Int /\ now <= now' /\ now' \in Int /\ RetentionDays \in Int
        /\ \A n \in Name : files[n] # NoFile => files[n].gen \in Int
        /\ \A p \in Saver : mem[p].at \in Int /\ mem[p].cutoff \in Int
    BY <1>2, <1>4, BaselineAssumption DEF TypeOK, Content, Entry, Memory
  <2>2. OneRuns' /\ WrittenBy(now)'
    BY <1>2, <1>4, <2>1 DEF OneRuns, WrittenBy
  <2>3. ASSUME NEW p \in Saver PROVE Informed(p)'
    <3>1. /\ Informed(p) /\ Stale(p)' = Stale(p) /\ Pending(p)' = Pending(p)
          /\ WrittenBy(mem[p].at)' <=> WrittenBy(mem[p].at)
          /\ mem[p].at <= now => mem[p].at <= now'
          /\ mem[p].cutoff + RetentionDays <= now => mem[p].cutoff + RetentionDays <= now'
      BY <1>2, <1>4, <2>1 DEF Stale, Pending, WrittenBy
    <3> QED BY <1>4, <3>1 DEF Informed
  <2>4. \A p \in Saver : Signed(p)'
    BY <1>2, <1>4 DEF Signed, KeyOf, SavedKey
  <2> QED BY <2>2, <2>3, <2>4
<1>5. CASE \E r \in Reader : LoadStep(r)
  <2>1. PICK r \in Reader : LoadStep(r)
    BY <1>5
  <2>2. UNCHANGED <<now, files, version, temp, mem>> /\ \E l : Goto(r, l)
    BY <2>1, FinishGoes DEF LoadStep, BeginLoad, Locate, LoadGuard, ScanDir, StatFile, ReadEntry,
       Advance, Outcomes, world
  <2>3. \A p \in Saver : pc'[p] = pc[p]
    BY <1>2, <2>2, BaselineAssumption DEF Goto, TypeOK
  <2> QED BY <1>4, <2>2, <2>3
<1>6. CASE Tick \/ GitChange \/ UNCHANGED vars
  BY <1>4, <1>6 DEF Tick, GitChange, vars, world
<1>7. CASE OneAtATime /\ LoseDirectory
  BY <1>2, <1>7 DEF OneAtATime, LoseDirectory, TypeOK
<1> QED BY <1>1, <1>3, <1>5, <1>6, <1>7 DEF Next

LEMMA MapStep == IInv /\ AloneInv /\ [AloneNext]_aloneVars
                   => [Map!Next]_<<IF alone THEN files ELSE Empty, now>>
<1> SUFFICES ASSUME IInv, AloneInv, [AloneNext]_aloneVars
             PROVE  [Map!Next]_<<IF alone THEN files ELSE Empty, now>>
  OBVIOUS
<1>1. alone' = alone /\ (~alone \/ OneAtATime \/ UNCHANGED vars) /\ [Next]_vars /\ TypeOK
  BY DEF AloneNext, aloneVars, IInv
<1>2. now' \in {now, now + 1}
  BY <1>1, OnlyTwo DEF Next, vars, world, Tick, GitChange, LoseDirectory, LoadStep, BeginLoad,
     Locate, LoadGuard, ScanDir, StatFile, ReadEntry
<1>3. CASE ~alone \/ UNCHANGED files
  BY <1>1, <1>2, <1>3 DEF Map!Next
<1>4. ASSUME alone, OneAtATime, NEW p \in Saver, SaveStep(p), files' # files
      PROVE  Map!Next
  <2>1. /\ now' = now /\ (RemoveEntry(p) \/ RenameTemp(p)) /\ Informed(p) /\ Signed(p)
        /\ mem[p] \in Memory /\ now \in Int /\ RetentionDays \in Int
        /\ \A n \in Name : files[n] # NoFile => files[n] \in Entry
    BY <1>1, <1>4, OnlyTwo, BaselineAssumption DEF AloneInv, TypeOK, Content
  <2>2. CASE RemoveEntry(p)
    <3> DEFINE n == mem[p].name
    <3>1. pc[p] = "rm" /\ files' = [files EXCEPT ![n] = NoFile]
      BY <1>4, <2>2 DEF RemoveEntry, Replace
    <3>2. Owns(n, files[n]) /\ n \in Key /\ Expired(files[n], mem[p].cutoff)
      BY <2>1, <3>1, RemovesStale
    <3>3. files[n] \in Entry /\ mem[p].cutoff + RetentionDays <= now
      BY <2>1, <3>1, <3>2 DEF Informed, SaveSteps, Owns, Name
    <3>4. files[n].mtime < now - RetentionDays
      BY <2>1, <3>2, <3>3 DEF Expired, Entry, Memory
    <3> HIDE DEF n
    <3>5. Map!Expire(n)
      BY <1>1, <1>4, <3>1, <3>2, <3>4 DEF Map!Expire, Map!Own, Owns, KeyOf
    <3> QED BY <2>1, <3>2, <3>5 DEF Map!Next
  <2>3. CASE RenameTemp(p)
    <3> DEFINE n == SavedKey(p)
               e == temp[p]
    <3>1. e # NoFile /\ pc[p] = "rename"
      BY <1>4, <2>3 DEF RenameTemp
    <3>2. /\ files' = [files EXCEPT ![n] = e] /\ e \in Entry /\ e.kind = "valid"
          /\ n \in Key /\ KeyOf(e) = n /\ e.gen = mem[p].at
      BY <2>1, <2>3, <3>1, RenamesReport
    <3>3. /\ WrittenBy(e.gen) /\ e.gen - RetentionDays <= mem[p].cutoff
          /\ Stale(p) = {}
      BY <2>1, <3>1, <3>2
         DEF Informed, SaveSteps, Writing, Sweeping, Pending, Memory
    <3> HIDE DEF n, e
    <3>4. \A k \in Key : Map!Own(k) => files[k].mtime >= e.gen - RetentionDays
      <4> SUFFICES ASSUME NEW k \in Key, Map!Own(k)
                   PROVE  files[k].mtime >= e.gen - RetentionDays
        OBVIOUS
      <4>1. Owns(k, files[k]) /\ files[k] \in Entry
        BY <1>4, <2>1 DEF Map!Own, Owns, KeyOf, Name
      <4>2. ~Expired(files[k], mem[p].cutoff)
        BY <3>3, <4>1 DEF Stale
      <4> QED BY <2>1, <3>2, <3>3, <4>1, <4>2 DEF Expired, Entry, Memory
    <3>5. Map!Own(n) => files[n].gen <= e.gen
      BY <1>4, <3>2, <3>3 DEF Map!Own, WrittenBy, Name
    <3>6. Map!Put(n, e) /\ files'[n] = e
      <4>1. files'[n] = e
        BY <1>1, <3>2 DEF TypeOK, Name
      <4> QED BY <1>1, <1>4, <3>1, <3>2, <3>4, <3>5, <4>1 DEF Map!Put, KeyOf
    <3> QED BY <1>1, <1>4, <2>1, <3>2, <3>6 DEF Map!Next
  <2> QED BY <2>1, <2>2, <2>3
<1>5. alone /\ OneAtATime => ~LoseDirectory
  BY <1>1 DEF OneAtATime, LoseDirectory, TypeOK
<1>6. Tick \/ GitChange \/ UNCHANGED vars \/ (\E r \in Reader : LoadStep(r)) => UNCHANGED files
  BY DEF Tick, GitChange, vars, LoadStep, BeginLoad, Locate, LoadGuard, ScanDir, StatFile, ReadEntry
<1> QED BY <1>1, <1>3, <1>4, <1>5, <1>6 DEF Next

(***************************************************************************)
(* One save at a time in a directory that stays: the directory implements  *)
(* the map, for any contents found that are not from the future, and       *)
(* whatever is loaded, crashes or fails meanwhile: an entry goes when it   *)
(* is older than the retention time, and a report is saved when none that  *)
(* old is left and none newer is there (persistence/baseline-store.ts).    *)
(***************************************************************************)
THEOREM BaselineStoreIsMap == AloneSpec => ImplementsBaselineMap
<1>1. AloneInit => Map!Init
  BY DEF AloneInit, Init, Map!Init
<1>2. IInv /\ [AloneNext]_aloneVars => IInv'
  <2> SUFFICES ASSUME IInv, [AloneNext]_aloneVars PROVE IInv'
    OBVIOUS
  <2>1. [Next]_vars
    BY DEF AloneNext, aloneVars
  <2>2. TypeOK'
    BY <2>1, StepType DEF IInv
  <2> QED BY <2>1, <2>2, RemoveKept, WholeKept, ReadKept DEF IInv
<1>3. AloneSpec => [](IInv /\ AloneInv)
  BY InitAlone, <1>2, StepAlone, PTL DEF AloneSpec
<1> QED BY <1>1, <1>3, MapStep, PTL DEF AloneSpec, ImplementsBaselineMap, Map!Spec
=============================================================================
