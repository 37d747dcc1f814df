---------------------------- MODULE BaselineStore ----------------------------
(***************************************************************************)
(* `scan --save-baseline` and the commands that load a baseline, on one    *)
(* .r3-doctor/baselines directory without a lock.  A save first removes    *)
(* the expired entries of the directory, one file at a time (lstat, read,  *)
(* guard, rm), then writes its own through a temporary file; its file name *)
(* is made of the report's input id and commit.  A load lists the          *)
(* directory, reads every file and takes the newest entry of its commit.   *)
(* Every step is one awaited file operation; other processes, the clock,   *)
(* Git and `git clean` come between any two.                               *)
(***************************************************************************)
EXTENDS Integers, FiniteSets

CONSTANTS
  Saver, Reader,  \* the invocations that save, that load
  InputId,        \* ids of what was analysed (unit, configuration, ...)
  Commit,         \* commits
  GitState,       \* what an inspection can see: the head, and if it is clean
  Stray,          \* .json files whose names the store does not make
  Inode,          \* inode numbers the directory can be given
  InitFiles,      \* the contents the directory may have at the start
  RetentionDays,  \* policy.retentionDays
  MaxTime,        \* bound of the clock, in days
  MaxLosses,      \* bound of the removals of the directory
  NoFile, NoDir

\* baselineEntryFileName
Key  == InputId \X Commit
Name == Key \cup Stray

\* valid: a manifest of the current schema and contract; foreign: one of
\* another version; invalid: a JSON object that the schema refuses.
Kinds == {"valid", "foreign", "invalid", "malformed"}

Entry == [input: InputId, commit: Commit, gen: Int, mtime: Int, kind: Kinds]
Content == Entry \cup {NoFile}

ASSUME BaselineAssumption ==
  /\ RetentionDays \in Nat \ {0} /\ MaxTime \in Nat /\ MaxLosses \in Nat
  /\ GitState \subseteq [head: Commit, dirty: BOOLEAN]
  /\ NoFile \notin Entry /\ NoDir \notin Inode
  /\ Key \cap Stray = {} /\ Saver \cap Reader = {}
  /\ InitFiles \subseteq [Name -> Content]

VARIABLES
  now,      \* the clock
  git,      \* what `git` shows
  dir,      \* inode of the directory, or NoDir
  losses,   \* how often it was removed
  files,    \* its .json files
  version,  \* how often each was replaced or removed (history variable)
  temp,     \* the temporary file of each saver
  pc,       \* the operation each process does next
  mem,      \* the locals of each saver
  view      \* the locals of each reader

world == <<now, git, losses>>
vars  == <<world, dir, files, version, temp, pc, mem, view>>

SaveGuards == {"listGuard", "entryGuard", "rmGuard", "rmAfter", "writeGuard",
               "renameGuard", "afterGuard"}
LoadGuards == {"loadGuard", "fileGuard"}
SaveSteps  == {"check", "resolve", "list", "stat", "parse", "rm", "open",
               "fill", "rename"} \cup SaveGuards
LoadSteps  == {"locate", "scan", "lstat", "read"} \cup LoadGuards
Terminal   == {"done", "failed", "crashed"}

Memory == [snap: GitState, input: InputId, at: Int, cutoff: Int,
           inode: Inode \cup {NoDir}, todo: SUBSET Key, name: Name, seen: Nat]

Outcomes == {"pending", "loaded", "none", "malformed", "vanished", "changed", "invalid"}

View == [commit: Commit, inode: Inode \cup {NoDir}, todo: SUBSET Name,
         name: Name, found: SUBSET Entry, seen: [Name -> Nat],
         outcome: Outcomes, entry: Content]

TypeOK ==
  /\ now \in 0 .. MaxTime /\ git \in GitState
  /\ dir \in Inode \cup {NoDir} /\ losses \in 0 .. MaxLosses
  /\ files \in [Name -> Content]
  /\ version \in [Name -> Nat]
  /\ temp \in [Saver -> Content]
  /\ pc \in [Saver \cup Reader -> {"begin"} \cup SaveSteps \cup LoadSteps \cup Terminal]
  /\ mem \in [Saver -> Memory]
  /\ view \in [Reader -> View]

-----------------------------------------------------------------------------
SavedKey(p) == <<mem[p].input, mem[p].snap.head>>

KeyOf(e) == <<e.input, e.commit>>

Goto(p, label)  == pc' = [pc EXCEPT ![p] = label]
SetMem(p, m)    == mem' = [mem EXCEPT ![p] = m]
SetView(r, v)   == view' = [view EXCEPT ![r] = v]
Replace(n, c)   == /\ files' = [files EXCEPT ![n] = c]
                   /\ version' = [version EXCEPT ![n] = @ + 1]
Fail(p)         == Goto(p, "failed") /\ temp' = [temp EXCEPT ![p] = NoFile]

Init ==
  /\ now = 0 /\ losses = 0
  /\ git \in GitState
  /\ files \in InitFiles
  /\ dir \in IF \E n \in Name : files[n] # NoFile THEN Inode ELSE Inode \cup {NoDir}
  /\ version = [n \in Name |-> 0]
  /\ temp = [p \in Saver |-> NoFile]
  /\ pc = [p \in Saver \cup Reader |-> "begin"]
  /\ \E i \in InputId, n \in Name :
       mem = [p \in Saver |->
                [snap |-> git, input |-> i, at |-> 0, cutoff |-> 0, inode |-> NoDir,
                 todo |-> {}, name |-> n, seen |-> 0]]
  /\ \E n \in Name :
       view = [r \in Reader |->
                 [commit |-> git.head, inode |-> NoDir, todo |-> {}, name |-> n,
                  found |-> {}, seen |-> version, outcome |-> "pending",
                  entry |-> NoFile]]

-----------------------------------------------------------------------------
(* Saving.                                                                 *)

\* Intake and diagnosis of one unit.
BeginSave(p) ==
  /\ pc[p] = "begin"
  /\ \E i \in InputId :
       SetMem(p, [mem[p] EXCEPT !.snap = git, !.input = i, !.at = now])
  /\ Goto(p, "check")
  /\ UNCHANGED <<world, dir, files, version, temp, view>>

\* assertSnapshotPersistenceIntegrity with requireClean: true.
CheckIntegrity(p) ==
  /\ pc[p] = "check"
  /\ IF git = mem[p].snap /\ ~git.dirty
     THEN Goto(p, "resolve") /\ UNCHANGED temp
     ELSE Fail(p)
  /\ UNCHANGED <<world, dir, files, version, mem, view>>

\* resolveSafeStorageDir(..., create), then the cutoff.
ResolveDir(p) ==
  /\ pc[p] = "resolve"
  /\ \E i \in IF dir = NoDir THEN Inode ELSE {dir} :
       /\ dir' = i
       /\ SetMem(p, [mem[p] EXCEPT !.cutoff = now - RetentionDays, !.inode = i])
  /\ Goto(p, "listGuard")
  /\ UNCHANGED <<world, files, version, temp, view>>

AfterSaveGuard(p) ==
  CASE pc[p] = "listGuard"   -> "list"
    [] pc[p] = "entryGuard"  -> "stat"
    [] pc[p] = "rmGuard"     -> "rm"
    [] pc[p] = "writeGuard"  -> "open"
    [] pc[p] = "renameGuard" -> "rename"
    [] OTHER -> "done"

\* The next entry of retainBaselineEntries' loop, or the write.
Proceed(p, m) ==
  IF m.todo = {}
  THEN Goto(p, "writeGuard") /\ SetMem(p, m)
  ELSE /\ Goto(p, "entryGuard")
       /\ \E n \in m.todo : SetMem(p, [m EXCEPT !.todo = @ \ {n}, !.name = n])

\* assertSafeStorageDir, wherever a save calls it.
SaveGuard(p) ==
  /\ pc[p] \in SaveGuards
  /\ IF dir # mem[p].inode
     THEN Fail(p) /\ UNCHANGED mem
     ELSE /\ IF pc[p] = "rmAfter" THEN Proceed(p, mem[p])
             ELSE Goto(p, AfterSaveGuard(p)) /\ UNCHANGED mem
          /\ UNCHANGED temp
  /\ UNCHANGED <<world, dir, files, version, view>>

\* readdir; a directory that has gone holds nothing to remove.
ListEntries(p) ==
  /\ pc[p] = "list"
  /\ Proceed(p, [mem[p] EXCEPT !.todo = {n \in Key : files[n] # NoFile}])
  /\ UNCHANGED <<world, dir, files, version, temp, view>>

\* Mutant: an entry of exactly the retention time has expired too.
ExpiredTooEarly(e, cutoff) == e.mtime <= cutoff

Expired(e, cutoff) == e.mtime < cutoff

StatEntry(p) ==
  /\ pc[p] = "stat"
  /\ LET e == files[mem[p].name] IN
     IF e # NoFile /\ Expired(e, mem[p].cutoff)
     THEN /\ Goto(p, "parse")
          /\ SetMem(p, [mem[p] EXCEPT !.seen = version[mem[p].name]])
     ELSE Proceed(p, mem[p])
  /\ UNCHANGED <<world, dir, files, version, temp, view>>

\* Mutant: what another version of the program wrote is removed too.
OwnsAny(n, e) == e # NoFile /\ e.kind # "malformed"

\* Only a valid manifest under the name that it would be saved under.
Owns(n, e) == e # NoFile /\ e.kind = "valid" /\ KeyOf(e) = n

ParseEntry(p) ==
  /\ pc[p] = "parse"
  /\ IF Owns(mem[p].name, files[mem[p].name])
     THEN Goto(p, "rmGuard") /\ UNCHANGED mem
     ELSE Proceed(p, mem[p])
  /\ UNCHANGED <<world, dir, files, version, temp, view>>

\* rm with force: a file that has gone is fine.
RemoveEntry(p) ==
  /\ pc[p] = "rm"
  /\ IF files[mem[p].name] = NoFile THEN UNCHANGED <<files, version>>
     ELSE Replace(mem[p].name, NoFile)
  /\ Goto(p, "rmAfter")
  /\ UNCHANGED <<world, dir, temp, mem, view>>

\* Mutant: the entry is created under its own name and then filled.
OpenInPlace(p) ==
  /\ pc[p] = "open"
  /\ IF dir = NoDir
     THEN Fail(p) /\ UNCHANGED <<files, version>>
     ELSE /\ Replace(SavedKey(p), [input |-> mem[p].input, commit |-> mem[p].snap.head,
                                   gen |-> mem[p].at, mtime |-> now, kind |-> "malformed"])
          /\ temp' = [temp EXCEPT ![p] = files'[SavedKey(p)]]
          /\ Goto(p, "fill")
  /\ UNCHANGED <<world, dir, mem, view>>

\* writeFile of the temporary file: created, then filled.
OpenTemp(p) ==
  /\ pc[p] = "open"
  /\ IF dir = NoDir
     THEN Fail(p)
     ELSE /\ temp' = [temp EXCEPT ![p] =
                [input |-> mem[p].input, commit |-> mem[p].snap.head,
                 gen |-> mem[p].at, mtime |-> now, kind |-> "malformed"]]
          /\ Goto(p, "fill")
  /\ UNCHANGED <<world, dir, files, version, mem, view>>

FillTemp(p) ==
  /\ pc[p] = "fill"
  /\ temp' = [temp EXCEPT ![p] =
                IF @ = NoFile THEN NoFile ELSE [@ EXCEPT !.mtime = now, !.kind = "valid"]]
  /\ Goto(p, "renameGuard")
  /\ UNCHANGED <<world, dir, files, version, mem, view>>

RenameTemp(p) ==
  /\ pc[p] = "rename"
  /\ IF temp[p] = NoFile
     THEN Fail(p) /\ UNCHANGED <<files, version>>
     ELSE /\ Replace(SavedKey(p), temp[p])
          /\ temp' = [temp EXCEPT ![p] = NoFile]
          /\ Goto(p, "afterGuard")
  /\ UNCHANGED <<world, dir, mem, view>>

\* Another awaited call of the save rejects.
Throw(p) ==
  /\ pc[p] \in SaveSteps \ {"afterGuard"}
  /\ Fail(p)
  /\ UNCHANGED <<world, dir, files, version, mem, view>>

Crash(p) ==
  /\ pc[p] \in SaveSteps
  /\ Goto(p, "crashed")
  /\ UNCHANGED <<world, dir, files, version, temp, mem, view>>

-----------------------------------------------------------------------------
(* Loading.                                                                *)

Finish(r, v, outcome, e) ==
  /\ SetView(r, [v EXCEPT !.outcome = outcome, !.entry = e])
  /\ Goto(r, IF outcome \in {"loaded", "none"} THEN "done" ELSE "failed")

Refuse(r, outcome) == Finish(r, view[r], outcome, NoFile)

BeginLoad(r) ==
  /\ pc[r] = "begin"
  /\ \E c \in Commit : SetView(r, [view[r] EXCEPT !.commit = c])
  /\ Goto(r, "locate")
  /\ UNCHANGED <<world, dir, files, version, temp, mem>>

\* resolveSafeStorageDir without create: no directory, no baseline.
Locate(r) ==
  /\ pc[r] = "locate"
  /\ IF dir = NoDir THEN Refuse(r, "none")
     ELSE SetView(r, [view[r] EXCEPT !.inode = dir]) /\ Goto(r, "loadGuard")
  /\ UNCHANGED <<world, dir, files, version, temp, mem>>

LoadGuard(r) ==
  /\ pc[r] \in LoadGuards
  /\ IF dir # view[r].inode THEN Refuse(r, "changed")
     ELSE Goto(r, IF pc[r] = "loadGuard" THEN "scan" ELSE "lstat") /\ UNCHANGED view
  /\ UNCHANGED <<world, dir, files, version, temp, mem>>

\* Mutant: the order of generatedAt is reversed.
OldestOf(S) == {e \in S : \A f \in S : e.gen <= f.gen}

\* Between entries of one time the file name decides: left open.
NewestOf(S) == {e \in S : \A f \in S : f.gen <= e.gen}

\* The newest entry of the commit decides; an older one is no substitute.
Select(r, v) ==
  LET matching == {e \in v.found : e.commit = v.commit} IN
  \/ matching = {} /\ Finish(r, v, "none", NoFile)
  \/ \E e \in NewestOf(matching) :
       \/ e.kind = "valid"   /\ Finish(r, v, "loaded", e)
       \/ e.kind = "foreign" /\ Finish(r, v, "none", NoFile)
       \/ e.kind = "invalid" /\ Finish(r, v, "invalid", NoFile)

\* The next file of the loop (by name: left open), or the selection.
Advance(r, v) ==
  IF v.todo = {}
  THEN Select(r, v)
  ELSE /\ Goto(r, "fileGuard")
       /\ \E n \in v.todo : SetView(r, [v EXCEPT !.todo = @ \ {n}, !.name = n])

ScanDir(r) ==
  /\ pc[r] = "scan"
  /\ IF dir = NoDir THEN Refuse(r, "vanished")
     ELSE Advance(r, [view[r] EXCEPT !.todo = {n \in Name : files[n] # NoFile},
                                     !.seen = version])
  /\ UNCHANGED <<world, dir, files, version, temp, mem>>

\* A listed file that has gone since rejects the load.
StatFile(r) ==
  /\ pc[r] = "lstat"
  /\ IF files[view[r].name] = NoFile THEN Refuse(r, "vanished")
     ELSE Goto(r, "read") /\ UNCHANGED view
  /\ UNCHANGED <<world, dir, files, version, temp, mem>>

ReadEntry(r) ==
  /\ pc[r] = "read"
  /\ LET e == files[view[r].name] IN
     \/ e = NoFile /\ Refuse(r, "vanished")
     \/ e # NoFile /\ e.kind = "malformed" /\ Refuse(r, "malformed")
     \/ /\ e # NoFile /\ e.kind # "malformed"
        /\ Advance(r, [view[r] EXCEPT !.found = @ \cup {e}])
  /\ UNCHANGED <<world, dir, files, version, temp, mem>>

-----------------------------------------------------------------------------
Tick ==
  /\ now < MaxTime /\ now' = now + 1
  /\ UNCHANGED <<git, losses, dir, files, version, temp, pc, mem, view>>

GitChange ==
  /\ git' \in GitState \ {git}
  /\ UNCHANGED <<now, losses, dir, files, version, temp, pc, mem, view>>

LoseDirectory ==
  /\ dir # NoDir /\ losses < MaxLosses
  /\ dir' = NoDir /\ losses' = losses + 1
  /\ files' = [n \in Name |-> NoFile]
  /\ version' = [n \in Name |-> IF files[n] = NoFile THEN version[n] ELSE version[n] + 1]
  /\ temp' = [p \in Saver |-> NoFile]
  /\ UNCHANGED <<now, git, pc, mem, view>>

SaveStep(p) ==
  \/ BeginSave(p) \/ CheckIntegrity(p) \/ ResolveDir(p) \/ SaveGuard(p)
  \/ ListEntries(p) \/ StatEntry(p) \/ ParseEntry(p) \/ RemoveEntry(p)
  \/ OpenTemp(p) \/ FillTemp(p) \/ RenameTemp(p) \/ Throw(p) \/ Crash(p)

LoadStep(r) ==
  \/ BeginLoad(r) \/ Locate(r) \/ LoadGuard(r) \/ ScanDir(r) \/ StatFile(r)
  \/ ReadEntry(r)

Next ==
  \/ \E p \in Saver : SaveStep(p)
  \/ \E r \in Reader : LoadStep(r)
  \/ Tick \/ GitChange \/ LoseDirectory

Spec == Init /\ [][Next]_vars

-----------------------------------------------------------------------------
(***************************************************************************)
(* A load never fails on a half-written entry: a file that does not parse  *)
(* was there from the start, whenever savers die, fail or lose the         *)
(* directory (shared/atomic-write.ts: the temporary name does not end in   *)
(* .json, and only a finished file is renamed).                            *)
(***************************************************************************)
LoadsParse ==
  [][\A r \in Reader : view[r].outcome = "pending" /\ view'[r].outcome = "malformed"
       => version[view[r].name] = 0]_vars

(***************************************************************************)
(* retainBaselineEntries removes a file that nobody replaced since its     *)
(* lstat only if it has expired, is a manifest of this version and carries *)
(* its own name; files of others, of other versions and broken ones stay.  *)
(***************************************************************************)
RemovesWhatItChecked ==
  [][\A p \in Saver :
       pc[p] = "rm" /\ pc'[p] = "rmAfter" /\ version[mem[p].name] = mem[p].seen =>
         LET e == files[mem[p].name] IN
         /\ e # NoFile
         /\ e.mtime < mem[p].cutoff /\ e.kind = "valid"
         /\ <<e.input, e.commit>> = mem[p].name]_vars

\* n held the same matching entry from r's listing until now.
Stable(r, n) ==
  /\ files[n] # NoFile /\ files[n].commit = view[r].commit
  /\ version[n] = view[r].seen[n]

(***************************************************************************)
(* A load that ends well returns an entry of its commit that no entry      *)
(* present throughout the load is newer than; it returns none only when a  *)
(* file of another version is as new, whatever is saved and removed while  *)
(* the directory is read.                                                  *)
(***************************************************************************)
LoadedIsNewest ==
  [][\A r \in Reader : pc[r] = "read" /\ pc'[r] = "done" =>
       LET v == view'[r] IN
       /\ v.outcome = "loaded" => v.entry.commit = v.commit /\ v.entry.kind = "valid"
       /\ \A n \in Name : Stable(r, n) =>
            IF v.outcome = "loaded" THEN v.entry.gen >= files[n].gen
            ELSE \E f \in v.found : f.kind = "foreign" /\ f.commit = v.commit
                                   /\ f.gen >= files[n].gen]_vars
=============================================================================
