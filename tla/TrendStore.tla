------------------------------ MODULE TrendStore ------------------------------
(***************************************************************************)
(* `scan --record-trend`: several r3-doctor processes append an entry to   *)
(* the same .r3-doctor/trends/history.jsonl.  No lock protects the file.   *)
(* Each process reads it three times (retention, previous entry, append)   *)
(* and replaces it up to twice (retention, append) through a temporary     *)
(* file and rename(2).  Meanwhile the clock advances, the Git state moves, *)
(* the storage directory may be removed and made again (`git clean -fdx`), *)
(* a process may die, and a read may fail.                                 *)
(*                                                                         *)
(* A file is the set of its lines; a line carries the position n at which  *)
(* it was appended, so file order is the order of n.  The clock counts     *)
(* days.  One process is one invocation: a retry is another process.       *)
(***************************************************************************)
EXTENDS Integers, FiniteSets

CONSTANTS
  Proc,           \* the scan invocations
  Inode,          \* inode numbers a storage directory can be given
  GitState,       \* what an inspection of the repository can see (HEAD, status)
  NonGit,         \* the member of GitState of a directory without Git
  Seed,           \* ids of the lines of the history found at the start
  InitHistories,  \* the histories the first process may find
  RetentionDays,  \* policy.retentionDays
  MaxTime,        \* bound of the clock
  MaxLosses,      \* bound of the removals of the storage directory
  ReadFaults,     \* can the read inside atomicAppendLine fail?
  NoFile, NoDir, NoBase

Line == [id: Proc \cup Seed, at: Int, n: Int, sha: GitState,
         base: Proc \cup Seed \cup {NoBase}, ok: BOOLEAN]
Lines == {S \in SUBSET Line : IsFiniteSet(S)}

\* nl: the text ends with a newline; whole: the write of it came to its end.
File == [lines: Lines, nl: BOOLEAN, whole: BOOLEAN]

ASSUME ConstantAssumption ==
  /\ NonGit \in GitState
  /\ RetentionDays \in Nat \ {0}
  /\ MaxTime \in Nat /\ MaxLosses \in Nat
  /\ ReadFaults \in BOOLEAN
  /\ NoFile \notin File /\ NoDir \notin Inode /\ NoBase \notin Proc \cup Seed
  /\ Proc \cap Seed = {}
  /\ InitHistories \subseteq File \cup {NoFile}
  /\ \A h \in InitHistories \ {NoFile} : h.whole

VARIABLES
  now,      \* the clock
  git,      \* what `git` shows now
  dir,      \* inode of the storage directory, or NoDir
  losses,   \* how often the storage directory was removed
  history,  \* history.jsonl
  temp,     \* the temporary file of each process
  version,  \* how often history.jsonl was replaced or removed (history variable)
  pc,       \* the operation each process does next
  mem       \* the local variables of each process

vars == <<now, git, dir, losses, history, temp, version, pc, mem>>

Guards   == {"retainGuard", "appendGuard", "mkdirGuard", "writeGuard",
             "renameGuard", "afterGuard"}
Steps    == {"check", "resolve", "retainRead", "load", "mkdir", "read",
             "open", "fill", "rename"} \cup Guards
Terminal == {"done", "failed", "crashed"}
Phases   == {"retain", "append"}

Memory == [snap: GitState, at: Int, cutoff: Int, inode: Inode \cup {NoDir},
           base: Proc \cup Seed \cup {NoBase}, baseAt: Nat, copyAt: Nat,
           blind: BOOLEAN, out: Lines, phase: Phases]

TypeOK ==
  /\ now \in 0 .. MaxTime
  /\ git \in GitState
  /\ dir \in Inode \cup {NoDir}
  /\ losses \in 0 .. MaxLosses
  /\ history \in File \cup {NoFile}
  /\ temp \in [Proc -> File \cup {NoFile}]
  /\ version \in Nat
  /\ pc \in [Proc -> {"begin"} \cup Steps \cup Terminal]
  /\ mem \in [Proc -> Memory]

-----------------------------------------------------------------------------
(* What a process computes from what it read.                              *)

\* Every line parses and the file was written to its end.
Parses(file) == file.whole /\ \A l \in file.lines : l.ok

\* Mutant: a line exactly at the cutoff goes too.
RetainedAfter(lines, cutoff) == {l \in lines : l.at > cutoff}

Retained(lines, cutoff) == {l \in lines : l.at >= cutoff}

\* Mutant: entries[0] for entries.at(-1).
FirstLine(lines) == CHOOSE l \in lines : \A k \in lines : l.n <= k.n

LastLine(lines) == CHOOSE l \in lines : \A k \in lines : k.n <= l.n

\* Mutant: a missing history is undefined, not an empty list of entries.
BaseOfMissing(file, snap) == IF file = NoFile THEN NoFile ELSE NoBase

\* What listChangedFiles is asked to compare with: the last entry, when it
\* and the snapshot both name a commit.
BaseOf(file, snap) ==
  IF file = NoFile THEN NoBase
  ELSE IF file.lines = {} \/ snap = NonGit \/ LastLine(file.lines).sha = NonGit
  THEN NoBase
  ELSE LastLine(file.lines).id

NewLine(p, n) ==
  [id |-> p, at |-> mem[p].at, n |-> n, sha |-> mem[p].snap,
   base |-> mem[p].base, ok |-> TRUE]

\* Mutant: the text read before is left out of the new one.
Overwritten(lines, nl, line) == {line}

\* `${existing}${line}\n`: without a newline at the end of the existing text
\* the new entry is glued to its last line, which no longer parses.
Appended(lines, nl, line) ==
  IF lines = {} \/ nl
  THEN lines \cup {line}
  ELSE (lines \ {LastLine(lines)}) \cup {[LastLine(lines) EXCEPT !.ok = FALSE]}

Goto(p, label) == pc' = [pc EXCEPT ![p] = label]
Set(p, m)      == mem' = [mem EXCEPT ![p] = m]

\* A rejected promise: the catch of atomicWriteFile removes its temporary file.
Fail(p) == Goto(p, "failed") /\ temp' = [temp EXCEPT ![p] = NoFile]

-----------------------------------------------------------------------------
Init ==
  /\ now = 0
  /\ git \in GitState
  /\ losses = 0
  /\ history \in InitHistories
  /\ dir \in IF history = NoFile THEN Inode \cup {NoDir} ELSE Inode
  /\ temp = [p \in Proc |-> NoFile]
  /\ version = 0
  /\ pc = [p \in Proc |-> "begin"]
  /\ mem = [p \in Proc |->
              [snap |-> NonGit, at |-> 0, cutoff |-> 0, inode |-> NoDir,
               base |-> NoBase, baseAt |-> 0, copyAt |-> 0, blind |-> FALSE,
               out |-> {}, phase |-> "retain"]]

\* Intake and diagnosis: the snapshot carries the Git identity it was taken
\* under and the report the time it was generated at.
Begin(p) ==
  /\ pc[p] = "begin"
  /\ Set(p, [mem[p] EXCEPT !.snap = git, !.at = now])
  /\ Goto(p, "check")
  /\ UNCHANGED <<now, git, dir, losses, history, temp, version>>

\* assertSnapshotPersistenceIntegrity with requireClean: false.
CheckIntegrity(p) ==
  /\ pc[p] = "check"
  /\ IF git = mem[p].snap THEN Goto(p, "resolve") /\ UNCHANGED temp ELSE Fail(p)
  /\ UNCHANGED <<now, git, dir, losses, history, version, mem>>

\* The cutoff, then resolveSafeStorageDir(..., create).
ResolveDir(p) ==
  /\ pc[p] = "resolve"
  /\ \E i \in IF dir = NoDir THEN Inode ELSE {dir} :
       /\ dir' = i
       /\ Set(p, [mem[p] EXCEPT !.cutoff = now - RetentionDays, !.inode = i])
  /\ Goto(p, "retainGuard")
  /\ UNCHANGED <<now, git, losses, history, temp, version>>

AfterGuard(p) ==
  CASE pc[p] = "retainGuard" -> "retainRead"
    [] pc[p] = "appendGuard" -> "mkdir"
    [] pc[p] = "mkdirGuard"  -> "read"
    [] pc[p] = "writeGuard"  -> "open"
    [] pc[p] = "renameGuard" -> "rename"
    [] OTHER -> IF mem[p].phase = "retain" THEN "load" ELSE "done"

\* assertSafeStorageDir, wherever it is called: the directory must still be
\* the one that was resolved.
Guard(p) ==
  /\ pc[p] \in Guards
  /\ IF dir = mem[p].inode THEN Goto(p, AfterGuard(p)) /\ UNCHANGED temp ELSE Fail(p)
  /\ UNCHANGED <<now, git, dir, losses, history, version, mem>>

\* retainTrendEntries: lines at the cutoff or after it stay; the file is
\* written again only when a line goes.
RetainRead(p) ==
  /\ pc[p] = "retainRead"
  /\ IF history = NoFile
     THEN Goto(p, "load") /\ UNCHANGED <<temp, mem>>
     ELSE LET kept == Retained(history.lines, mem[p].cutoff) IN
          \/ /\ ~Parses(history)
             /\ Fail(p)
             /\ UNCHANGED mem
          \/ /\ Parses(history) /\ kept = history.lines
             /\ Goto(p, "load")
             /\ UNCHANGED <<temp, mem>>
          \/ /\ Parses(history) /\ kept # history.lines
             /\ Set(p, [mem[p] EXCEPT !.phase = "retain", !.out = kept,
                                      !.copyAt = version])
             /\ Goto(p, "writeGuard")
             /\ UNCHANGED temp
  /\ UNCHANGED <<now, git, dir, losses, history, version>>

\* loadTrendHistory(...).at(-1) and the diff against that entry's commit.
LoadPrevious(p) ==
  /\ pc[p] = "load"
  /\ IF history # NoFile /\ ~Parses(history)
     THEN Fail(p) /\ UNCHANGED mem
     ELSE /\ Set(p, [mem[p] EXCEPT !.base = BaseOf(history, mem[p].snap),
                                   !.baseAt = version])
          /\ Goto(p, "appendGuard")
          /\ UNCHANGED temp
  /\ UNCHANGED <<now, git, dir, losses, history, version>>

\* atomicAppendLine makes the directory again when it has gone.
EnsureDir(p) ==
  /\ pc[p] = "mkdir"
  /\ dir' \in IF dir = NoDir THEN Inode ELSE {dir}
  /\ Goto(p, "mkdirGuard")
  /\ UNCHANGED <<now, git, losses, history, temp, version, mem>>

\* readFile(target).catch(() => ''): a missing file and an unreadable one are
\* both the empty text; the text is not parsed here.
ReadForAppend(p) ==
  /\ pc[p] = "read"
  /\ \E blind \in IF ReadFaults /\ history # NoFile THEN BOOLEAN ELSE {FALSE} :
       LET empty == blind \/ history = NoFile IN
       Set(p, [mem[p] EXCEPT
                 !.phase = "append", !.copyAt = version, !.blind = blind,
                 !.out = Appended(IF empty THEN {} ELSE history.lines,
                                  IF empty THEN TRUE ELSE history.nl,
                                  NewLine(p, version + 1))])
  /\ Goto(p, "writeGuard")
  /\ UNCHANGED <<now, git, dir, losses, history, temp, version>>

\* Mutant: writeFile is not awaited before the rename.
OpenTempUnawaited(p) ==
  /\ pc[p] = "open"
  /\ IF dir = NoDir
     THEN Fail(p)
     ELSE /\ temp' = [temp EXCEPT ![p] = [lines |-> {}, nl |-> TRUE, whole |-> FALSE]]
          /\ Goto(p, "renameGuard")
  /\ UNCHANGED <<now, git, dir, losses, history, version, mem>>

\* writeFile(tempPath): created empty, then filled; a directory that has gone
\* fails the open, and takes an open temporary file with it.
OpenTemp(p) ==
  /\ pc[p] = "open"
  /\ IF dir = NoDir
     THEN Fail(p)
     ELSE /\ temp' = [temp EXCEPT ![p] = [lines |-> {}, nl |-> TRUE, whole |-> FALSE]]
          /\ Goto(p, "fill")
  /\ UNCHANGED <<now, git, dir, losses, history, version, mem>>

\* Mutant: no guard between the write and the rename.
FillTempUnguarded(p) ==
  /\ pc[p] = "fill"
  /\ temp' = [temp EXCEPT ![p] =
                IF @ = NoFile THEN NoFile
                ELSE [lines |-> mem[p].out, nl |-> TRUE, whole |-> TRUE]]
  /\ Goto(p, "rename")
  /\ UNCHANGED <<now, git, dir, losses, history, version, mem>>

FillTemp(p) ==
  /\ pc[p] = "fill"
  /\ temp' = [temp EXCEPT ![p] =
                IF @ = NoFile THEN NoFile
                ELSE [lines |-> mem[p].out, nl |-> TRUE, whole |-> TRUE]]
  /\ Goto(p, "renameGuard")
  /\ UNCHANGED <<now, git, dir, losses, history, version, mem>>

RenameTemp(p) ==
  /\ pc[p] = "rename"
  /\ IF temp[p] = NoFile
     THEN Fail(p) /\ UNCHANGED <<history, version>>
     ELSE /\ history' = temp[p]
          /\ version' = version + 1
          /\ temp' = [temp EXCEPT ![p] = NoFile]
          /\ Goto(p, "afterGuard")
  /\ UNCHANGED <<now, git, dir, losses, mem>>

\* Any other awaited call that rejects (an unreadable policy, no space left).
Throw(p) ==
  /\ pc[p] \in Steps \ {"afterGuard"}
  /\ Fail(p)
  /\ UNCHANGED <<now, git, dir, losses, history, version, mem>>

\* The process is killed; its temporary file stays.
Crash(p) ==
  /\ pc[p] \in Steps
  /\ Goto(p, "crashed")
  /\ UNCHANGED <<now, git, dir, losses, history, temp, version, mem>>

-----------------------------------------------------------------------------
Tick ==
  /\ now < MaxTime
  /\ now' = now + 1
  /\ UNCHANGED <<git, dir, losses, history, temp, version, pc, mem>>

GitChange ==
  /\ git' \in GitState \ {git}
  /\ UNCHANGED <<now, dir, losses, history, temp, version, pc, mem>>

LoseDirectory ==
  /\ dir # NoDir /\ losses < MaxLosses
  /\ dir' = NoDir
  /\ losses' = losses + 1
  /\ history' = NoFile
  /\ temp' = [p \in Proc |-> NoFile]
  /\ version' = version + 1
  /\ UNCHANGED <<now, git, pc, mem>>

Step(p) ==
  \/ Begin(p) \/ CheckIntegrity(p) \/ ResolveDir(p) \/ Guard(p)
  \/ RetainRead(p) \/ LoadPrevious(p) \/ EnsureDir(p) \/ ReadForAppend(p)
  \/ OpenTemp(p) \/ FillTemp(p) \/ RenameTemp(p)

Next ==
  \/ \E p \in Proc : Step(p) \/ Throw(p) \/ Crash(p)
  \/ Tick \/ GitChange \/ LoseDirectory

Spec == Init /\ [][Next]_vars

-----------------------------------------------------------------------------
\* A process between a read it will write back and the rename of the result.
Writing(p) == pc[p] \in {"writeGuard", "open", "fill", "renameGuard", "rename"}

\* p's copy of the file is what the file still holds.
CopyCurrent(p) == mem[p].copyAt = version /\ ~mem[p].blind

LinesOf(file) == IF file = NoFile THEN {} ELSE file.lines

EndsInNewline(file) == IF file = NoFile THEN TRUE ELSE file.nl

(***************************************************************************)
(* The file a reader or a later scan finds is never a partly written one,  *)
(* whenever processes die, run out of space or lose their directory        *)
(* (shared/atomic-write.ts: temporary file, then rename).                  *)
(***************************************************************************)
HistoryNeverTorn == history # NoFile => history.whole

(***************************************************************************)
(* A rename puts the file only into the directory that the process         *)
(* resolved and validated, never into one made in its place: the guard     *)
(* before the rename and the temporary file, which lives and dies with its *)
(* directory, rule it out together.                                        *)
(***************************************************************************)
RenameIntoValidatedDir ==
  [][\A p \in Proc : pc[p] = "rename" /\ pc'[p] = "afterGuard" => dir = mem[p].inode]_vars

(***************************************************************************)
(* The two read-modify-write windows (retention, append) lose nothing      *)
(* unless they overlap another write: a rename by a process whose copy is  *)
(* current is one step of a log - it drops exactly the expired lines, or   *)
(* adds exactly the new one, to what the file holds at that moment.        *)
(***************************************************************************)
CurrentCopyIsLogStep ==
  [][\A p \in Proc :
       pc[p] = "rename" /\ pc'[p] = "afterGuard" /\ CopyCurrent(p) =>
         /\ mem[p].phase = "retain" =>
              history'.lines = {l \in LinesOf(history) : l.at >= mem[p].cutoff}
         /\ mem[p].phase = "append" /\ EndsInNewline(history) =>
              history'.lines = LinesOf(history) \cup {NewLine(p, version + 1)}]_vars

\* The base that p recorded is the commit of the last entry of the file, if
\* there is one and both sides name a commit.
ComparedWithLast(p) ==
  IF LinesOf(history) = {}
  THEN mem[p].base = NoBase
  ELSE \E l \in LinesOf(history) :
         /\ \A k \in LinesOf(history) : k.n <= l.n
         /\ mem[p].base = IF NonGit \in {l.sha, mem[p].snap} THEN NoBase ELSE l.id

(***************************************************************************)
(* The changed files of an entry are those since the entry before it in    *)
(* the file, provided nobody replaced the file since that entry was read.  *)
(***************************************************************************)
BaseIsPredecessor ==
  [][\A p \in Proc :
       /\ pc[p] = "rename" /\ pc'[p] = "afterGuard" /\ mem[p].phase = "append"
       /\ mem[p].baseAt = version /\ ~mem[p].blind
       => ComparedWithLast(p)]_vars
=============================================================================
