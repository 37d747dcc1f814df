-------------------------------- MODULE Intake --------------------------------
(***************************************************************************)
(* createRepositorySnapshot: the configuration is read, Git inspected, the *)
(* roots of the unit walked file by file, Git inspected again and the two  *)
(* inspections compared.  An inspection is three commands, and a walk one  *)
(* read per entry; the working tree may change between any two of them.    *)
(* A path is a number, in the order in which a walk of the whole tree      *)
(* meets it (the names of a directory sorted by localeCompare); contents   *)
(* are a version.                                                          *)
(***************************************************************************)
EXTENDS Naturals, Sequences, SequencesExt, FiniteSetsExt

CONSTANTS
  Process,     \* commands under way
  Dir, File,   \* directories and files of the repository
  Children,    \* the entries of each directory
  Unit,        \* the roots of each unit that a --unit may name
  Source,      \* regular files with a registered extension, not excluded
  Config,      \* r3-doctor.config.json
  Ignored,     \* files that .gitignore names
  Version,     \* contents of a source file
  MaxFiles,    \* config.maxFiles
  MaxEntries,  \* REPOSITORY_WALK_MAX_ENTRIES
  NoFile, NoGit

\* What an inspection of Git finds.
Inspected == [head : Nat, status : SUBSET (File \X {"??", "D", "M"}), dirty : BOOLEAN]

ASSUME IntakeAssumption ==
  /\ Dir \cup File \subseteq Nat /\ Dir \cap File = {} /\ IsFiniteSet(Dir \cup File)
  /\ Children \in [Dir -> SUBSET (Dir \cup File)]
  /\ \A u \in DOMAIN Unit : Unit[u] \in Seq(Range(Unit[u]))
  /\ Source \subseteq File /\ Ignored \subseteq File /\ Config \in File
  /\ MaxFiles \in Nat /\ MaxEntries \in Nat /\ NoGit \notin Inspected

Content == Version \cup {NoFile, "custom", "broken", "proposed"}

VARIABLES
  tree,      \* the working tree
  commits,   \* the trees of the commits up to HEAD
  resynced,  \* files that differed from HEAD and then did no longer (history)
  budget,    \* how many changes by others remain
  intake     \* the locals of createRepositoryIntake of each command

repository == <<tree, commits, resynced, budget>>

Idle == [pc |-> "idle", unit |-> "", cfg |-> NoFile, roots |-> <<>>,
         agenda |-> {}, got |-> <<>>, visited |-> 0, issues |-> {},
         truncated |-> FALSE, before |-> NoGit, now |-> NoGit]

HeadTree == Last(commits)

\* What `git status` and `git ls-files --cached` print.
Status ==
  {<<f, CASE HeadTree[f] = NoFile -> "??" [] tree[f] = NoFile -> "D" [] OTHER -> "M">> :
     f \in {g \in File \ Ignored : tree[g] # HeadTree[g]}}
Tracked == {f \in File : HeadTree[f] # NoFile}

-----------------------------------------------------------------------------
(* The repository: an editor writes or restores a file, someone commits.   *)

Replace(f, content) ==
  /\ tree' = [tree EXCEPT ![f] = content]
  /\ resynced' = IF tree[f] # HeadTree[f] /\ content = HeadTree[f]
                 THEN resynced \cup {f} ELSE resynced

Edit ==
  /\ budget > 0 /\ budget' = budget - 1
  /\ \E f \in Source, v \in Version \cup {NoFile} : v # tree[f] /\ Replace(f, v)
  /\ UNCHANGED <<commits, intake>>

Committed == [f \in File |-> IF f \in Ignored THEN HeadTree[f] ELSE tree[f]]

Commit ==
  /\ budget > 0 /\ budget' = budget - 1
  /\ commits' = Append(commits, Committed)
  /\ resynced' = resynced \cup {f \in File : tree[f] # HeadTree[f] /\ f \notin Ignored}
  /\ UNCHANGED <<tree, intake>>

-----------------------------------------------------------------------------
(* The operations of an intake.                                            *)

Become(p, state) == intake' = [intake EXCEPT ![p] = state]
Fail(p) == Become(p, [intake[p] EXCEPT !.pc = "failed"])

\* The directory exists and the configuration parses; the unit is one of it.
Open(p, unit) ==
  IF tree[Config] = "broken" \/ unit \notin DOMAIN Unit
  THEN Fail(p)
  ELSE Become(p, [Idle EXCEPT !.pc = "head", !.unit = unit, !.roots = Unit[unit],
                              !.cfg = tree[Config]])

\* One of the faults that others may cause.
Fault == budget > 0 /\ budget' = budget - 1 /\ UNCHANGED <<tree, commits, resynced>>

\* A command of an inspection fails, or the directory is not the top level.
Uninspected(p) ==
  LET i == intake[p] IN
  /\ Fault
  /\ \/ /\ i.pc \in {"head", "status"}
        /\ Become(p, [i EXCEPT !.pc = "walk", !.before = NoGit])
     \/ /\ i.pc \in {"headAgain", "statusAgain", "tracked"}
        /\ Become(p, [i EXCEPT !.pc = "compare", !.now = NoGit])

ReadHead(p) ==
  LET i == intake[p]
      seen == [head |-> Len(commits), status |-> {}, dirty |-> FALSE]
  IN \/ i.pc = "head" /\ Become(p, [i EXCEPT !.pc = "status", !.before = seen])
     \/ i.pc = "headAgain" /\ Become(p, [i EXCEPT !.pc = "statusAgain", !.now = seen])

ReadStatus(p) ==
  LET i == intake[p]
  IN \/ i.pc = "status" /\ Become(p, [i EXCEPT !.pc = "walk", !.before.status = Status])
     \/ i.pc = "statusAgain" /\ Become(p, [i EXCEPT !.pc = "tracked", !.now.status = Status])

\* [...new Map(files...)]: of a file met twice the later reading stays.
Got(i) == {i.got[k].file : k \in DOMAIN i.got}
ContentOf(i, f) == i.got[CHOOSE k \in DOMAIN i.got :
                   /\ i.got[k].file = f
                   /\ \A l \in DOMAIN i.got : i.got[l].file = f => l <= k].content

ReadTracked(p) ==
  LET i == intake[p] IN
  /\ i.pc = "tracked"
  /\ Become(p, [i EXCEPT !.pc = "compare",
                         !.now.dirty = i.now.status # {} \/ ~ Got(i) \subseteq Tracked])

-----------------------------------------------------------------------------
(* walkFiles.  The agenda is what the calls on the stack have listed and   *)
(* not yet taken; the first of it in the order of paths comes next.        *)

\* As if the limit were looked at only once it is passed (for a mutation).
FullLate(i) == Len(i.got) > MaxFiles

Full(i) == Len(i.got) >= MaxFiles

Exists(e) == e \in Dir \/ tree[e] # NoFile
Listing(d) == {e \in Children[d] : Exists(e)}

WalkRoot(p) ==
  LET i == intake[p] IN
  /\ i.pc = "walk" /\ i.agenda = {} /\ i.roots # <<>>
  /\ IF Full(i) THEN Become(p, [i EXCEPT !.roots = Tail(@), !.truncated = TRUE])
     ELSE IF Head(i.roots) \notin Dir THEN Fail(p)
     ELSE Become(p, [i EXCEPT !.roots = Tail(@), !.agenda = Listing(Head(i.roots))])

\* The entry the loop takes, and the walk after it was taken.
Entry(p) == CHOOSE e \in intake[p].agenda : \A other \in intake[p].agenda : e <= other
Passed(p) == [intake[p] EXCEPT !.agenda = @ \ {Entry(p)}, !.visited = @ + 1]

Visit(p, kind, after) ==
  LET i == intake[p] IN
  /\ i.pc = "walk" /\ i.agenda # {} /\ ~Full(i)
  /\ Entry(p) \in kind
  /\ IF i.visited = MaxEntries THEN Fail(p) ELSE Become(p, after)

Truncate(p) ==
  LET i == intake[p] IN
  /\ i.pc = "walk" /\ i.agenda # {} /\ Full(i)
  /\ Become(p, [i EXCEPT !.agenda = {}, !.truncated = TRUE])

EnterDir(p) ==
  Visit(p, Dir, [Passed(p) EXCEPT !.agenda = @ \cup Listing(Entry(p))])

\* Excluded, a symbolic link, or of another extension.
SkipEntry(p) == Visit(p, File \ Source, Passed(p))

\* lstat and readFile; a file that has gone since it was listed rejects.
ReadSource(p) ==
  Visit(p, Source,
        IF tree[Entry(p)] = NoFile THEN [intake[p] EXCEPT !.pc = "failed"]
        ELSE [Passed(p) EXCEPT !.got =
                Append(@, [file |-> Entry(p), content |-> tree[Entry(p)]])])

\* readFile fails, be it that the file went away after its lstat.
ReadFails(p) ==
  /\ Fault
  /\ Visit(p, Source, [Passed(p) EXCEPT !.issues = @ \cup {Entry(p)}])

\* readdir of a root or a directory, or an lstat, rejects.
WalkFails(p) ==
  LET i == intake[p] IN
  /\ Fault
  /\ i.pc = "walk" /\ (i.agenda # {} \/ i.roots # <<>>) /\ ~Full(i)
  /\ Fail(p)

WalkDone(p) ==
  LET i == intake[p] IN
  /\ i.pc = "walk" /\ i.agenda = {} /\ i.roots = <<>>
  /\ Become(p, [i EXCEPT !.pc = "headAgain"])

\* As if only the commits were compared (for a mutation).
SameHead(a, b) == (a = NoGit) = (b = NoGit) /\ (a # NoGit => a.head = b.head)

\* What must be equal in the two inspections.
SameGit(a, b) ==
  (a = NoGit) = (b = NoGit) /\ (a # NoGit => a.head = b.head /\ a.status = b.status)

CompareGit(p) ==
  LET i == intake[p] IN
  /\ i.pc = "compare"
  /\ IF SameGit(i.before, i.now) THEN Become(p, [i EXCEPT !.pc = "done"]) ELSE Fail(p)

IntakeStep(p) ==
  \/ Uninspected(p) \/ ReadFails(p) \/ WalkFails(p)
  \/ /\ \/ ReadHead(p) \/ ReadStatus(p) \/ ReadTracked(p)
        \/ WalkRoot(p) \/ EnterDir(p) \/ SkipEntry(p) \/ ReadSource(p)
        \/ Truncate(p) \/ WalkDone(p) \/ CompareGit(p)
     /\ UNCHANGED repository

\* No tracked file is ignored.
InitIntake ==
  /\ tree \in [File -> Content] /\ commits \in Seq([File -> Content]) /\ commits # <<>>
  /\ \A k \in DOMAIN commits, f \in Ignored : commits[k][f] = NoFile
  /\ resynced = {} /\ budget \in Nat
  /\ intake = [p \in Process |-> Idle]

-----------------------------------------------------------------------------
Clean(i) == i.now # NoGit /\ ~i.now.dirty

(***************************************************************************)
(* What a clean snapshot promises: the contents analysed are those of the  *)
(* commit it names, except of a file that left the commit after the first  *)
(* inspection and was brought back, or committed, before the second ended. *)
(* Baselines, trend and samples rest on it: they store the commit.         *)
(***************************************************************************)
CleanSnapshotIsCommit ==
  \A p \in Process : LET i == intake[p] IN
    i.pc = "done" /\ Clean(i) =>
      \A f \in Got(i) :
        \/ ContentOf(i, f) = commits[i.now.head][f]
        \/ f \in resynced /\ \A line \in i.before.status : line[1] # f

\* Directories with all that lies below them.
Closed(paths) == \A d \in paths \cap Dir : Children[d] \subseteq paths

\* The sources that are or lie below a path.
Below == [e \in Dir \cup File |->
            {f \in Source : \A paths \in SUBSET (Dir \cup File) :
                              e \in paths /\ Closed(paths) => f \in paths}]

\* The sources that are at the same time in the working tree and in HEAD.
Steady(roots) ==
  {f \in Tracked : /\ \E d \in Range(roots) \cap Dir : f \in Below[d]
                   /\ tree[f] = HeadTree[f] /\ f \notin resynced}

(***************************************************************************)
(* A snapshot that does not say it is truncated holds every source below   *)
(* its roots that was there all along, or names it as unreadable; one that *)
(* does say so holds maxFiles readings, and never more.                    *)
(***************************************************************************)
SnapshotIsComplete ==
  \A p \in Process : LET i == intake[p] IN
    /\ Len(i.got) <= MaxFiles
    /\ i.pc \in {"headAgain", "statusAgain", "tracked", "compare", "done"} =>
         IF i.truncated THEN Len(i.got) = MaxFiles
         ELSE Steady(Unit[i.unit]) \subseteq Got(i) \cup i.issues
=============================================================================
