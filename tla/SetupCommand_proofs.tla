------------------------- MODULE SetupCommand_proofs -------------------------
(***************************************************************************)
(* Theorems about scans and setups on one working tree, for any number of  *)
(* commands, any repository, options, answers and profiles.                *)
(***************************************************************************)
EXTENDS SetupCommand, SumLemmas, WellFoundedInduction

-----------------------------------------------------------------------------
(* The intakes.                                                            *)

Path == Dir \cup File
Root == UNION {Range(Unit[u]) : u \in DOMAIN Unit}
Reading == [file : Source, content : Content]
Walked == {"headAgain", "statusAgain", "tracked", "compare", "done"}
Steps == {"idle", "head", "status", "walk", "failed"} \cup Walked

State ==
  [pc : Steps, unit : DOMAIN Unit \cup {""}, cfg : Content, roots : Seq(Root),
   agenda : SUBSET Path, got : Seq(Reading), visited : Nat, issues : SUBSET Source,
   truncated : BOOLEAN, before : Inspected \cup {NoGit}, now : Inspected \cup {NoGit}]

\* What holds of the locals of an intake by themselves.
Local(i) ==
  /\ i \in State
  /\ i.pc \in Steps \ {"idle", "failed"} => i.unit \in DOMAIN Unit
  /\ i.pc \in {"head", "status"} => i.got = <<>>
  /\ i.pc = "status" => i.before \in Inspected
  /\ i.pc \in {"statusAgain", "tracked"} => i.now \in Inspected
  /\ i.pc = "done" => SameGit(i.before, i.now)

RepositoryOK ==
  /\ tree \in [File -> Content] /\ commits \in Seq([File -> Content]) /\ commits # <<>>
  /\ \A k \in DOMAIN commits, f \in Ignored : commits[k][f] = NoFile
  /\ resynced \subseteq File

\* The reading is of the commit, or its file left the commit and came back.
Explained(i, k) ==
  \/ i.got[k].content = commits[i.before.head][i.got[k].file]
  \/ i.got[k].file \in resynced

Differs(f) == tree[f] # HeadTree[f]

\* The second inspection found the commit of the first.
SameCommit(i) == i.before # NoGit /\ i.now # NoGit /\ i.now.head = i.before.head

\* What is known of each reading grows with each command of the second
\* inspection: HEAD has not moved, nothing differs, no file is ignored.
CleanOK(i) ==
  /\ i.before # NoGit => i.before.head \in DOMAIN commits
  /\ \A k \in DOMAIN i.got :
       /\ i.pc \in {"walk", "headAgain"} /\ i.before # NoGit =>
            Explained(i, k) \/ Differs(i.got[k].file) \/ i.before.head < Len(commits)
       /\ i.pc \in {"statusAgain", "tracked", "compare", "done"} /\ SameCommit(i) =>
            Explained(i, k) \/ Differs(i.got[k].file)
       /\ i.pc \in {"tracked", "compare", "done"} /\ SameCommit(i) /\ i.now.status = {} =>
            Explained(i, k) \/ i.got[k].file \in Ignored
       /\ i.pc \in {"compare", "done"} /\ i.now # NoGit /\ ~i.now.dirty =>
            i.now.status = {} /\ i.got[k].file \notin Ignored

\* What the walk still has to look at.
Ahead(i) == UNION {Below[e] : e \in i.agenda \cup (Range(i.roots) \cap Dir)}

WholeOK(i) ==
  /\ Len(i.got) <= MaxFiles
  /\ i.truncated => Len(i.got) = MaxFiles
  /\ i.pc \in {"head", "status", "walk"} \cup Walked /\ ~i.truncated =>
       Steady(Unit[i.unit]) \subseteq Got(i) \cup i.issues \cup Ahead(i)
  /\ i.pc \in Walked => i.agenda = {} /\ i.roots = <<>>

IntakeInv ==
  /\ RepositoryOK /\ intake \in [Process -> State]
  /\ \A p \in Process : Local(intake[p]) /\ CleanOK(intake[p]) /\ WholeOK(intake[p])

-----------------------------------------------------------------------------
(***************************************************************************)
(* A function of finitely many arguments has a least value.                *)
(***************************************************************************)
LEMMA LeastValue ==
  ASSUME NEW S, IsFiniteSet(S), S # {}, NEW f \in [S -> Int]
  PROVE  \E m \in S : \A k \in S : f[m] <= f[k]
<1> DEFINE Under(l) == {k \in S : f[k] < f[l]}
           D == {Under(l) : l \in S}
           R == StrictSubsetOrdering(S)
<1>1. IsWellFoundedOn(R, FiniteSubsetsOf(S))
  BY FS_StrictSubsetOrderingWellFounded
<1>2. D \subseteq FiniteSubsetsOf(S) /\ D # {}
  <2>1. \A l \in S : Under(l) \in SUBSET S /\ IsFiniteSet(Under(l))
    BY FS_Subset
  <2>2. \A e \in D : e \in SUBSET S /\ IsFiniteSet(e)
    BY <2>1
  <2>3. D # {}
    <3>1. PICK l \in S : TRUE
      OBVIOUS
    <3>2. Under(l) \in D
      OBVIOUS
    <3> QED BY <3>2
  <2> HIDE DEF D
  <2> QED BY <2>2, <2>3 DEF FiniteSubsetsOf
<1>3. PICK d \in D : \A e \in D : <<e, d>> \notin R
  BY <1>1, <1>2, WFMin
<1>4. PICK l \in S : d = Under(l)
  OBVIOUS
<1>5. \A k \in S : f[l] <= f[k]
  <2> SUFFICES ASSUME NEW k \in S, ~(f[l] <= f[k])
               PROVE  FALSE
    OBVIOUS
  <2>1. f[k] \in Int /\ f[l] \in Int /\ \A j \in S : f[j] \in Int
    OBVIOUS
  <2>2. Under(k) \subseteq Under(l) /\ k \in Under(l) /\ k \notin Under(k)
    BY <2>1
  <2>3. <<Under(k), Under(l)>> \in R
    BY <2>2 DEF StrictSubsetOrdering
  <2> QED BY <2>3, <1>3, <1>4
<1> QED BY <1>5

(***************************************************************************)
(* A walk with an entry left takes one of them.                            *)
(***************************************************************************)
LEMMA EntryInAgenda ==
  ASSUME NEW p \in Process, intake[p].agenda \subseteq Path, intake[p].agenda # {}
  PROVE  Entry(p) \in intake[p].agenda
<1> DEFINE S == intake[p].agenda
           f == [e \in S |-> e]
<1>1. IsFiniteSet(S) /\ S \subseteq Int
  BY IntakeAssumption, FS_Subset DEF Path
<1>2. \E m \in S : \A k \in S : f[m] <= f[k]
  <2>1. f \in [S -> Int]
    BY <1>1
  <2> HIDE DEF f
  <2> QED BY <1>1, <2>1, LeastValue
<1>3. \E m \in S : \A k \in S : m <= k
  BY <1>2
<1> QED BY <1>3 DEF Entry

(***************************************************************************)
(* What a snapshot holds of a file that was read is one of its readings.   *)
(***************************************************************************)
LEMMA ContentIsRead ==
  ASSUME NEW i \in State, NEW f \in Got(i)
  PROVE  \E k \in DOMAIN i.got : i.got[k].file = f /\ ContentOf(i, f) = i.got[k].content
<1> DEFINE S == {k \in DOMAIN i.got : i.got[k].file = f}
           g == [k \in S |-> -k]
<1>1. IsFiniteSet(S) /\ S \subseteq Nat /\ S # {}
  <2>0. i.got \in Seq(Reading)
    BY DEF State
  <2>1. DOMAIN i.got = 1 .. Len(i.got) /\ Len(i.got) \in Nat
    BY <2>0
  <2>2. IsFiniteSet(1 .. Len(i.got))
    BY <2>1, FS_Interval
  <2> QED BY <2>1, <2>2, FS_Subset DEF Got
<1>2. \E m \in S : \A k \in S : g[m] <= g[k]
  <2>1. g \in [S -> Int]
    BY <1>1
  <2> HIDE DEF g
  <2> QED BY <1>1, <2>1, LeastValue
<1>3. \E m \in S : \A k \in S : k <= m
  <2>1. PICK m \in S : \A k \in S : g[m] <= g[k]
    BY <1>2
  <2>2. \A k \in S : g[k] = -k /\ k \in Nat
    BY <1>1
  <2> HIDE DEF S, g
  <2>3. \A k \in S : k <= m
    BY <2>1, <2>2
  <2> QED BY <2>3
<1> QED BY <1>3 DEF ContentOf

-----------------------------------------------------------------------------
(***************************************************************************)
(* What lies below a directory lies below one of its entries; below a file *)
(* there is the file.                                                      *)
(***************************************************************************)
LEMMA BelowUnfolds ==
  /\ \A d \in Dir : Below[d] \subseteq UNION {Below[e] : e \in Children[d]}
  /\ \A e \in File : Below[e] \subseteq {e} \cap Source
<1>1. ASSUME NEW d \in Dir, NEW f \in Below[d]
      PROVE  \E e \in Children[d] : f \in Below[e]
  <2> DEFINE Reach(e) == {x \in Path : \A paths \in SUBSET Path :
                            e \in paths /\ Closed(paths) => x \in paths}
             S == {d} \cup UNION {Reach(e) : e \in Children[d]}
  <2>1. Children[d] \subseteq Path /\ d \in Path
    BY IntakeAssumption DEF Path
  <2>2. S \in SUBSET Path /\ d \in S
    BY <2>1
  <2>3. Closed(S)
    <3> SUFFICES ASSUME NEW x \in S \cap Dir, NEW y \in Children[x]
                 PROVE  y \in S
      BY DEF Closed
    <3>1. y \in Path
      BY IntakeAssumption DEF Path
    <3>2. CASE x = d
      BY <3>1, <3>2
    <3>3. CASE x # d
      <4>1. PICK e \in Children[d] : x \in Reach(e)
        BY <3>3
      <4>2. y \in Reach(e)
        BY <3>1, <4>1 DEF Closed
      <4> QED BY <4>2
    <3> QED BY <3>2, <3>3
  <2>4. f \in Source /\ f \in S
    BY <2>1, <2>2, <2>3 DEF Below, Path
  <2>5. f # d
    BY <2>4, IntakeAssumption
  <2>6. PICK e \in Children[d] : f \in Reach(e)
    BY <2>4, <2>5
  <2>7. f \in Below[e]
    BY <2>1, <2>4, <2>6 DEF Below, Path
  <2> QED BY <2>7
<1>2. ASSUME NEW e \in File, NEW f \in Below[e]
      PROVE  f \in {e} \cap Source
  <2>1. {e} \in SUBSET (Dir \cup File) /\ Closed({e})
    BY IntakeAssumption DEF Closed
  <2> QED BY <2>1 DEF Below
<1> QED BY <1>1, <1>2

-----------------------------------------------------------------------------
(* What others do to the repository.                                       *)

Progress ==
  /\ Len(commits) <= Len(commits') /\ \A k \in DOMAIN commits : commits'[k] = commits[k]
  /\ resynced \subseteq resynced'
  /\ \A f \in File :
       /\ Differs(f) => Differs(f)' \/ f \in resynced'
       /\ ~Differs(f) /\ ~Differs(f)' => tree'[f] = tree[f]

Moves == \/ \E f \in File, c \in Content : Replace(f, c) /\ UNCHANGED commits
         \/ Commit
         \/ UNCHANGED <<tree, commits, resynced>>

(***************************************************************************)
(* Commits are only added, and a file that differs from HEAD stays so or   *)
(* is remembered.                                                          *)
(***************************************************************************)
LEMMA RepositoryMoves ==
  ASSUME RepositoryOK, Moves
  PROVE  RepositoryOK' /\ Progress
<1> USE DEF RepositoryOK, Progress, Differs, HeadTree, Last
<1>1. ASSUME NEW f \in File, NEW c \in Content, Replace(f, c), UNCHANGED commits
      PROVE  RepositoryOK' /\ Progress
  BY <1>1 DEF Replace
<1>2. CASE Commit
  <2>1. Committed \in [File -> Content] /\ \A f \in Ignored : Committed[f] = NoFile
    BY IntakeAssumption DEF Committed
  <2>2. /\ commits' = Append(commits, Committed) /\ tree' = tree
        /\ resynced' = resynced \cup {f \in File : tree[f] # HeadTree[f] /\ f \notin Ignored}
    BY <1>2 DEF Commit
  <2>3. /\ Len(commits') = Len(commits) + 1 /\ commits'[Len(commits')] = Committed
        /\ \A k \in DOMAIN commits : commits'[k] = commits[k]
        /\ DOMAIN commits' = DOMAIN commits \cup {Len(commits')}
        /\ commits' \in Seq([File -> Content]) /\ commits' # <<>>
    BY <2>1, <2>2
  <2>4. RepositoryOK'
    BY <2>1, <2>2, <2>3
  <2>5. \A f \in File : Committed[f] = IF f \in Ignored THEN HeadTree[f] ELSE tree[f]
    BY DEF Committed
  <2>6. Progress
    BY <2>2, <2>3, <2>5
  <2> QED BY <2>4, <2>6
<1>3. CASE UNCHANGED <<tree, commits, resynced>>
  BY <1>3
<1> QED BY <1>1, <1>2, <1>3 DEF Moves

(***************************************************************************)
(* A file can leave the steady ones but never join them.                   *)
(***************************************************************************)
LEMMA SteadyShrinks ==
  ASSUME Progress, NEW roots
  PROVE  Steady(roots)' \subseteq Steady(roots)
<1> DEFINE Under(f) == \E d \in Range(roots) \cap Dir : f \in Below[d]
<1>1. /\ Steady(roots) = {f \in Tracked : Under(f) /\ tree[f] = HeadTree[f] /\ f \notin resynced}
      /\ Steady(roots)' = {f \in Tracked' : Under(f) /\ tree'[f] = HeadTree'[f] /\ f \notin resynced'}
  BY DEF Steady
<1> HIDE DEF Under
<1>2. /\ Tracked = {f \in File : HeadTree[f] # NoFile}
      /\ Tracked' = {f \in File : HeadTree'[f] # NoFile}
  BY DEF Tracked
<1>3. ASSUME NEW f \in File, tree'[f] = HeadTree'[f], f \notin resynced'
      PROVE  tree[f] = HeadTree[f] /\ HeadTree[f] = HeadTree'[f] /\ f \notin resynced
  BY <1>3 DEF Progress, Differs
<1> QED BY <1>1, <1>2, <1>3

(***************************************************************************)
(* No change by others breaks what is known of an intake.                  *)
(***************************************************************************)
LEMMA OthersMove ==
  ASSUME IntakeInv, Moves, UNCHANGED intake
  PROVE  IntakeInv'
<1>1. RepositoryOK' /\ Progress
  BY RepositoryMoves DEF IntakeInv
<1>2. ASSUME NEW p \in Process
      PROVE  CleanOK(intake[p])'
  <2>1. CleanOK(intake[p]) /\ Local(intake[p])
    BY DEF IntakeInv
  <2>2. /\ Len(commits) <= Len(commits') /\ Len(commits) \in Nat /\ Len(commits') \in Nat
        /\ DOMAIN commits \subseteq DOMAIN commits'
        /\ \A k \in DOMAIN commits : commits'[k] = commits[k] /\ k \in Nat
        /\ intake'[p] = intake[p]
    BY <1>1 DEF IntakeInv, RepositoryOK, Progress
  <2>3. \A k \in DOMAIN intake[p].got : intake[p].got[k].file \in File
    <3>1. intake[p].got \in Seq(Reading)
      BY <2>1 DEF Local, State
    <3>2. \A k \in DOMAIN intake[p].got : intake[p].got[k] \in Reading
      BY <3>1
    <3> QED BY <3>2, IntakeAssumption DEF Reading
  <2>4. intake[p].before # NoGit =>
          /\ intake[p].before.head \in DOMAIN commits
          /\ commits'[intake[p].before.head] = commits[intake[p].before.head]
    BY <2>1, <2>2 DEF CleanOK
  <2>5. ASSUME NEW k \in DOMAIN intake[p].got, intake[p].before # NoGit
        PROVE  /\ Explained(intake[p], k) => Explained(intake[p], k)'
               /\ Differs(intake[p].got[k].file) =>
                     Differs(intake[p].got[k].file)' \/ Explained(intake[p], k)'
    <3>1. Explained(intake[p], k) => Explained(intake[p], k)'
      BY <1>1, <2>2, <2>4, <2>5 DEF Explained, Progress
    <3>2. Differs(intake[p].got[k].file) =>
             Differs(intake[p].got[k].file)' \/ intake[p].got[k].file \in resynced'
      BY <1>1, <2>2, <2>3 DEF Progress, Differs
    <3> QED BY <2>2, <3>1, <3>2 DEF Explained
  <2>6. ASSUME NEW k \in DOMAIN intake[p].got
        PROVE  CleanOK(intake[p])!2!(k)'
    BY <2>1, <2>2, <2>4, <2>5, <2>6 DEF CleanOK, SameCommit
  <2> QED BY <2>2, <2>4, <2>6 DEF CleanOK
<1>3. ASSUME NEW p \in Process
      PROVE  WholeOK(intake[p])'
  <2>1. Steady(Unit[intake[p].unit])' \subseteq Steady(Unit[intake[p].unit])
    BY <1>1, SteadyShrinks
  <2>2. WholeOK(intake[p])
    BY DEF IntakeInv
  <2> QED BY <2>1, <2>2 DEF WholeOK, Got, Ahead
<1>4. ASSUME NEW p \in Process
      PROVE  Local(intake[p])'
  BY DEF IntakeInv, Local
<1> QED BY <1>1, <1>2, <1>3, <1>4 DEF IntakeInv

(***************************************************************************)
(* A step of an intake: only the invariant of its new locals is to be      *)
(* shown, before anything else moves.                                      *)
(***************************************************************************)
LEMMA OwnStep ==
  ASSUME IntakeInv, UNCHANGED <<tree, commits, resynced>>, NEW p \in Process, NEW j,
         Become(p, j), Local(j), CleanOK(j), WholeOK(j)
  PROVE  IntakeInv'
<1>1. intake' \in [Process -> State]
  BY DEF IntakeInv, Become, Local
<1>2. ASSUME NEW q \in Process
      PROVE  Local(intake'[q]) /\ CleanOK(intake'[q]) /\ WholeOK(intake'[q])
  BY DEF IntakeInv, Become
<1>3. \A q \in Process : Local(intake[q])'
  BY <1>2 DEF Local
<1>4. ASSUME NEW q \in Process
      PROVE  CleanOK(intake[q])'
  BY <1>2 DEF CleanOK, Explained, Differs, HeadTree
<1>5. ASSUME NEW q \in Process
      PROVE  WholeOK(intake[q])'
  <2>1. \A roots : Steady(roots)' = Steady(roots)
    BY DEF Steady, Tracked, HeadTree
  <2> QED BY <1>2, <2>1 DEF WholeOK, Got, Ahead
<1>6. RepositoryOK'
  BY DEF IntakeInv, RepositoryOK
<1> QED BY <1>1, <1>3, <1>4, <1>5, <1>6 DEF IntakeInv

-----------------------------------------------------------------------------
(* The steps of an intake, one by one.                                     *)

(***************************************************************************)
(* The facts about one intake that its steps start from.                   *)
(***************************************************************************)
LEMMA Facts ==
  ASSUME IntakeInv, NEW p \in Process
  PROVE  LET i == intake[p] IN
         /\ i \in State /\ Local(i) /\ CleanOK(i) /\ WholeOK(i)
         /\ i.got \in Seq(Reading) /\ i.roots \in Seq(Root) /\ i.agenda \subseteq Path
         /\ i.visited \in Nat /\ i.issues \subseteq Source /\ i.truncated \in BOOLEAN
         /\ {i.before, i.now} \subseteq Inspected \cup {NoGit}
         /\ commits \in Seq([File -> Content]) /\ Len(commits) \in Nat \ {0}
         /\ DOMAIN commits = 1 .. Len(commits) /\ HeadTree = commits[Len(commits)]
<1>1. /\ intake[p] \in State /\ Local(intake[p]) /\ CleanOK(intake[p]) /\ WholeOK(intake[p])
  BY DEF IntakeInv
<1>2. commits \in Seq([File -> Content]) /\ commits # <<>>
  BY DEF IntakeInv, RepositoryOK
<1>3. /\ Len(commits) \in Nat \ {0} /\ DOMAIN commits = 1 .. Len(commits)
      /\ HeadTree = commits[Len(commits)]
  BY <1>2 DEF HeadTree, Last
<1> QED BY <1>1, <1>2, <1>3 DEF State

(***************************************************************************)
(* An intake that fails promises nothing any more.                         *)
(***************************************************************************)
LEMMA FailKeeps ==
  ASSUME IntakeInv, UNCHANGED <<tree, commits, resynced>>, NEW p \in Process, NEW j,
         \/ j = [intake[p] EXCEPT !.pc = "failed"]
         \/ \E r \in Seq(Root) : j = [intake[p] EXCEPT !.pc = "failed", !.roots = r],
         Become(p, j)
  PROVE  IntakeInv'
<1> USE Facts
<1>1. j \in State /\ j.pc = "failed" /\ j.got = intake[p].got
      /\ j.before = intake[p].before /\ j.truncated = intake[p].truncated
  BY DEF State, Steps
<1>2. Local(j)
  BY <1>1 DEF Local
<1>3. CleanOK(j)
  BY <1>1 DEF CleanOK
<1>4. WholeOK(j)
  BY <1>1 DEF WholeOK, Walked
<1> QED BY <1>2, <1>3, <1>4, OwnStep

(***************************************************************************)
(* An intake begins with nothing read and all its roots ahead.             *)
(***************************************************************************)
LEMMA OpenKeeps ==
  ASSUME IntakeInv, UNCHANGED <<tree, commits, resynced>>, NEW p \in Process, NEW unit,
         Open(p, unit)
  PROVE  IntakeInv'
<1>1. CASE Fail(p)
  BY <1>1, FailKeeps DEF Fail
<1>2. CASE ~Fail(p)
  <2> DEFINE j == [Idle EXCEPT !.pc = "head", !.unit = unit, !.roots = Unit[unit],
                              !.cfg = tree[Config]]
  <2>1. Become(p, j) /\ unit \in DOMAIN Unit
    BY <1>2 DEF Open
  <2>2. Unit[unit] \in Seq(Root) /\ tree[Config] \in Content
    <3>1. Unit[unit] \in Seq(Range(Unit[unit]))
      BY <2>1, IntakeAssumption
    <3>2. Range(Unit[unit]) \subseteq Root
      BY <2>1 DEF Root
    <3> QED BY <3>1, <3>2, IntakeAssumption DEF IntakeInv, RepositoryOK
  <2>3. /\ j.pc = "head" /\ j.unit = unit /\ j.roots = Unit[unit] /\ j.got = <<>>
        /\ j.before = NoGit /\ j.truncated = FALSE /\ j.agenda = {} /\ j.issues = {}
    BY DEF Idle
  <2>4. j \in State
    <3>1. Idle \in State
      BY DEF State, Idle, Steps, Content
    <3> QED BY <2>1, <2>2, <3>1 DEF State, Steps
  <2> HIDE DEF j
  <2>5. Local(j)
    BY <2>1, <2>3, <2>4 DEF Local, Steps
  <2>6. CleanOK(j)
    BY <2>3 DEF CleanOK
  <2>7. WholeOK(j)
    <3>1. Steady(Unit[j.unit]) \subseteq Ahead(j)
      BY <2>3 DEF Steady, Ahead
    <3> QED BY <2>3, <3>1, IntakeAssumption DEF WholeOK, Walked
  <2> QED BY <2>1, <2>5, <2>6, <2>7, OwnStep
<1> QED BY <1>1, <1>2

\* A change of what an inspection found, or of the progress of the intake,
\* keeps what the walk has found.
LEMMA GitStep ==
  ASSUME IntakeInv, UNCHANGED <<tree, commits, resynced>>, NEW p \in Process,
         NEW j \in State, Become(p, j), Local(j),
         \A field \in {"unit", "got", "issues", "truncated", "agenda", "roots"} :
           j[field] = intake[p][field],
         \/ intake[p].pc \in {"head", "status"} /\ j.pc \in {"status", "walk"}
         \/ intake[p].pc = "walk" /\ j.pc = "headAgain" /\ j.agenda = {} /\ j.roots = <<>>
         \/ intake[p].pc \in Walked /\ j.pc \in Walked,
         CleanOK(j)
  PROVE  IntakeInv'
<1>1. /\ j.unit = intake[p].unit /\ j.got = intake[p].got /\ j.issues = intake[p].issues
      /\ j.truncated = intake[p].truncated /\ j.agenda = intake[p].agenda
      /\ j.roots = intake[p].roots
  OBVIOUS
<1>2. WholeOK(intake[p])
  BY DEF IntakeInv
<1>3. Got(j) = Got(intake[p]) /\ Ahead(j) = Ahead(intake[p])
  BY <1>1 DEF Got, Ahead
<1>4. WholeOK(j)
  BY <1>1, <1>2, <1>3 DEF WholeOK, Walked
<1> QED BY <1>4, OwnStep

(***************************************************************************)
(* A failed command leaves an inspection without a result.                 *)
(***************************************************************************)
LEMMA UninspectedKeeps ==
  ASSUME IntakeInv, NEW p \in Process, Uninspected(p)
  PROVE  IntakeInv'
<1> DEFINE i == intake[p]
<1>0. UNCHANGED <<tree, commits, resynced>>
  BY DEF Uninspected, Fault
<1>1. CASE i.pc \in {"head", "status"}
  <2> DEFINE j == [i EXCEPT !.pc = "walk", !.before = NoGit]
  <2>1. Become(p, j)
    BY <1>1 DEF Uninspected
  <2>2. j \in State /\ i \in State
    BY Facts DEF State, Steps
  <2>3. j.pc = "walk" /\ j.before = NoGit /\ j.unit = i.unit
    BY <2>2 DEF State
  <2>4. Local(j)
    BY <1>1, <2>2, <2>3, Facts DEF Local, Steps
  <2>5. CleanOK(j)
    BY <2>3 DEF CleanOK, SameCommit
  <2>6. \A field \in {"unit", "got", "issues", "truncated", "agenda", "roots"} : j[field] = i[field]
    BY <2>2 DEF State
  <2> QED BY <1>0, <1>1, <2>1, <2>2, <2>3, <2>4, <2>5, <2>6, GitStep
<1>2. CASE i.pc \in {"headAgain", "statusAgain", "tracked"}
  <2> DEFINE j == [i EXCEPT !.pc = "compare", !.now = NoGit]
  <2>1. Become(p, j)
    BY <1>2 DEF Uninspected
  <2>2. j \in State /\ i \in State
    BY Facts DEF State, Steps, Walked
  <2>3. j.pc = "compare" /\ j.now = NoGit /\ j.unit = i.unit /\ j.before = i.before
    BY <2>2 DEF State
  <2>4. Local(j)
    BY <1>2, <2>2, <2>3, Facts DEF Local, Steps, Walked
  <2>5. CleanOK(j)
    BY <2>3, Facts DEF CleanOK, SameCommit
  <2>6. \A field \in {"unit", "got", "issues", "truncated", "agenda", "roots"} : j[field] = i[field]
    BY <2>2 DEF State
  <2>7. i.pc \in Walked /\ j.pc \in Walked
    BY <1>2, <2>3 DEF Walked
  <2> QED BY <1>0, <2>1, <2>2, <2>4, <2>5, <2>6, <2>7, GitStep
<1> QED BY <1>1, <1>2 DEF Uninspected

(***************************************************************************)
(* When the second inspection finds HEAD where it was, it has not moved,   *)
(* as commits are only added.                                              *)
(***************************************************************************)
LEMMA ReadHeadKeeps ==
  ASSUME IntakeInv, NEW p \in Process, ReadHead(p), UNCHANGED <<tree, commits, resynced>>
  PROVE  IntakeInv'
<1> DEFINE i == intake[p]
           seen == [head |-> Len(commits), status |-> {}, dirty |-> FALSE]
<1>0. seen \in Inspected /\ seen.head = Len(commits) /\ Len(commits) \in DOMAIN commits
  BY Facts DEF Inspected
<1>1. CASE i.pc = "head"
  <2> DEFINE j == [i EXCEPT !.pc = "status", !.before = seen]
  <2>1. Become(p, j)
    BY <1>1 DEF ReadHead
  <2>2. j \in State /\ i \in State
    BY <1>0, Facts DEF State, Steps
  <2>3. j.pc = "status" /\ j.before = seen /\ j.unit = i.unit /\ j.got = i.got /\ i.got = <<>>
    BY <1>1, <2>2, Facts DEF State, Local
  <2>4. Local(j)
    BY <1>0, <1>1, <2>2, <2>3, Facts DEF Local, Steps
  <2>5. CleanOK(j)
    BY <1>0, <2>3 DEF CleanOK, SameCommit
  <2>6. \A field \in {"unit", "got", "issues", "truncated", "agenda", "roots"} : j[field] = i[field]
    BY <2>2 DEF State
  <2> QED BY <1>1, <2>1, <2>2, <2>3, <2>4, <2>5, <2>6, GitStep
<1>2. CASE i.pc = "headAgain"
  <2> DEFINE j == [i EXCEPT !.pc = "statusAgain", !.now = seen]
  <2>1. Become(p, j)
    BY <1>2 DEF ReadHead
  <2>2. j \in State /\ i \in State
    BY <1>0, Facts DEF State, Steps, Walked
  <2>3. j.pc = "statusAgain" /\ j.now = seen /\ j.unit = i.unit /\ j.before = i.before /\ j.got = i.got
    BY <2>2 DEF State
  <2>4. Local(j)
    BY <1>0, <1>2, <2>2, <2>3, Facts DEF Local, Steps, Walked
  <2>5. CleanOK(j)
    <3>1. CleanOK(i)
      BY Facts
    <3> QED BY <1>0, <1>2, <2>3, <3>1, Facts DEF CleanOK, SameCommit, Explained
  <2>6. \A field \in {"unit", "got", "issues", "truncated", "agenda", "roots"} : j[field] = i[field]
    BY <2>2 DEF State
  <2>7. i.pc \in Walked /\ j.pc \in Walked
    BY <1>2, <2>3 DEF Walked
  <2> QED BY <2>1, <2>2, <2>4, <2>5, <2>6, <2>7, GitStep
<1> QED BY <1>1, <1>2 DEF ReadHead

(***************************************************************************)
(* A status without lines says that no file differs but an ignored one.    *)
(***************************************************************************)
LEMMA StatusMeans ==
  /\ Status \subseteq File \X {"??", "D", "M"}
  /\ Status = {} => \A f \in File : Differs(f) => f \in Ignored
<1> DEFINE Line(f) == <<f, CASE HeadTree[f] = NoFile -> "??" [] tree[f] = NoFile -> "D" [] OTHER -> "M">>
           Changed == {g \in File \ Ignored : tree[g] # HeadTree[g]}
<1>1. Status = {Line(f) : f \in Changed}
  BY DEF Status
<1>2. \A f \in File : Line(f) \in File \X {"??", "D", "M"}
  OBVIOUS
<1> HIDE DEF Line
<1>3. Status = {} => Changed = {}
  BY <1>1
<1> QED BY <1>1, <1>2, <1>3 DEF Differs

LEMMA ReadStatusKeeps ==
  ASSUME IntakeInv, NEW p \in Process, ReadStatus(p), UNCHANGED <<tree, commits, resynced>>
  PROVE  IntakeInv'
<1> DEFINE i == intake[p]
<1>1. CASE i.pc = "status"
  <2> DEFINE j == [i EXCEPT !.pc = "walk", !.before.status = Status]
  <2>1. Become(p, j)
    BY <1>1 DEF ReadStatus
  <2>2. i \in State /\ i.before \in Inspected
    BY <1>1, Facts DEF Local
  <2>3. [i.before EXCEPT !.status = Status] \in Inspected
    BY <2>2, StatusMeans DEF Inspected
  <2>4. j \in State
    BY <2>2, <2>3 DEF State, Steps
  <2>5. j.pc = "walk" /\ j.unit = i.unit /\ j.got = i.got /\ i.got = <<>>
        /\ j.before.head = i.before.head
    BY <1>1, <2>2, Facts DEF State, Local, Inspected
  <2>6. Local(j)
    BY <1>1, <2>4, <2>5, Facts DEF Local, Steps
  <2>7. CleanOK(j)
    <3>1. i.before # NoGit
      BY <2>2, IntakeAssumption
    <3> QED BY <2>5, <3>1, Facts DEF CleanOK
  <2>8. \A field \in {"unit", "got", "issues", "truncated", "agenda", "roots"} : j[field] = i[field]
    BY <2>2 DEF State
  <2> QED BY <1>1, <2>1, <2>4, <2>5, <2>6, <2>7, <2>8, GitStep
<1>2. CASE i.pc = "statusAgain"
  <2> DEFINE j == [i EXCEPT !.pc = "tracked", !.now.status = Status]
  <2>1. Become(p, j)
    BY <1>2 DEF ReadStatus
  <2>2. i \in State /\ i.now \in Inspected
    BY <1>2, Facts DEF Local
  <2>3. [i.now EXCEPT !.status = Status] \in Inspected
    BY <2>2, StatusMeans DEF Inspected
  <2>4. j \in State
    BY <2>2, <2>3 DEF State, Steps, Walked
  <2>5. j.pc = "tracked" /\ j.unit = i.unit /\ j.got = i.got /\ j.before = i.before
        /\ j.now.head = i.now.head /\ j.now.status = Status /\ j.now \in Inspected
    BY <2>2, <2>3 DEF State, Inspected
  <2>6. Local(j)
    BY <1>2, <2>4, <2>5, Facts DEF Local, Steps, Walked
  <2>7. CleanOK(j)
    <3>1. CleanOK(i) /\ i.now # NoGit
      BY <2>2, IntakeAssumption, Facts
    <3>2. \A k \in DOMAIN i.got : i.got[k].file \in File
      <4>1. \A k \in DOMAIN i.got : i.got[k] \in Reading
        BY Facts
      <4> QED BY <4>1, IntakeAssumption DEF Reading
    <3> QED BY <1>2, <2>5, <3>1, <3>2, StatusMeans DEF CleanOK, SameCommit, Explained
  <2>8. \A field \in {"unit", "got", "issues", "truncated", "agenda", "roots"} : j[field] = i[field]
    BY <2>2 DEF State
  <2>9. i.pc \in Walked /\ j.pc \in Walked
    BY <1>2, <2>5 DEF Walked
  <2> QED BY <2>1, <2>4, <2>6, <2>7, <2>8, <2>9, GitStep
<1> QED BY <1>1, <1>2 DEF ReadStatus

(***************************************************************************)
(* A snapshot that is not dirty holds no ignored file: none is tracked.    *)
(***************************************************************************)
LEMMA ReadTrackedKeeps ==
  ASSUME IntakeInv, NEW p \in Process, ReadTracked(p), UNCHANGED <<tree, commits, resynced>>
  PROVE  IntakeInv'
<1> DEFINE i == intake[p]
           dirty == i.now.status # {} \/ ~ Got(i) \subseteq Tracked
           j == [i EXCEPT !.pc = "compare", !.now.dirty = dirty]
<1>1. Become(p, j) /\ i.pc = "tracked"
  BY DEF ReadTracked
<1>2. i \in State /\ i.now \in Inspected
  BY <1>1, Facts DEF Local
<1>3. [i.now EXCEPT !.dirty = dirty] \in Inspected
  <2>1. dirty \in BOOLEAN
    OBVIOUS
  <2> HIDE DEF dirty
  <2> QED BY <1>2, <2>1 DEF Inspected
<1>4. j \in State
  BY <1>2, <1>3 DEF State, Steps, Walked
<1>5. j.pc = "compare" /\ j.unit = i.unit /\ j.got = i.got /\ j.before = i.before
      /\ j.now.head = i.now.head /\ j.now.status = i.now.status /\ j.now.dirty = dirty
  BY <1>2, <1>3 DEF State, Inspected
<1>6. Local(j)
  BY <1>1, <1>4, <1>5, Facts DEF Local, Steps, Walked
<1>7. CleanOK(j)
  <2>1. CleanOK(i) /\ i.now # NoGit
    BY <1>2, IntakeAssumption, Facts
  <2>2. ASSUME ~dirty, NEW k \in DOMAIN i.got
        PROVE  i.now.status = {} /\ i.got[k].file \notin Ignored
    <3>1. i.got[k].file \in Tracked
      BY <2>2 DEF Got
    <3>2. HeadTree[i.got[k].file] # NoFile
      BY <3>1 DEF Tracked
    <3>3. \A f \in Ignored : HeadTree[f] = NoFile
      BY Facts DEF IntakeInv, RepositoryOK
    <3> QED BY <2>2, <3>2, <3>3
  <2> HIDE DEF dirty
  <2> QED BY <1>1, <1>5, <2>1, <2>2 DEF CleanOK, SameCommit, Explained
<1>8. \A field \in {"unit", "got", "issues", "truncated", "agenda", "roots"} : j[field] = i[field]
  BY <1>2 DEF State
<1>9. i.pc \in Walked /\ j.pc \in Walked
  BY <1>1, <1>5 DEF Walked
<1> QED BY <1>1, <1>4, <1>6, <1>7, <1>8, <1>9, GitStep

LEMMA CompareKeeps ==
  ASSUME IntakeInv, NEW p \in Process, CompareGit(p), UNCHANGED <<tree, commits, resynced>>
  PROVE  IntakeInv'
<1> DEFINE i == intake[p]
           j == [i EXCEPT !.pc = "done"]
<1>1. i.pc = "compare"
  BY DEF CompareGit
<1>2. CASE ~SameGit(i.before, i.now)
  BY <1>2, FailKeeps DEF CompareGit, Fail
<1>3. CASE SameGit(i.before, i.now)
  <2>1. Become(p, j)
    BY <1>3 DEF CompareGit
  <2>2. i \in State /\ j \in State
    BY Facts DEF State, Steps, Walked
  <2>3. j.pc = "done" /\ j.unit = i.unit /\ j.got = i.got /\ j.before = i.before /\ j.now = i.now
    BY <2>2 DEF State
  <2>4. Local(j)
    BY <1>1, <1>3, <2>2, <2>3, Facts DEF Local, Steps, Walked
  <2>5. CleanOK(j)
    BY <1>1, <2>3, Facts DEF CleanOK, SameCommit, Explained
  <2>6. \A field \in {"unit", "got", "issues", "truncated", "agenda", "roots"} : j[field] = i[field]
    BY <2>2 DEF State
  <2>7. i.pc \in Walked /\ j.pc \in Walked
    BY <1>1, <2>3 DEF Walked
  <2> QED BY <2>1, <2>2, <2>4, <2>5, <2>6, <2>7, GitStep
<1> QED BY <1>2, <1>3

LEMMA WalkDoneKeeps ==
  ASSUME IntakeInv, NEW p \in Process, WalkDone(p), UNCHANGED <<tree, commits, resynced>>
  PROVE  IntakeInv'
<1> DEFINE i == intake[p]
           j == [i EXCEPT !.pc = "headAgain"]
<1>1. Become(p, j) /\ i.pc = "walk" /\ i.agenda = {} /\ i.roots = <<>>
  BY DEF WalkDone
<1>2. i \in State /\ j \in State
  BY Facts DEF State, Steps, Walked
<1>3. j.pc = "headAgain" /\ j.unit = i.unit /\ j.got = i.got /\ j.before = i.before
      /\ j.agenda = {} /\ j.roots = <<>>
  BY <1>1, <1>2 DEF State
<1>4. Local(j)
  BY <1>1, <1>2, <1>3, Facts DEF Local, Steps
<1>5. CleanOK(j)
  BY <1>1, <1>3, Facts DEF CleanOK, Explained
<1>6. \A field \in {"unit", "got", "issues", "truncated", "agenda", "roots"} : j[field] = i[field]
  BY <1>2 DEF State
<1> QED BY <1>1, <1>2, <1>3, <1>4, <1>5, <1>6, GitStep

-----------------------------------------------------------------------------
(* The steps of the walk.                                                  *)

(***************************************************************************)
(* A step of the walk reads nothing or one file, and loses nothing steady. *)
(***************************************************************************)
LEMMA WalkStep ==
  ASSUME IntakeInv, UNCHANGED <<tree, commits, resynced>>, NEW p \in Process,
         NEW j \in State, Become(p, j), intake[p].pc = "walk", j.pc = "walk",
         j.unit = intake[p].unit, j.before = intake[p].before,
         \/ j.got = intake[p].got
         \/ \E f \in Source : /\ j.got = Append(intake[p].got, [file |-> f, content |-> tree[f]])
                             /\ Len(intake[p].got) < MaxFiles,
         j.truncated => j.got = intake[p].got
                        /\ (intake[p].truncated \/ Len(j.got) = MaxFiles),
         ~j.truncated =>
           /\ ~intake[p].truncated
           /\ \A f \in Steady(Unit[intake[p].unit]) \cap Ahead(intake[p]) :
                f \in Got(j) \cup j.issues \cup Ahead(j)
           /\ intake[p].issues \subseteq j.issues
  PROVE  IntakeInv'
<1> DEFINE i == intake[p]
<1> HIDE DEF i
<1>1. /\ Local(i) /\ CleanOK(i) /\ WholeOK(i) /\ i.got \in Seq(Reading) /\ i = intake[p]
  BY Facts DEF i
<1>2. Local(j)
  BY <1>1 DEF Local, Steps
<1>3. j.got \in Seq(Reading)
  BY DEF State
<1>4. CASE j.got = i.got
  <2>1. CleanOK(j)
    BY <1>1, <1>4 DEF CleanOK, Explained
  <2>2. WholeOK(j)
    BY <1>1, <1>4 DEF WholeOK, Got, Walked
  <2> QED BY <1>2, <2>1, <2>2, OwnStep
<1>5. ASSUME NEW f \in Source, Len(i.got) < MaxFiles,
             j.got = Append(i.got, [file |-> f, content |-> tree[f]])
      PROVE  IntakeInv'
  <2> DEFINE n == Len(i.got) + 1
  <2>1. /\ Len(j.got) = n /\ n \in Nat /\ DOMAIN j.got = DOMAIN i.got \cup {n}
        /\ j.got[n].file = f /\ j.got[n].content = tree[f]
        /\ \A k \in DOMAIN i.got : k # n /\ j.got[k] = i.got[k]
    BY <1>1, <1>3, <1>5
  <2> HIDE DEF n
  <2>2. CleanOK(j)
    <3>1. j.before # NoGit => j.before.head \in DOMAIN commits
      BY <1>1 DEF CleanOK
    <3>2. ASSUME j.before # NoGit, NEW k \in DOMAIN j.got
          PROVE  Explained(j, k) \/ Differs(j.got[k].file) \/ j.before.head < Len(commits)
      <4>1. CASE k \in DOMAIN i.got
        <5>1. Explained(i, k) => Explained(j, k)
          BY <1>1, <2>1, <4>1 DEF Explained
        <5> QED BY <1>1, <2>1, <3>2, <4>1, <5>1 DEF CleanOK
      <4>2. CASE k = n
        <5>1. Differs(f) \/ tree[f] = commits[Len(commits)][f]
          BY Facts DEF Differs
        <5>2. j.before.head = Len(commits) \/ j.before.head < Len(commits)
          BY <3>1, <3>2, Facts
        <5> QED BY <2>1, <4>2, <5>1, <5>2 DEF Explained
      <4> QED BY <2>1, <4>1, <4>2
    <3> QED BY <3>1, <3>2 DEF CleanOK
  <2>3. Got(j) = Got(i) \cup {f}
    BY <2>1 DEF Got
  <2>4. ~j.truncated
    <3>1. j.got # i.got
      BY <2>1, <1>1
    <3> QED BY <1>1, <3>1
  <2>5. n <= MaxFiles
    BY <1>1, <1>5, IntakeAssumption DEF n
  <2>6. WholeOK(j)
    BY <1>1, <2>1, <2>3, <2>4, <2>5 DEF WholeOK, Walked
  <2> QED BY <1>2, <2>2, <2>6, OwnStep
<1> QED BY <1>1, <1>4, <1>5

(***************************************************************************)
(* What a directory lists covers what is steady below it.                  *)
(***************************************************************************)
LEMMA ListingCovers ==
  ASSUME NEW d \in Dir, NEW roots, NEW f \in Steady(roots), f \in Below[d]
  PROVE  \E e \in Listing(d) : f \in Below[e]
<1>1. PICK e \in Children[d] : f \in Below[e]
  BY BelowUnfolds
<1>2. e \in Dir \cup File
  BY IntakeAssumption
<1>3. CASE e \in Dir
  BY <1>1, <1>3 DEF Listing, Exists
<1>4. CASE e \in File
  <2>1. f = e
    BY <1>1, <1>4, BelowUnfolds
  <2>2. tree[f] # NoFile
    BY DEF Steady, Tracked
  <2> QED BY <1>1, <2>1, <2>2 DEF Listing, Exists
<1> QED BY <1>2, <1>3, <1>4

LEMMA ListingIsPaths == \A d \in Dir : Listing(d) \subseteq Path
BY IntakeAssumption DEF Listing, Path

LEMMA WalkRootKeeps ==
  ASSUME IntakeInv, NEW p \in Process, WalkRoot(p), UNCHANGED <<tree, commits, resynced>>
  PROVE  IntakeInv'
<1> DEFINE i == intake[p]
<1>1. i.pc = "walk" /\ i.agenda = {} /\ i.roots # <<>> /\ i.roots \in Seq(Root) /\ i \in State
  BY Facts DEF WalkRoot
<1>2. Tail(i.roots) \in Seq(Root) /\ Range(i.roots) \subseteq Range(Tail(i.roots)) \cup {Head(i.roots)}
  <2>1. Tail(i.roots) \in Seq(Root)
    BY <1>1
  <2>2. ASSUME NEW k \in DOMAIN i.roots
        PROVE  i.roots[k] = Head(i.roots) \/ \E l \in DOMAIN Tail(i.roots) : i.roots[k] = Tail(i.roots)[l]
    <3>1. k = 1 \/ k - 1 \in 1 .. Len(i.roots) - 1
      BY <1>1
    <3>2. DOMAIN Tail(i.roots) = 1 .. Len(i.roots) - 1
      BY <1>1
    <3>3. k # 1 => Tail(i.roots)[k - 1] = i.roots[k]
      BY <1>1, <3>1
    <3> QED BY <1>1, <3>1, <3>2, <3>3
  <2> QED BY <2>1, <2>2 DEF Range
<1>3. CASE Full(i)
  <2> DEFINE j == [i EXCEPT !.roots = Tail(@), !.truncated = TRUE]
  <2>1. Become(p, j)
    BY <1>3 DEF WalkRoot
  <2>2. j \in State
    BY <1>1, <1>2 DEF State
  <2>3. /\ j.pc = "walk" /\ j.unit = i.unit /\ j.before = i.before /\ j.got = i.got
        /\ j.truncated
    BY <1>1, <2>2 DEF State
  <2>4. Len(j.got) = MaxFiles
    BY <1>3, <2>3, IntakeAssumption, Facts DEF Full, WholeOK
  <2> QED BY <1>1, <2>1, <2>2, <2>3, <2>4, WalkStep
<1>4. CASE ~Full(i) /\ Head(i.roots) \notin Dir
  BY <1>4, FailKeeps DEF WalkRoot, Fail
<1>5. CASE ~Full(i) /\ Head(i.roots) \in Dir
  <2> DEFINE d == Head(i.roots)
             j == [i EXCEPT !.roots = Tail(@), !.agenda = Listing(d)]
  <2>1. Become(p, j) /\ d \in Dir
    BY <1>5 DEF WalkRoot
  <2>2. j \in State
    BY <1>1, <1>2, <2>1, ListingIsPaths DEF State
  <2>3. /\ j.pc = "walk" /\ j.unit = i.unit /\ j.before = i.before /\ j.got = i.got
        /\ j.truncated = i.truncated /\ j.issues = i.issues
        /\ j.agenda = Listing(d) /\ j.roots = Tail(i.roots)
    BY <1>1, <2>2 DEF State
  <2>4. ASSUME NEW f \in Steady(Unit[i.unit]), f \in Ahead(i)
        PROVE  f \in Ahead(j)
    <3>1. PICK r \in Range(i.roots) \cap Dir : f \in Below[r]
      BY <1>1, <2>4 DEF Ahead
    <3>2. CASE r = d
      <4>1. PICK e \in Listing(d) : f \in Below[e]
        BY <2>1, <3>1, <3>2, ListingCovers
      <4> QED BY <2>3, <4>1 DEF Ahead
    <3>3. CASE r \in Range(Tail(i.roots))
      BY <2>3, <3>1, <3>3 DEF Ahead
    <3> QED BY <1>2, <3>1, <3>2, <3>3
  <2>5. j.truncated => i.truncated
    BY <2>3
  <2> HIDE DEF j, d
  <2> QED BY <1>1, <2>1, <2>2, <2>3, <2>4, <2>5, WalkStep
<1> QED BY <1>3, <1>4, <1>5

LEMMA TruncateKeeps ==
  ASSUME IntakeInv, NEW p \in Process, Truncate(p), UNCHANGED <<tree, commits, resynced>>
  PROVE  IntakeInv'
<1> DEFINE i == intake[p]
           j == [i EXCEPT !.agenda = {}, !.truncated = TRUE]
<1>1. i.pc = "walk" /\ Full(i) /\ Become(p, j) /\ i \in State
  BY Facts DEF Truncate
<1>2. j \in State
  BY <1>1 DEF State
<1>3. /\ j.pc = "walk" /\ j.unit = i.unit /\ j.before = i.before /\ j.got = i.got /\ j.truncated
  BY <1>1, <1>2 DEF State
<1>4. Len(j.got) = MaxFiles
  BY <1>1, <1>3, IntakeAssumption, Facts DEF Full, WholeOK
<1> QED BY <1>1, <1>2, <1>3, <1>4, WalkStep

(***************************************************************************)
(* The entry a step takes, and what is ahead without it.                   *)
(***************************************************************************)
LEMMA Taking ==
  ASSUME IntakeInv, NEW p \in Process, NEW kind, NEW after, Visit(p, kind, after)
  PROVE  LET i == intake[p] IN
         /\ i.pc = "walk" /\ Entry(p) \in i.agenda \cap kind /\ ~Full(i) /\ ~i.truncated
         /\ Passed(p) \in State /\ Passed(p).agenda = i.agenda \ {Entry(p)}
         /\ Passed(p).visited = i.visited + 1
         /\ \A field \in DOMAIN i \ {"agenda", "visited"} : Passed(p)[field] = i[field]
         /\ Ahead(i) \subseteq Below[Entry(p)] \cup Ahead(Passed(p))
<1> DEFINE i == intake[p]
<1>1. i \in State /\ i.agenda \subseteq Path /\ i.visited \in Nat /\ WholeOK(i) /\ Len(i.got) \in Nat
  BY Facts
<1>2. i.pc = "walk" /\ i.agenda # {} /\ ~Full(i) /\ Entry(p) \in kind
  BY DEF Visit
<1>3. Entry(p) \in i.agenda
  BY <1>1, <1>2, EntryInAgenda
<1>4. ~i.truncated
  BY <1>1, <1>2, IntakeAssumption DEF WholeOK, Full
<1>5. Passed(p) \in State
  <2>1. i.agenda \ {Entry(p)} \in SUBSET Path /\ i.visited + 1 \in Nat
    BY <1>1
  <2> QED BY <1>1, <2>1 DEF Passed, State
<1>6. /\ Passed(p).agenda = i.agenda \ {Entry(p)} /\ Passed(p).visited = i.visited + 1
      /\ \A field \in DOMAIN i \ {"agenda", "visited"} : Passed(p)[field] = i[field]
  BY <1>1 DEF Passed, State
<1>7. Passed(p).roots = i.roots
  BY <1>1 DEF Passed, State
<1>8. Ahead(i) \subseteq Below[Entry(p)] \cup Ahead(Passed(p))
  BY <1>6, <1>7 DEF Ahead
<1> QED BY <1>2, <1>3, <1>4, <1>5, <1>6, <1>8

\* The walk gives up after MaxEntries entries.
LEMMA OrGivesUp ==
  ASSUME IntakeInv, UNCHANGED <<tree, commits, resynced>>, NEW p \in Process,
         NEW kind, NEW after, Visit(p, kind, after), Become(p, after) => IntakeInv'
  PROVE  IntakeInv'
BY FailKeeps DEF Visit, Fail

\* Passing an entry below which nothing steady lies loses nothing.
LEMMA PassKeeps ==
  ASSUME IntakeInv, UNCHANGED <<tree, commits, resynced>>, NEW p \in Process,
         NEW kind, NEW after, Visit(p, kind, after), NEW j \in State, Become(p, j),
         \A field \in {"pc", "unit", "before", "got", "truncated", "roots"} :
           j[field] = Passed(p)[field],
         Passed(p).agenda \subseteq j.agenda, Passed(p).issues \subseteq j.issues,
         \A f \in Steady(Unit[intake[p].unit]) \cap Below[Entry(p)] :
           f \in j.issues \cup Ahead(j)
  PROVE  IntakeInv'
<1> DEFINE i == intake[p]
<1>1. /\ i \in State /\ i.pc = "walk" /\ ~i.truncated
      /\ Ahead(i) \subseteq Below[Entry(p)] \cup Ahead(Passed(p))
  BY Taking, Facts
<1>2. /\ Passed(p).pc = i.pc /\ Passed(p).unit = i.unit /\ Passed(p).before = i.before
      /\ Passed(p).got = i.got /\ Passed(p).truncated = i.truncated
      /\ Passed(p).roots = i.roots /\ Passed(p).issues = i.issues
  <2>1. DOMAIN i = {"pc", "unit", "cfg", "roots", "agenda", "got", "visited", "issues",
                    "truncated", "before", "now"}
    BY <1>1 DEF State
  <2> QED BY <2>1, Taking
<1>3. /\ j.pc = i.pc /\ j.unit = i.unit /\ j.before = i.before /\ j.got = i.got
      /\ j.truncated = i.truncated /\ j.roots = i.roots
  BY <1>2
<1>4. Ahead(Passed(p)) \subseteq Ahead(j)
  BY <1>2, <1>3 DEF Ahead
<1>5. \A f \in Steady(Unit[i.unit]) \cap Ahead(i) : f \in Got(j) \cup j.issues \cup Ahead(j)
  BY <1>1, <1>4
<1> QED BY <1>1, <1>2, <1>3, <1>5, WalkStep

LEMMA EnterDirKeeps ==
  ASSUME IntakeInv, NEW p \in Process, EnterDir(p), UNCHANGED <<tree, commits, resynced>>
  PROVE  IntakeInv'
<1> DEFINE e == Entry(p)
           after == [Passed(p) EXCEPT !.agenda = @ \cup Listing(Entry(p))]
<1>1. Visit(p, Dir, after)
  BY DEF EnterDir
<1>2. e \in Dir /\ Passed(p) \in State
  BY <1>1, Taking
<1> SUFFICES ASSUME Become(p, after) PROVE IntakeInv'
  BY <1>1, OrGivesUp
<1>3. after \in State
  <2>1. Passed(p).agenda \cup Listing(e) \in SUBSET Path
    BY <1>2, ListingIsPaths DEF State
  <2> QED BY <1>2, <2>1 DEF State
<1>4. /\ \A field \in {"pc", "unit", "before", "got", "truncated", "roots"} :
            after[field] = Passed(p)[field]
      /\ after.agenda = Passed(p).agenda \cup Listing(e) /\ after.issues = Passed(p).issues
  BY <1>2 DEF State
<1>5. \A f \in Steady(Unit[intake[p].unit]) \cap Below[e] : f \in Ahead(after)
  <2> HIDE DEF after, e
  <2> SUFFICES ASSUME NEW f \in Steady(Unit[intake[p].unit]) \cap Below[e]
               PROVE  f \in Ahead(after)
    OBVIOUS
  <2>1. PICK c \in Listing(e) : f \in Below[c]
    BY <1>2, ListingCovers
  <2> QED BY <1>4, <2>1 DEF Ahead
<1> HIDE DEF after
<1> QED BY <1>1, <1>3, <1>4, <1>5, PassKeeps

LEMMA SkipEntryKeeps ==
  ASSUME IntakeInv, NEW p \in Process, SkipEntry(p), UNCHANGED <<tree, commits, resynced>>
  PROVE  IntakeInv'
<1>1. Visit(p, File \ Source, Passed(p))
  BY DEF SkipEntry
<1>2. Entry(p) \in File \ Source /\ Passed(p) \in State
  BY <1>1, Taking
<1>3. Below[Entry(p)] = {}
  BY <1>2, BelowUnfolds
<1> SUFFICES ASSUME Become(p, Passed(p)) PROVE IntakeInv'
  BY <1>1, OrGivesUp
<1> QED BY <1>1, <1>2, <1>3, PassKeeps

LEMMA ReadFailsKeeps ==
  ASSUME IntakeInv, NEW p \in Process, ReadFails(p)
  PROVE  IntakeInv'
<1> DEFINE after == [Passed(p) EXCEPT !.issues = @ \cup {Entry(p)}]
<1>1. Visit(p, Source, after) /\ UNCHANGED <<tree, commits, resynced>>
  BY DEF ReadFails, Fault
<1>2. Entry(p) \in Source /\ Passed(p) \in State
  BY <1>1, Taking
<1>3. Below[Entry(p)] \subseteq {Entry(p)}
  BY <1>2, BelowUnfolds, IntakeAssumption
<1> SUFFICES ASSUME Become(p, after) PROVE IntakeInv'
  BY <1>1, OrGivesUp
<1>4. after \in State
  BY <1>2 DEF State
<1>5. /\ \A field \in {"pc", "unit", "before", "got", "truncated", "roots"} :
            after[field] = Passed(p)[field]
      /\ after.agenda = Passed(p).agenda /\ after.issues = Passed(p).issues \cup {Entry(p)}
  BY <1>2 DEF State
<1> HIDE DEF after
<1> QED BY <1>1, <1>3, <1>4, <1>5, PassKeeps

LEMMA WalkFailsKeeps ==
  ASSUME IntakeInv, NEW p \in Process, WalkFails(p)
  PROVE  IntakeInv'
BY FailKeeps DEF WalkFails, Fault, Fail

LEMMA ReadSourceKeeps ==
  ASSUME IntakeInv, NEW p \in Process, ReadSource(p), UNCHANGED <<tree, commits, resynced>>
  PROVE  IntakeInv'
<1> DEFINE i == intake[p]
           e == Entry(p)
           reading == [file |-> e, content |-> tree[e]]
           j == [Passed(p) EXCEPT !.got = Append(@, [file |-> Entry(p), content |-> tree[Entry(p)]])]
           after == IF tree[e] = NoFile THEN [i EXCEPT !.pc = "failed"] ELSE j
<1>1. Visit(p, Source, after)
  BY DEF ReadSource
<1>2. e \in Source /\ Passed(p) \in State /\ i.pc = "walk" /\ ~Full(i) /\ ~i.truncated
  BY <1>1, Taking
<1> SUFFICES ASSUME Become(p, after) PROVE IntakeInv'
  <2> HIDE DEF after
  <2> QED BY <1>1, OrGivesUp
<1>3. CASE tree[e] = NoFile
  BY <1>3, FailKeeps
<1>4. CASE tree[e] # NoFile
  <2>1. Become(p, j)
    BY <1>4
  <2>2. i \in State /\ DOMAIN i = {"pc", "unit", "cfg", "roots", "agenda", "got", "visited",
                                   "issues", "truncated", "before", "now"}
    BY Facts DEF State
  <2>3. /\ Passed(p).pc = i.pc /\ Passed(p).unit = i.unit /\ Passed(p).before = i.before
        /\ Passed(p).got = i.got /\ Passed(p).truncated = i.truncated
        /\ Passed(p).roots = i.roots /\ Passed(p).issues = i.issues
    BY <1>1, <2>2, Taking
  <2>4. reading \in Reading
    BY <1>2, IntakeAssumption DEF Reading, IntakeInv, RepositoryOK
  <2>5. i.got \in Seq(Reading) /\ Append(i.got, reading) \in Seq(Reading)
    BY <2>4, Facts
  <2>6. j \in State
    BY <1>2, <2>3, <2>5 DEF State
  <2>7. /\ j.pc = "walk" /\ j.unit = i.unit /\ j.before = i.before /\ ~j.truncated
        /\ j.issues = i.issues /\ j.roots = i.roots /\ j.agenda = Passed(p).agenda
        /\ j.got = Append(i.got, reading)
    BY <1>2, <2>3 DEF State
  <2>8. Len(i.got) < MaxFiles
    BY <1>2, <2>5, IntakeAssumption DEF Full
  <2>9. e \in Got(j)
    <3>1. /\ Len(i.got) + 1 \in DOMAIN j.got /\ j.got[Len(i.got) + 1] = reading
      BY <2>5, <2>7
    <3> QED BY <3>1 DEF Got
  <2>10. Ahead(i) \subseteq {e} \cup Ahead(j)
    <3>1. Below[e] \subseteq {e}
      BY <1>2, BelowUnfolds, IntakeAssumption
    <3>2. Ahead(i) \subseteq Below[e] \cup Ahead(Passed(p))
      BY <1>1, Taking
    <3>3. Ahead(Passed(p)) = Ahead(j)
      BY <2>3, <2>7 DEF Ahead
    <3> QED BY <3>1, <3>2, <3>3
  <2> HIDE DEF j, i
  <2>11. \A f \in Steady(Unit[i.unit]) \cap Ahead(i) : f \in Got(j) \cup j.issues \cup Ahead(j)
    BY <2>9, <2>10
  <2> QED BY <1>2, <2>1, <2>6, <2>7, <2>8, <2>11, WalkStep DEF i
<1> QED BY <1>3, <1>4

(***************************************************************************)
(* Every step of an intake keeps the invariant.                            *)
(***************************************************************************)
LEMMA IntakeKeeps ==
  ASSUME IntakeInv, NEW p \in Process, IntakeStep(p)
  PROVE  IntakeInv'
<1>1. CASE Uninspected(p)
  BY <1>1, UninspectedKeeps
<1>2. CASE ReadFails(p) \/ WalkFails(p)
  BY <1>2, ReadFailsKeeps, WalkFailsKeeps
<1>3. CASE /\ \/ ReadHead(p) \/ ReadStatus(p) \/ ReadTracked(p)
              \/ WalkRoot(p) \/ EnterDir(p) \/ SkipEntry(p) \/ ReadSource(p)
              \/ Truncate(p) \/ WalkDone(p) \/ CompareGit(p)
           /\ UNCHANGED repository
  <2>1. UNCHANGED <<tree, commits, resynced>>
    BY <1>3 DEF repository
  <2> QED BY <1>3, <2>1, ReadHeadKeeps, ReadStatusKeeps, ReadTrackedKeeps, WalkRootKeeps,
             EnterDirKeeps, SkipEntryKeeps, ReadSourceKeeps, TruncateKeeps, WalkDoneKeeps,
             CompareKeeps
<1> QED BY <1>1, <1>2, <1>3 DEF IntakeStep

LEMMA InitKeeps == InitIntake => IntakeInv
<1> SUFFICES ASSUME InitIntake PROVE IntakeInv
  OBVIOUS
<1>1. RepositoryOK
  BY DEF InitIntake, RepositoryOK
<1>2. Idle \in State /\ Idle.pc = "idle" /\ Idle.got = <<>> /\ Idle.before = NoGit
      /\ Idle.truncated = FALSE
  BY DEF Idle, State, Steps, Content
<1>3. Local(Idle) /\ CleanOK(Idle) /\ WholeOK(Idle)
  BY <1>2, IntakeAssumption DEF Local, CleanOK, WholeOK, Walked
<1> QED BY <1>1, <1>2, <1>3 DEF InitIntake, IntakeInv

-----------------------------------------------------------------------------
(***************************************************************************)
(* A clean snapshot that is done holds the commit it names.                *)
(***************************************************************************)
LEMMA CleanHolds == IntakeInv => CleanSnapshotIsCommit
<1> SUFFICES ASSUME IntakeInv, NEW p \in Process, intake[p].pc = "done", Clean(intake[p]),
                    NEW f \in Got(intake[p])
             PROVE  \/ ContentOf(intake[p], f) = commits[intake[p].now.head][f]
                    \/ f \in resynced /\ \A line \in intake[p].before.status : line[1] # f
  BY DEF CleanSnapshotIsCommit
<1> DEFINE i == intake[p]
<1>1. i \in State /\ Local(i) /\ CleanOK(i)
  BY Facts
<1> HIDE DEF i
<1>2. PICK k \in DOMAIN i.got : i.got[k].file = f /\ ContentOf(i, f) = i.got[k].content
  BY <1>1, ContentIsRead DEF i
<1>3. i.now # NoGit /\ ~i.now.dirty /\ SameGit(i.before, i.now)
  BY <1>1 DEF Clean, Local, i
<1>4. i.now.status = {} /\ f \notin Ignored
  BY <1>1, <1>2, <1>3 DEF CleanOK, i
<1>5. SameCommit(i) /\ i.before.status = {}
  BY <1>3, <1>4 DEF SameGit, SameCommit
<1>6. Explained(i, k)
  BY <1>1, <1>2, <1>4, <1>5 DEF CleanOK, i
<1> QED BY <1>2, <1>5, <1>6 DEF Explained, SameCommit, i

LEMMA WholeHolds == IntakeInv => SnapshotIsComplete
<1> SUFFICES ASSUME IntakeInv, NEW p \in Process
             PROVE  LET i == intake[p] IN
               /\ Len(i.got) <= MaxFiles
               /\ i.pc \in {"headAgain", "statusAgain", "tracked", "compare", "done"} =>
                    IF i.truncated THEN Len(i.got) = MaxFiles
                    ELSE Steady(Unit[i.unit]) \subseteq Got(i) \cup i.issues
  BY DEF SnapshotIsComplete
<1> DEFINE i == intake[p]
<1>1. WholeOK(i) /\ i.truncated \in BOOLEAN
  BY Facts
<1>2. i.pc \in Walked => Ahead(i) = {}
  BY <1>1 DEF WholeOK, Ahead, Range
<1> QED BY <1>1, <1>2 DEF WholeOK, Walked


-----------------------------------------------------------------------------
(* The invariant.                                                          *)

\* Before the provider is asked, and before anything is recorded.
Unasked == {"idle", "profile", "policy", "intake", "options", "diagnose"}
Unrecorded == Unasked \cup {"output", "validation"}

\* What holds of a scan by itself: each recording is settled in its turn.
ScanOK(c) ==
  /\ DOMAIN c = DOMAIN NoScan
  /\ c.asked \subseteq Recordings /\ c.dry \in BOOLEAN /\ c.sent \in BOOLEAN
  /\ c.recorded \cap c.failed = {} /\ c.recorded \cup c.failed \subseteq c.asked
  /\ c.dry => c.pc \in {"policy", "intake", "ok", "error"} /\ c.asked = {}
  /\ c.pc \in Unasked \ {"diagnose"} => c.asked = {}
  /\ c.pc \in Unasked => ~c.sent
  /\ c.pc \in Unrecorded => c.recorded = {} /\ c.failed = {}
  /\ c.pc = "baseline" => c.recorded \cup c.failed = c.asked \cap {"validation"}
  /\ c.pc = "trend" => /\ c.recorded \cup c.failed = c.asked \cap {"validation", "baseline"}
                       /\ c.failed \subseteq {"validation"}
  /\ c.pc = "end" => c.recorded \cup c.failed = c.asked
  /\ c.pc = "ok" /\ ~c.dry => c.recorded = c.asked /\ c.failed = {}
  /\ c.pc = "error" /\ c.recorded \cup c.failed # {} =>
       /\ c.failed # {}
       /\ c.asked \ (c.recorded \cup c.failed) \subseteq
            IF "baseline" \in c.failed THEN {"trend"} ELSE {}

Recording == {"options", "diagnose", "output", "validation", "baseline", "trend", "end"}

\* What holds of a scan c, its snapshot i and the baselines b.
ScanIntake(c, i, b) ==
  /\ c.pc \in Recording \/ c.sent => i.pc = "done"
  /\ "baseline" \in c.recorded =>
       i.pc = "done" /\ i.cfg \in b /\ (i.now = NoGit \/ ~i.now.dirty)

Asking == {"start", "ask", "askScan", "look"}
Settled == {"provider", "truncate", "fill", "eligible", "launch"}

\* What holds of a setup by itself.
SetupOK(s) ==
  /\ DOMAIN s = DOMAIN NoSetup
  /\ s.dry \in BOOLEAN /\ s.scanWanted \in BOOLEAN /\ s.baselineWanted \in BOOLEAN
  /\ s.skipped \in BOOLEAN /\ s.written \in BOOLEAN
  /\ s.provider \in Provider \cup {Unset} /\ s.model \in Model \cup {Unset}
  /\ s.pc \in Asking => ~s.skipped
  /\ s.pc \in {"count", "write"} => ~s.skipped
  /\ s.pc \in Asking \cup {"count", "write"} => ~s.written
  /\ s.pc = "write" => ~s.dry
  /\ s.written => ~s.dry /\ ~s.skipped
  /\ s.pc \in Settled => s.written \/ s.skipped \/ s.dry \/ s.errors # {}
  /\ s.pc # "done" => s.scanRan = FALSE /\ ~s.baselineSaved
  /\ s.pc = "launch" /\ s.scanWanted /\ s.errors = {} /\ s.written => ~s.baselineWanted
  /\ s.pc = "scanning" => (s.written => ~s.baselineWanted) /\ s.scanWanted
  /\ s.pc = "done" =>
       /\ ~(s.written /\ s.baselineSaved)
       /\ s.scanWanted /\ s.errors = {} /\ ~s.scanRan => s.dry
       /\ s.scanRan /\ s.baselineWanted => s.baselineSaved

\* What holds of a setup s and the scan c that it may run.
SetupScan(s, c) ==
  /\ s.pc \notin {"idle", "scanning", "done"} => c.pc = "idle"
  /\ s.pc = "scanning" =>
       /\ c.pc \notin {"idle", "profile"} /\ ~c.dry
       /\ c.pc \notin {"policy", "intake", "options", "error"} =>
            c.asked = IF s.baselineWanted THEN {"baseline"} ELSE {}
  /\ s.pc = "done" =>
       /\ c.pc \in {"idle", "ok", "error"} /\ s.scanRan = (c.pc = "ok")
       /\ s.baselineSaved => "baseline" \in c.recorded

CommandsInv ==
  /\ DOMAIN scan = Process /\ DOMAIN setup = Process
  /\ \A p \in Process : /\ ScanOK(scan[p]) /\ ScanIntake(scan[p], intake[p], baselines)
                        /\ SetupOK(setup[p]) /\ SetupScan(setup[p], scan[p])

\* The settings of the original profile are still in this one.
Survives(q) ==
  original # NoProfile =>
    /\ q.addons = original.addons
    /\ q.llm.exec # Unset => /\ q.llm.exec = original.llm.exec
                             /\ q.llm.provider = original.llm.provider

\* Two setups have rewritten the profile at the same time.
Overlapped == \E p \in Process : setup[p].shared

\* Otherwise one alone rewrites it, and finds it as it emptied it.
OneWriter ==
  /\ \A p, q \in Process : setup[p].pc = "fill" /\ setup[q].pc = "fill" => p = q
  /\ \A p \in Process : setup[p].pc = "fill" => profile = [torn |-> 0]
  /\ profile \in Torn =>
       \E p \in Process : setup[p].pc \in {"fill", "crashed"} \/ "profile" \in setup[p].errors

ProfileInv ==
  /\ profile \in Profiles \cup {NoProfile} \cup Torn /\ original \in Profiles \cup {NoProfile}
  /\ original # NoProfile => profile # NoProfile
  /\ profile \in Profiles => Survives(profile)
  /\ \A p \in Process : setup[p].pc \in {"truncate", "fill"} =>
       setup[p].merged \in Profiles /\ Survives(setup[p].merged)
  /\ \A p \in Process : setup[p].pc = "fill" => profile # NoProfile
  /\ Overlapped \/ OneWriter

Inv == IntakeInv /\ CommandsInv /\ ProfileInv

-----------------------------------------------------------------------------
(* The intakes under the commands.                                         *)

(***************************************************************************)
(* What a step of the commands does to the repository and the intakes.     *)
(***************************************************************************)
LEMMA IntakeCases ==
  ASSUME Next
  PROVE  \/ Moves /\ UNCHANGED intake
         \/ \E p \in Process, unit \in DOMAIN Unit \cup {"unknown"} \cup {Whole} :
               Open(p, unit) /\ UNCHANGED <<tree, commits, resynced>>
         \/ \E p \in Process : IntakeStep(p)
<1>1. CASE (Edit \/ Commit) /\ UNCHANGED <<profile, baselines, scan, setup>>
  <2>1. CASE Edit
    <3>1. PICK f \in Source, v \in Version \cup {NoFile} : Replace(f, v)
      BY <2>1 DEF Edit
    <3>2. f \in File /\ v \in Content /\ UNCHANGED commits /\ UNCHANGED intake
      BY <2>1, IntakeAssumption DEF Edit, Content
    <3> QED BY <3>1, <3>2 DEF Moves
  <2>2. CASE Commit
    BY <2>2 DEF Moves, Commit
  <2> QED BY <1>1, <2>1, <2>2
<1>2. ASSUME NEW p \in Process, ScanStep(p, Units(p), Wishes(p))
      PROVE  \/ Moves /\ UNCHANGED intake
             \/ \E unit \in DOMAIN Unit \cup {"unknown"} \cup {Whole} :
                   Open(p, unit) /\ UNCHANGED <<tree, commits, resynced>>
             \/ IntakeStep(p)
  <2>1. CASE ParsePolicy(p, Units(p))
    BY <2>1 DEF ParsePolicy, Units, repository, Moves
  <2>2. CASE LoadProfile(p) \/ IntakeEnds(p) \/ ParseOptions(p, Wishes(p)) \/ Diagnose(p)
             \/ Output(p) \/ End(p)
    BY <2>2 DEF LoadProfile, IntakeEnds, ParseOptions, Diagnose, Output, End, repository, Moves
  <2>3. CASE \E what \in Recordings : RecordOne(p, what)
    BY <2>3 DEF RecordOne, repository, Moves
  <2> QED BY <1>2, <2>1, <2>2, <2>3 DEF ScanStep
<1>3. ASSUME NEW p \in Process, SetupStep(p)
      PROVE  Moves /\ UNCHANGED intake
  <2>1. CASE WriteConfig(p)
    <3>1. \/ Replace(Config, "proposed") /\ UNCHANGED commits
          \/ UNCHANGED <<tree, commits, resynced>>
      BY <2>1 DEF WriteConfig, Fault
    <3>2. Config \in File /\ "proposed" \in Content
      BY IntakeAssumption DEF Content
    <3> QED BY <2>1, <3>1, <3>2 DEF WriteConfig, Moves
  <2>2. CASE FillProfile(p)
    BY <2>2 DEF FillProfile, Fault, repository, Moves
  <2>3. CASE Start(p) \/ Ask(p) \/ AskScan(p) \/ LookAtConfig(p) \/ CountBaselines(p)
    BY <2>3 DEF Start, Ask, AskScan, Assess, Fault, LookAtConfig, CountBaselines, repository, Moves
  <2>4. CASE LoadExisting(p) \/ TruncateProfile(p) \/ CheckEligible(p) \/ LaunchScan(p) \/ ScanEnds(p)
    BY <2>4 DEF LoadExisting, TruncateProfile, CheckEligible, Assess, Fault, LaunchScan, ScanEnds,
             repository, Moves
  <2> QED BY <1>3, <2>1, <2>2, <2>3, <2>4 DEF SetupStep
<1> QED BY <1>1, <1>2, <1>3 DEF Next

LEMMA StepIntake == IntakeInv /\ [Next]_vars => IntakeInv'
<1> SUFFICES ASSUME IntakeInv, [Next]_vars PROVE IntakeInv'
  OBVIOUS
<1>1. CASE Next
  BY <1>1, IntakeCases, OthersMove, OpenKeeps, IntakeKeeps
<1>2. CASE UNCHANGED vars
  BY <1>2, OthersMove DEF vars, repository, Moves
<1> QED BY <1>1, <1>2

THEOREM IntakeInvariance == Spec => []IntakeInv
<1>1. Init => IntakeInv
  BY InitKeeps DEF Init
<1> QED BY <1>1, StepIntake, PTL DEF Spec

(***************************************************************************)
(* What a clean snapshot read is what the commit it names holds, but for a *)
(* file that left the commit and came back between the two inspections     *)
(* (createRepositoryIntake), whatever others edit and commit meanwhile.    *)
(***************************************************************************)
THEOREM CleanIsCommit == Spec => []CleanSnapshotIsCommit
BY CleanHolds, IntakeInvariance, PTL

(***************************************************************************)
(* A snapshot that does not say it is truncated misses no source that was  *)
(* there all along (walkFiles), and none holds more than maxFiles.         *)
(***************************************************************************)
THEOREM CompleteSnapshot == Spec => []SnapshotIsComplete
BY WholeHolds, IntakeInvariance, PTL

-----------------------------------------------------------------------------
(* The scans.                                                              *)

\* The locals of a scan and what its EXCEPTs do to them.
LEMMA ScanFields ==
  DOMAIN NoScan = {"pc", "asked", "dry", "llm", "options", "policy", "prompt", "sent",
                   "semantic", "recorded", "failed"}
BY DEF NoScan

LEMMA ToScanSets ==
  ASSUME DOMAIN scan = Process, NEW p \in Process, NEW t, ToScan(p, t)
  PROVE  /\ DOMAIN scan' = Process /\ scan'[p] = t
         /\ \A q \in Process \ {p} : scan'[q] = scan[q]
BY DEF ToScan

\* A scan that begins has done nothing yet.
LEMMA LaunchIsFresh ==
  ASSUME DOMAIN scan = Process, NEW p \in Process, NEW dry \in BOOLEAN, NEW options, NEW llm,
         Launch(p, dry, options, llm)
  PROVE  /\ ScanOK(scan'[p]) /\ scan'[p].pc = "policy" /\ scan'[p].dry = dry
         /\ \A i, b : ScanIntake(scan'[p], i, b)
         /\ DOMAIN scan' = Process /\ \A q \in Process \ {p} : scan'[q] = scan[q]
<1> DEFINE t == [NoScan EXCEPT !.pc = "policy", !.dry = dry, !.options = options, !.llm = llm]
<1>1. ToScan(p, t)
  BY DEF Launch
<1>2. /\ DOMAIN t = DOMAIN NoScan /\ t.pc = "policy" /\ t.dry = dry /\ t.asked = {} /\ ~t.sent
      /\ t.sent = FALSE
      /\ t.recorded = {} /\ t.failed = {}
  BY DEF NoScan
<1> HIDE DEF t
<1>3. ScanOK(t)
  BY <1>2 DEF ScanOK, Unasked, Unrecorded
<1>4. \A i, b : ScanIntake(t, i, b)
  BY <1>2 DEF ScanIntake, Recording
<1> QED BY <1>1, <1>2, <1>3, <1>4, ToScanSets

\* A recording is made only of a snapshot that its store accepts.
LEMMA Accepted ==
  ASSUME NEW i, ~Refuses("baseline", i)
  PROVE  i.now = NoGit \/ ~i.now.dirty
BY DEF Refuses

(***************************************************************************)
(* A step of a recording settles it, and only it.                          *)
(***************************************************************************)
LEMMA RecordSettles ==
  ASSUME DOMAIN scan = Process, NEW p \in Process, NEW what \in Recordings, RecordOne(p, what),
         ScanOK(scan[p]), ScanIntake(scan[p], intake[p], baselines)
  PROVE  /\ ScanOK(scan'[p]) /\ ScanIntake(scan'[p], intake[p], baselines')
         /\ baselines \subseteq baselines'
         /\ scan'[p].pc \notin {"idle", "profile", "policy", "intake", "options"}
         /\ scan'[p].dry = scan[p].dry /\ scan'[p].asked = scan[p].asked
         /\ DOMAIN scan' = Process /\ \A q \in Process \ {p} : scan'[q] = scan[q]
<1> DEFINE s == scan[p]
<1>1. /\ s.pc = what /\ DOMAIN s = DOMAIN NoScan /\ ~s.dry
      /\ s.recorded \cup s.failed \subseteq s.asked /\ s.recorded \cap s.failed = {}
  BY DEF RecordOne, ScanOK, Recordings
<1>2. what \in {"validation", "baseline", "trend"}
  BY DEF Recordings
<1>3. what \notin s.recorded \cup s.failed
  BY <1>1, <1>2 DEF ScanOK, Unrecorded
<1>4. /\ NextOf["validation"] = "baseline" /\ NextOf["baseline"] = "trend" /\ NextOf["trend"] = "end"
      /\ AfterFailure("validation") = "baseline" /\ AfterFailure("baseline") = "error"
      /\ AfterFailure("trend") = "error"
  BY DEF NextOf, AfterFailure
<1>5. CASE what \notin s.asked
  <2> DEFINE t == [s EXCEPT !.pc = NextOf[what]]
  <2>1. ToScan(p, t) /\ baselines' = baselines
    BY <1>5 DEF RecordOne
  <2>2. /\ t.pc = NextOf[what] /\ DOMAIN t = DOMAIN s /\ t.asked = s.asked /\ t.dry = s.dry
        /\ t.sent = s.sent /\ t.recorded = s.recorded /\ t.failed = s.failed
    BY <1>1, ScanFields
  <2> HIDE DEF t
  <2>3. ScanOK(t)
    <3>1. CASE what = "validation"
      BY <1>1, <1>4, <1>5, <2>2, <3>1 DEF ScanOK, Unasked, Unrecorded, Recordings
    <3>2. CASE what = "baseline"
      BY <1>1, <1>4, <1>5, <2>2, <3>2 DEF ScanOK, Unasked, Unrecorded, Recordings
    <3>3. CASE what = "trend"
      BY <1>1, <1>4, <1>5, <2>2, <3>3 DEF ScanOK, Unasked, Unrecorded, Recordings
    <3> QED BY <1>2, <3>1, <3>2, <3>3
  <2>4. ScanIntake(t, intake[p], baselines)
    BY <1>1, <1>2, <2>2 DEF ScanIntake, Recording
  <2>5. t.pc \notin {"idle", "profile", "policy", "intake", "options"}
    BY <1>2, <1>4, <2>2
  <2> QED BY <2>1, <2>2, <2>3, <2>4, <2>5, ToScanSets
<1>6. CASE /\ what \in s.asked
           /\ ToScan(p, [s EXCEPT !.pc = AfterFailure(what), !.failed = @ \cup {what}])
           /\ UNCHANGED baselines
  <2> DEFINE t == [s EXCEPT !.pc = AfterFailure(what), !.failed = @ \cup {what}]
  <2>1. ToScan(p, t) /\ baselines' = baselines
    BY <1>6
  <2>2. /\ t.pc = AfterFailure(what) /\ DOMAIN t = DOMAIN s /\ t.asked = s.asked /\ t.dry = s.dry
        /\ t.sent = s.sent /\ t.recorded = s.recorded
        /\ t.failed = s.failed \cup {what}
    BY <1>1, ScanFields
  <2> HIDE DEF t
  <2>3. ScanOK(t)
    <3>1. CASE what = "validation"
      BY <1>1, <1>3, <1>4, <1>6, <2>2, <3>1 DEF ScanOK, Unasked, Unrecorded, Recordings
    <3>2. CASE what = "baseline"
      BY <1>1, <1>3, <1>4, <1>6, <2>2, <3>2 DEF ScanOK, Unasked, Unrecorded, Recordings
    <3>3. CASE what = "trend"
      BY <1>1, <1>3, <1>4, <1>6, <2>2, <3>3 DEF ScanOK, Unasked, Unrecorded, Recordings
    <3> QED BY <1>2, <3>1, <3>2, <3>3
  <2>4. ScanIntake(t, intake[p], baselines)
    BY <1>1, <1>2, <2>2 DEF ScanIntake, Recording
  <2>5. t.pc \notin {"idle", "profile", "policy", "intake", "options"}
    BY <1>2, <1>4, <2>2
  <2> QED BY <2>1, <2>2, <2>3, <2>4, <2>5, ToScanSets
<1>7. CASE /\ what \in s.asked /\ ~Refuses(what, intake[p])
           /\ ToScan(p, [s EXCEPT !.pc = NextOf[what], !.recorded = @ \cup {what}])
           /\ baselines' = IF what = "baseline" THEN baselines \cup {intake[p].cfg} ELSE baselines
  <2> DEFINE t == [s EXCEPT !.pc = NextOf[what], !.recorded = @ \cup {what}]
  <2>1. ToScan(p, t) /\ baselines \subseteq baselines'
    BY <1>7
  <2>2. /\ t.pc = NextOf[what] /\ DOMAIN t = DOMAIN s /\ t.asked = s.asked /\ t.dry = s.dry
        /\ t.sent = s.sent /\ t.recorded = s.recorded \cup {what}
        /\ t.failed = s.failed
    BY <1>1, ScanFields
  <2> HIDE DEF t
  <2>3. ScanOK(t)
    BY <1>1, <1>2, <1>3, <1>4, <1>7, <2>2 DEF ScanOK, Unasked, Unrecorded, Recordings
  <2>4. intake[p].pc = "done"
    BY <1>1, <1>2 DEF ScanIntake, Recording
  <2>5. what = "baseline" => intake[p].cfg \in baselines' /\ (intake[p].now = NoGit \/ ~intake[p].now.dirty)
    BY <1>7, Accepted
  <2>6. ScanIntake(t, intake[p], baselines')
    BY <2>1, <2>2, <2>4, <2>5 DEF ScanIntake
  <2>7. t.pc \notin {"idle", "profile", "policy", "intake", "options"}
    BY <1>2, <1>4, <2>2
  <2> QED BY <2>1, <2>2, <2>3, <2>6, <2>7, ToScanSets
<1> QED BY <1>5, <1>6, <1>7 DEF RecordOne

\* What a setup may rely on when the scan it runs takes a step.
Follows(c, d, wishes) ==
  \/ c = d
  \/ c.pc = "profile"
  \/ /\ c.pc \notin {"idle", "ok", "error"} /\ d.pc \notin {"idle", "profile"} /\ d.dry = c.dry
     /\ \/ c.dry \/ d.pc \in {"policy", "intake", "options", "error"}
        \/ d.asked \in wishes
        \/ c.pc \notin {"policy", "intake", "options", "error"} /\ d.asked = c.asked

\* What a step of the scan of p comes to.
ScanKept(p, wishes) ==
  /\ ScanOK(scan'[p]) /\ ScanIntake(scan'[p], intake'[p], baselines')
  /\ baselines \subseteq baselines' /\ Follows(scan[p], scan'[p], wishes)
  /\ DOMAIN scan' = Process /\ \A q \in Process \ {p} : scan'[q] = scan[q]

\* A scan that only moves on, or fails, keeps what it has.
LEMMA MovesOn ==
  ASSUME DOMAIN scan = Process, NEW p \in Process, ScanOK(scan[p]),
         ScanIntake(scan[p], intake[p], baselines), UNCHANGED baselines,
         NEW pc, ToScan(p, [scan[p] EXCEPT !.pc = pc]), NEW wishes,
         \/ scan[p].pc = "profile" /\ pc = "error" /\ UNCHANGED intake
         \/ scan[p].pc = "policy" /\ pc = "error" /\ UNCHANGED intake
         \/ scan[p].pc = "intake" /\ pc \in {"error", "options"} /\ UNCHANGED intake
            /\ ~scan[p].dry /\ (pc = "options" => intake[p].pc = "done")
         \/ scan[p].pc = "intake" /\ pc \in {"error", "ok"} /\ UNCHANGED intake /\ scan[p].dry
         \/ scan[p].pc = "options" /\ pc = "error" /\ UNCHANGED intake
         \/ scan[p].pc = "diagnose" /\ pc \in {"output", "error"} /\ UNCHANGED intake
         \/ scan[p].pc = "output" /\ pc \in {"validation", "error"} /\ UNCHANGED intake
         \/ scan[p].pc = "end" /\ UNCHANGED intake
            /\ pc = (IF scan[p].failed = {} THEN "ok" ELSE "error")
  PROVE  ScanKept(p, wishes)
<1> DEFINE s == scan[p]
           t == [s EXCEPT !.pc = pc]
<1>1. DOMAIN s = DOMAIN NoScan /\ ToScan(p, t)
  BY DEF ScanOK
<1>2. /\ t.pc = pc /\ DOMAIN t = DOMAIN s /\ t.asked = s.asked /\ t.dry = s.dry
      /\ t.sent = s.sent /\ t.recorded = s.recorded
      /\ t.failed = s.failed
  BY <1>1, ScanFields
<1> HIDE DEF t
<1>3. ScanOK(t) /\ ScanIntake(t, intake'[p], baselines') /\ Follows(s, t, wishes)
  <2>1. CASE s.pc \in {"profile", "policy"}
    BY <1>2, <2>1 DEF ScanOK, ScanIntake, Follows, Unasked, Unrecorded, Recording
  <2>2. CASE s.pc = "intake"
    BY <1>2, <2>2 DEF ScanOK, ScanIntake, Follows, Unasked, Unrecorded, Recording
  <2>3. CASE s.pc = "options"
    BY <1>2, <2>3 DEF ScanOK, ScanIntake, Follows, Unasked, Unrecorded, Recording
  <2>4. CASE s.pc = "diagnose"
    BY <1>2, <2>4 DEF ScanOK, ScanIntake, Follows, Unasked, Unrecorded, Recording
  <2>5. CASE s.pc = "output"
    BY <1>2, <2>5 DEF ScanOK, ScanIntake, Follows, Unasked, Unrecorded, Recording
  <2>6. CASE s.pc = "end" /\ s.failed = {}
    BY <1>2, <2>6 DEF ScanOK, ScanIntake, Follows, Unasked, Unrecorded, Recording
  <2>7. CASE s.pc = "end" /\ s.failed # {}
    <3>1. pc = "error" /\ s.asked \ (s.recorded \cup s.failed) = {}
      BY <2>7 DEF ScanOK
    <3> QED BY <1>2, <2>7, <3>1 DEF ScanOK, ScanIntake, Follows, Unasked, Unrecorded, Recording
  <2> QED BY <2>1, <2>2, <2>3, <2>4, <2>5, <2>6, <2>7
<1> QED BY <1>1, <1>3, ToScanSets DEF ScanKept

LEMMA DiagnoseKeeps ==
  ASSUME DOMAIN scan = Process, NEW p \in Process, ScanOK(scan[p]),
         ScanIntake(scan[p], intake[p], baselines), Diagnose(p), NEW wishes
  PROVE  ScanKept(p, wishes)
<1> DEFINE s == scan[p]
<1>1. s.pc = "diagnose" /\ UNCHANGED <<intake, baselines>> /\ DOMAIN s = DOMAIN NoScan
  BY DEF Diagnose, ScanOK
<1>2. CASE \E pc \in {"output", "error"} : ToScan(p, [s EXCEPT !.pc = pc])
  BY <1>1, <1>2, MovesOn
<1>3. ASSUME NEW pc \in {"output", "error"}, NEW prompt, NEW semantic,
             ToScan(p, [s EXCEPT !.pc = pc, !.sent = TRUE, !.prompt = prompt,
                                 !.semantic = semantic])
      PROVE  ScanKept(p, wishes)
  <2> DEFINE t == [s EXCEPT !.pc = pc, !.sent = TRUE, !.prompt = prompt, !.semantic = semantic]
  <2>1. ToScan(p, t)
    BY <1>3
  <2>2. /\ t.pc = pc /\ DOMAIN t = DOMAIN s /\ t.asked = s.asked /\ t.dry = s.dry
        /\ t.sent = TRUE /\ t.recorded = s.recorded /\ t.failed = s.failed
    BY <1>1, ScanFields
  <2> HIDE DEF t
  <2>3. ScanOK(t)
    BY <1>1, <1>3, <2>2 DEF ScanOK, Unasked, Unrecorded
  <2>4. intake[p].pc = "done"
    BY <1>1 DEF ScanIntake, Recording
  <2>5. ScanIntake(t, intake[p], baselines)
    BY <1>1, <2>2, <2>4 DEF ScanIntake, ScanOK, Unrecorded, Unasked
  <2>6. Follows(s, t, wishes)
    BY <1>1, <1>3, <2>2 DEF Follows
  <2> QED BY <1>1, <2>1, <2>3, <2>5, <2>6, ToScanSets DEF ScanKept
<1> QED BY <1>2, <1>3 DEF Diagnose

LEMMA ParseOptionsKeeps ==
  ASSUME DOMAIN scan = Process, NEW p \in Process, ScanOK(scan[p]),
         ScanIntake(scan[p], intake[p], baselines),
         NEW wishes \in SUBSET (SUBSET Recordings), ParseOptions(p, wishes)
  PROVE  ScanKept(p, wishes)
<1> DEFINE s == scan[p]
<1>1. s.pc = "options" /\ UNCHANGED <<intake, baselines>> /\ DOMAIN s = DOMAIN NoScan /\ ~s.dry
  BY DEF ParseOptions, ScanOK
<1>2. CASE ToScan(p, [s EXCEPT !.pc = "error"])
  BY <1>1, <1>2, MovesOn
<1>3. ASSUME NEW asked \in wishes, ToScan(p, [s EXCEPT !.pc = "diagnose", !.asked = asked])
      PROVE  ScanKept(p, wishes)
  <2> DEFINE t == [s EXCEPT !.pc = "diagnose", !.asked = asked]
  <2>1. ToScan(p, t)
    BY <1>3
  <2>2. /\ t.pc = "diagnose" /\ DOMAIN t = DOMAIN s /\ t.asked = asked /\ t.dry = s.dry
        /\ t.sent = s.sent /\ t.recorded = s.recorded
        /\ t.failed = s.failed
    BY <1>1, ScanFields
  <2> HIDE DEF t
  <2>3. ScanOK(t)
    BY <1>1, <2>2 DEF ScanOK, Unasked, Unrecorded
  <2>4. ScanIntake(t, intake[p], baselines) /\ Follows(s, t, wishes)
    BY <1>1, <2>2 DEF ScanIntake, Recording, Follows
  <2> QED BY <1>1, <2>1, <2>3, <2>4, ToScanSets DEF ScanKept
<1> QED BY <1>2, <1>3 DEF ParseOptions

LEMMA ParsePolicyKeeps ==
  ASSUME DOMAIN scan = Process, NEW p \in Process, ScanOK(scan[p]),
         ScanIntake(scan[p], intake[p], baselines), NEW units, NEW wishes, ParsePolicy(p, units)
  PROVE  ScanKept(p, wishes)
<1> DEFINE s == scan[p]
<1>1. s.pc = "policy" /\ UNCHANGED baselines /\ DOMAIN s = DOMAIN NoScan
  BY DEF ParsePolicy, ScanOK
<1>2. CASE ToScan(p, [s EXCEPT !.pc = "error"]) /\ UNCHANGED intake
  BY <1>1, <1>2, MovesOn
<1>3. ASSUME NEW policy, ToScan(p, [s EXCEPT !.pc = "intake", !.policy = policy])
      PROVE  ScanKept(p, wishes)
  <2> DEFINE t == [s EXCEPT !.pc = "intake", !.policy = policy]
  <2>1. ToScan(p, t)
    BY <1>3
  <2>2. /\ t.pc = "intake" /\ DOMAIN t = DOMAIN s /\ t.asked = s.asked /\ t.dry = s.dry
        /\ t.sent = s.sent /\ t.recorded = s.recorded
        /\ t.failed = s.failed
    BY <1>1, ScanFields
  <2>3. ~t.sent /\ t.recorded = {} /\ t.asked = {}
    BY <1>1, <2>2 DEF ScanOK, Unasked, Unrecorded
  <2> HIDE DEF t
  <2>4. ScanOK(t)
    BY <1>1, <2>2 DEF ScanOK, Unasked, Unrecorded
  <2>5. ScanIntake(t, intake'[p], baselines') /\ Follows(s, t, wishes)
    BY <1>1, <2>2, <2>3 DEF ScanIntake, Recording, Follows
  <2> QED BY <1>1, <2>1, <2>4, <2>5, ToScanSets DEF ScanKept
<1> QED BY <1>2, <1>3 DEF ParsePolicy

\* Nothing rests on an intake that still takes steps.
LEMMA IntakeStepMoves ==
  ASSUME DOMAIN intake = Process, NEW p \in Process, IntakeStep(p)
  PROVE  intake[p].pc # "done" /\ \A q \in Process \ {p} : intake'[q] = intake[q]
<1>1. ASSUME NEW j, Become(p, j) PROVE \A q \in Process \ {p} : intake'[q] = intake[q]
  BY <1>1 DEF Become
<1>2. CASE ReadFails(p) \/ WalkFails(p) \/ EnterDir(p) \/ SkipEntry(p) \/ ReadSource(p)
  BY <1>1, <1>2 DEF ReadFails, WalkFails, EnterDir, SkipEntry, ReadSource, Visit, Fail
<1>3. CASE Uninspected(p) \/ ReadHead(p) \/ ReadStatus(p) \/ ReadTracked(p)
  BY <1>1, <1>3 DEF Uninspected, ReadHead, ReadStatus, ReadTracked
<1>4. CASE WalkRoot(p) \/ Truncate(p) \/ WalkDone(p) \/ CompareGit(p)
  BY <1>1, <1>4 DEF WalkRoot, Truncate, WalkDone, CompareGit, Fail
<1> QED BY <1>2, <1>3, <1>4 DEF IntakeStep

LEMMA IntakeStepKeeps ==
  ASSUME DOMAIN scan = Process, DOMAIN intake = Process, NEW p \in Process, ScanOK(scan[p]),
         ScanIntake(scan[p], intake[p], baselines), NEW wishes, IntakeStep(p),
         UNCHANGED <<profile, baselines, scan>>
  PROVE  ScanKept(p, wishes)
<1> DEFINE s == scan[p]
<1>1. intake[p].pc # "done"
  BY IntakeStepMoves
<1>2. s.pc \notin Recording /\ ~s.sent /\ "baseline" \notin s.recorded
  BY <1>1 DEF ScanIntake
<1>3. ScanIntake(s, intake'[p], baselines)
  BY <1>2 DEF ScanIntake
<1> QED BY <1>3 DEF ScanKept, Follows

LEMMA ScanKeeps ==
  ASSUME DOMAIN scan = Process, DOMAIN intake = Process, NEW p \in Process, ScanOK(scan[p]),
         ScanIntake(scan[p], intake[p], baselines), NEW units,
         NEW wishes \in SUBSET (SUBSET Recordings), ScanStep(p, units, wishes)
  PROVE  ScanKept(p, wishes)
<1> DEFINE s == scan[p]
<1>1. CASE LoadProfile(p)
  <2>1. s.pc = "profile" /\ UNCHANGED <<intake, baselines>>
    BY <1>1 DEF LoadProfile
  <2>2. CASE ToScan(p, [s EXCEPT !.pc = "error"])
    BY <2>1, <2>2, MovesOn
  <2>3. ASSUME NEW dry \in BOOLEAN, NEW options \in Options, NEW llm, Launch(p, dry, options, llm)
        PROVE  ScanKept(p, wishes)
    BY <2>1, <2>3, LaunchIsFresh DEF ScanKept, Follows
  <2> QED BY <1>1, <2>2, <2>3 DEF LoadProfile
<1>2. CASE ParsePolicy(p, units)
  BY <1>2, ParsePolicyKeeps
<1>3. CASE IntakeEnds(p)
  <2>1. s.pc = "intake" /\ intake[p].pc \in {"done", "failed"} /\ UNCHANGED <<intake, baselines>>
        /\ s.dry \in BOOLEAN
    BY <1>3 DEF IntakeEnds, ScanOK
  <2>2. CASE intake[p].pc = "failed"
    <3>1. ToScan(p, [s EXCEPT !.pc = "error"])
      BY <1>3, <2>2 DEF IntakeEnds
    <3> QED BY <2>1, <3>1, MovesOn
  <2>3. CASE intake[p].pc = "done" /\ s.dry
    <3>1. \E pc \in {"ok", "error"} : ToScan(p, [s EXCEPT !.pc = pc])
      BY <1>3, <2>3 DEF IntakeEnds
    <3> QED BY <2>1, <2>3, <3>1, MovesOn
  <2>4. CASE intake[p].pc = "done" /\ ~s.dry
    <3>1. ToScan(p, [s EXCEPT !.pc = "options"])
      BY <1>3, <2>4 DEF IntakeEnds
    <3> QED BY <2>1, <2>4, <3>1, MovesOn
  <2> QED BY <2>1, <2>2, <2>3, <2>4
<1>4. CASE ParseOptions(p, wishes)
  BY <1>4, ParseOptionsKeeps
<1>5. CASE Diagnose(p)
  BY <1>5, DiagnoseKeeps
<1>6. CASE Output(p)
  <2>1. s.pc = "output" /\ UNCHANGED <<intake, baselines>>
        /\ \E pc \in {"validation", "error"} : ToScan(p, [s EXCEPT !.pc = pc])
    BY <1>6 DEF Output
  <2> QED BY <2>1, MovesOn
<1>7. CASE End(p)
  <2>1. s.pc = "end" /\ UNCHANGED <<intake, baselines>>
        /\ ToScan(p, [s EXCEPT !.pc = IF s.failed = {} THEN "ok" ELSE "error"])
    BY <1>7 DEF End
  <2> QED BY <2>1, MovesOn
<1>8. ASSUME NEW what \in Recordings, RecordOne(p, what)
      PROVE  ScanKept(p, wishes)
  <2>1. s.pc \notin {"idle", "ok", "error", "policy", "intake", "options"} /\ UNCHANGED intake
    BY <1>8 DEF RecordOne, Recordings
  <2> QED BY <1>8, <2>1, RecordSettles DEF ScanKept, Follows
<1>9. CASE IntakeStep(p) /\ UNCHANGED <<profile, baselines, scan>>
  BY <1>9, IntakeStepKeeps
<1> QED BY <1>1, <1>2, <1>3, <1>4, <1>5, <1>6, <1>7, <1>8, <1>9 DEF ScanStep

-----------------------------------------------------------------------------
(* The setups.                                                             *)

LEMMA SetupFields ==
  DOMAIN NoSetup = {"pc", "yes", "dry", "force", "exists", "scanWanted", "baselineWanted",
                    "provider", "model", "keep", "merged", "skipped", "written",
                    "profileWritten", "scanRan", "baselineSaved", "blocked", "shared", "errors"}
BY DEF NoSetup

\* What a step of the setup of p comes to.
SetupKept(p) ==
  /\ SetupOK(setup'[p]) /\ SetupScan(setup'[p], scan'[p])
  /\ DOMAIN setup' = Process /\ \A q \in Process \ {p} : setup'[q] = setup[q]
  /\ setup[p].errors \subseteq setup'[p].errors
  /\ setup[p].shared => setup'[p].shared
  /\ setup'[p].pc = "truncate" => setup[p].pc = "provider"
  /\ setup'[p].pc = "fill" => setup[p].pc = "truncate"

LEMMA ToSetupSets ==
  ASSUME DOMAIN setup = Process, NEW p \in Process, NEW t, ToSetup(p, t)
  PROVE  /\ DOMAIN setup' = Process /\ setup'[p] = t
         /\ \A q \in Process \ {p} : setup'[q] = setup[q]
BY DEF ToSetup

\* A setup that runs no scan yet only needs to keep what it says itself.
LEMMA SetupMoves ==
  ASSUME DOMAIN setup = Process, NEW p \in Process, NEW t, ToSetup(p, t), SetupOK(t),
         SetupScan(setup[p], scan[p]), UNCHANGED scan,
         setup[p].pc \notin {"idle", "scanning", "done"}, t.pc \notin {"idle", "scanning", "done"},
         setup[p].errors \subseteq t.errors, setup[p].shared => t.shared,
         t.pc = "truncate" => setup[p].pc = "provider", t.pc = "fill" => setup[p].pc = "truncate"
  PROVE  SetupKept(p)
BY ToSetupSets DEF SetupKept, SetupScan

LEMMA StartKeeps ==
  ASSUME DOMAIN setup = Process, NEW p \in Process, SetupOK(setup[p]),
         SetupScan(setup[p], scan[p]), Start(p)
  PROVE  SetupKept(p)
<1> DEFINE s == setup[p]
<1>1. s.pc = "start" /\ UNCHANGED scan /\ DOMAIN s = DOMAIN NoSetup
  BY DEF Start, SetupOK
<1>2. PICK yes \in BOOLEAN, dry \in BOOLEAN, force \in BOOLEAN, wanted \in BOOLEAN, save \in BOOLEAN :
        ToSetup(p, [s EXCEPT
          !.pc = IF save /\ ~wanted THEN "thrown" ELSE IF yes THEN "look" ELSE "ask",
          !.yes = yes, !.dry = dry, !.force = force,
          !.scanWanted = yes /\ wanted, !.baselineWanted = yes /\ save])
  BY DEF Start
<1> DEFINE pc == IF save /\ ~wanted THEN "thrown" ELSE IF yes THEN "look" ELSE "ask"
           scanWanted == yes /\ wanted
           baselineWanted == yes /\ save
           t == [s EXCEPT !.pc = pc, !.yes = yes, !.dry = dry, !.force = force,
                 !.scanWanted = scanWanted, !.baselineWanted = baselineWanted]
<1>4. ToSetup(p, t)
  BY <1>2
<1>6. pc \in {"thrown", "look", "ask"} /\ scanWanted \in BOOLEAN /\ baselineWanted \in BOOLEAN
  OBVIOUS
<1> HIDE DEF pc, scanWanted, baselineWanted
<1>3. /\ DOMAIN t = DOMAIN s /\ t.pc = pc /\ t.dry = dry /\ t.scanWanted = scanWanted
      /\ t.baselineWanted = baselineWanted /\ t.provider = s.provider /\ t.model = s.model
      /\ t.skipped = s.skipped /\ t.written = s.written /\ t.scanRan = s.scanRan /\ t.shared = s.shared
      /\ t.baselineSaved = s.baselineSaved /\ t.errors = s.errors
  BY <1>1, SetupFields
<1> HIDE DEF t
<1>5. SetupOK(t)
  BY <1>1, <1>3, <1>6 DEF SetupOK, Asking, Settled
<1> QED BY <1>1, <1>6, <1>3, <1>4, <1>5, SetupMoves

LEMMA AskKeeps ==
  ASSUME DOMAIN setup = Process, NEW p \in Process, SetupOK(setup[p]),
         SetupScan(setup[p], scan[p]), Ask(p)
  PROVE  SetupKept(p)
<1> DEFINE s == setup[p]
<1>1. s.pc = "ask" /\ UNCHANGED scan /\ DOMAIN s = DOMAIN NoSetup
  BY DEF Ask, SetupOK
<1>2. CASE ToSetup(p, [s EXCEPT !.pc = "thrown"])
  <2> DEFINE t == [s EXCEPT !.pc = "thrown"]
  <2>1. /\ DOMAIN t = DOMAIN s /\ t.pc = "thrown" /\ t.dry = s.dry /\ t.scanWanted = s.scanWanted
        /\ t.baselineWanted = s.baselineWanted /\ t.provider = s.provider /\ t.model = s.model
        /\ t.skipped = s.skipped /\ t.written = s.written /\ t.scanRan = s.scanRan /\ t.shared = s.shared
        /\ t.baselineSaved = s.baselineSaved /\ t.errors = s.errors
    BY <1>1, SetupFields
  <2>2. ToSetup(p, t)
    BY <1>2
  <2> HIDE DEF t
  <2>3. SetupOK(t)
    BY <1>1, <2>1 DEF SetupOK, Asking, Settled
  <2> QED BY <1>1, <2>1, <2>2, <2>3, SetupMoves
<1> DEFINE exists == tree[Config] # NoFile
<1>3. CASE \E yes, keep \in BOOLEAN, provider \in Provider \cup {Unset}, model \in Model \cup {Unset} :
             /\ (exists /\ s.force) \/ (~exists /\ s.dry) => ~yes
             /\ provider = Unset => ~keep /\ model = Unset
             /\ LET dry == s.dry \/ (~exists /\ ~s.dry /\ ~yes)
                IN ToSetup(p, [s EXCEPT
                     !.pc = IF dry THEN "look" ELSE "askScan", !.exists = exists,
                     !.force = @ \/ (exists /\ yes), !.dry = dry,
                     !.provider = provider, !.model = model, !.keep = keep])
  <2>1. PICK yes \in BOOLEAN, keep \in BOOLEAN, provider \in Provider \cup {Unset}, model \in Model \cup {Unset} :
             /\ (exists /\ s.force) \/ (~exists /\ s.dry) => ~yes
             /\ provider = Unset => ~keep /\ model = Unset
             /\ LET dry == s.dry \/ (~exists /\ ~s.dry /\ ~yes)
                IN ToSetup(p, [s EXCEPT
                     !.pc = IF dry THEN "look" ELSE "askScan", !.exists = exists,
                     !.force = @ \/ (exists /\ yes), !.dry = dry,
                     !.provider = provider, !.model = model, !.keep = keep])
    BY <1>3
  <2> DEFINE dry == s.dry \/ (~exists /\ ~s.dry /\ ~yes)
             pc == IF dry THEN "look" ELSE "askScan"
             force == s.force \/ (exists /\ yes)
             t == [s EXCEPT !.pc = pc, !.exists = exists, !.force = force, !.dry = dry,
                            !.provider = provider, !.model = model, !.keep = keep]
  <2>2. ToSetup(p, t)
    BY <2>1
  <2>3. dry \in BOOLEAN /\ pc \in {"look", "askScan"}
    OBVIOUS
  <2> HIDE DEF dry, pc, force
  <2>4. /\ DOMAIN t = DOMAIN s /\ t.pc = pc /\ t.dry = dry /\ t.scanWanted = s.scanWanted
        /\ t.baselineWanted = s.baselineWanted /\ t.provider = provider /\ t.model = model
        /\ t.skipped = s.skipped /\ t.written = s.written /\ t.scanRan = s.scanRan /\ t.shared = s.shared
        /\ t.baselineSaved = s.baselineSaved /\ t.errors = s.errors
    BY <1>1, SetupFields
  <2> HIDE DEF t
  <2>5. SetupOK(t)
    BY <1>1, <2>3, <2>4 DEF SetupOK, Asking, Settled
  <2> QED BY <1>1, <2>2, <2>3, <2>4, <2>5, SetupMoves
<1> QED BY <1>2, <1>3 DEF Ask

LEMMA AskScanKeeps ==
  ASSUME DOMAIN setup = Process, NEW p \in Process, SetupOK(setup[p]),
         SetupScan(setup[p], scan[p]), AskScan(p)
  PROVE  SetupKept(p)
<1> DEFINE s == setup[p]
<1>1. s.pc = "askScan" /\ UNCHANGED scan /\ DOMAIN s = DOMAIN NoSetup
  BY DEF AskScan, SetupOK
<1>2. PICK wanted \in BOOLEAN, save \in BOOLEAN :
        \/ ToSetup(p, [s EXCEPT !.pc = "look"]) /\ wanted = s.scanWanted /\ save = s.baselineWanted
        \/ ToSetup(p, [s EXCEPT !.pc = "look", !.scanWanted = wanted, !.baselineWanted = save])
  BY DEF AskScan, SetupOK
<1> DEFINE t == [s EXCEPT !.pc = "look", !.scanWanted = wanted, !.baselineWanted = save]
<1>3. /\ DOMAIN t = DOMAIN s /\ t.pc = "look" /\ t.dry = s.dry /\ t.scanWanted = wanted
      /\ t.baselineWanted = save /\ t.provider = s.provider /\ t.model = s.model
      /\ t.skipped = s.skipped /\ t.written = s.written /\ t.scanRan = s.scanRan /\ t.shared = s.shared
      /\ t.baselineSaved = s.baselineSaved /\ t.errors = s.errors
  BY <1>1, SetupFields
<1>4. ToSetup(p, t)
  <2>1. [s EXCEPT !.pc = "look"]
          = [s EXCEPT !.pc = "look", !.scanWanted = s.scanWanted, !.baselineWanted = s.baselineWanted]
    BY <1>1, SetupFields
  <2> QED BY <1>2, <2>1
<1> HIDE DEF t
<1>5. SetupOK(t)
  BY <1>1, <1>3 DEF SetupOK, Asking, Settled
<1> QED BY <1>1, <1>3, <1>4, <1>5, SetupMoves

LEMMA LookAtConfigKeeps ==
  ASSUME DOMAIN setup = Process, NEW p \in Process, SetupOK(setup[p]),
         SetupScan(setup[p], scan[p]), LookAtConfig(p)
  PROVE  SetupKept(p)
<1> DEFINE s == setup[p]
<1>1. s.pc = "look" /\ UNCHANGED scan /\ DOMAIN s = DOMAIN NoSetup
  BY DEF LookAtConfig, SetupOK
<1> DEFINE exists == tree[Config] # NoFile
           skipped == exists /\ ~s.force
           pc == IF skipped THEN "provider" ELSE "count"
<1>2. ToSetup(p, [s EXCEPT !.exists = exists, !.skipped = skipped, !.pc = pc])
  BY DEF LookAtConfig
<1>3. skipped \in BOOLEAN /\ (skipped => pc = "provider") /\ (~skipped => pc = "count")
  OBVIOUS
<1> HIDE DEF exists, skipped, pc
<1> DEFINE t == [s EXCEPT !.exists = exists, !.skipped = skipped, !.pc = pc]
<1>4. /\ DOMAIN t = DOMAIN s /\ t.pc = pc /\ t.dry = s.dry
      /\ t.scanWanted = s.scanWanted /\ t.baselineWanted = s.baselineWanted
      /\ t.provider = s.provider /\ t.model = s.model /\ t.skipped = skipped
      /\ t.written = s.written /\ t.scanRan = s.scanRan /\ t.shared = s.shared
      /\ t.baselineSaved = s.baselineSaved /\ t.errors = s.errors
  BY <1>1, SetupFields
<1>5. ToSetup(p, t)
  BY <1>2
<1> HIDE DEF t
<1>6. SetupOK(t)
  BY <1>1, <1>3, <1>4 DEF SetupOK, Asking, Settled
<1> QED BY <1>1, <1>3, <1>4, <1>5, <1>6, SetupMoves

LEMMA CountBaselinesKeeps ==
  ASSUME DOMAIN setup = Process, NEW p \in Process, SetupOK(setup[p]),
         SetupScan(setup[p], scan[p]), CountBaselines(p)
  PROVE  SetupKept(p)
<1> DEFINE s == setup[p]
<1>1. s.pc = "count" /\ UNCHANGED scan /\ DOMAIN s = DOMAIN NoSetup
  BY DEF CountBaselines, SetupOK
<1>2. CASE baselines # {} /\ ~s.force
  <2> DEFINE t == [Error(s, "baselines exist") EXCEPT !.pc = "provider"]
  <2>1. /\ DOMAIN t = DOMAIN s /\ t.pc = "provider" /\ t.dry = s.dry
        /\ t.scanWanted = s.scanWanted /\ t.baselineWanted = s.baselineWanted
        /\ t.provider = s.provider /\ t.model = s.model /\ t.skipped = s.skipped
        /\ t.written = s.written /\ t.scanRan = s.scanRan /\ t.shared = s.shared
        /\ t.baselineSaved = s.baselineSaved
        /\ t.errors = s.errors \cup {"baselines exist"}
    BY <1>1, SetupFields DEF Error
  <2>2. ToSetup(p, t)
    BY <1>2 DEF CountBaselines
  <2> HIDE DEF t
  <2>3. SetupOK(t)
    BY <1>1, <2>1 DEF SetupOK, Asking, Settled
  <2> QED BY <1>1, <2>1, <2>2, <2>3, SetupMoves
<1>3. CASE ~(baselines # {} /\ ~s.force) /\ s.dry
  <2> DEFINE t == [s EXCEPT !.pc = "provider"]
  <2>1. /\ DOMAIN t = DOMAIN s /\ t.pc = "provider" /\ t.dry = s.dry
        /\ t.scanWanted = s.scanWanted /\ t.baselineWanted = s.baselineWanted
        /\ t.provider = s.provider /\ t.model = s.model /\ t.skipped = s.skipped
        /\ t.written = s.written /\ t.scanRan = s.scanRan /\ t.shared = s.shared
        /\ t.baselineSaved = s.baselineSaved /\ t.errors = s.errors
    BY <1>1, SetupFields
  <2>2. ToSetup(p, t)
    BY <1>3 DEF CountBaselines
  <2> HIDE DEF t
  <2>3. SetupOK(t)
    BY <1>1, <1>3, <2>1 DEF SetupOK, Asking, Settled
  <2> QED BY <1>1, <1>3, <2>1, <2>2, <2>3, SetupMoves
<1>4. CASE ~(baselines # {} /\ ~s.force) /\ ~s.dry
  <2> DEFINE t == [s EXCEPT !.pc = "write"]
  <2>1. /\ DOMAIN t = DOMAIN s /\ t.pc = "write" /\ t.dry = s.dry
        /\ t.scanWanted = s.scanWanted /\ t.baselineWanted = s.baselineWanted
        /\ t.provider = s.provider /\ t.model = s.model /\ t.skipped = s.skipped
        /\ t.written = s.written /\ t.scanRan = s.scanRan /\ t.shared = s.shared
        /\ t.baselineSaved = s.baselineSaved /\ t.errors = s.errors
    BY <1>1, SetupFields
  <2>2. ToSetup(p, t)
    BY <1>4 DEF CountBaselines
  <2> HIDE DEF t
  <2>3. SetupOK(t)
    BY <1>1, <1>4, <2>1 DEF SetupOK, Asking, Settled
  <2> QED BY <1>1, <1>4, <2>1, <2>2, <2>3, SetupMoves
<1> QED BY <1>2, <1>3, <1>4

LEMMA WriteConfigKeeps ==
  ASSUME DOMAIN setup = Process, NEW p \in Process, SetupOK(setup[p]),
         SetupScan(setup[p], scan[p]), WriteConfig(p)
  PROVE  SetupKept(p)
<1> DEFINE s == setup[p]
<1>1. s.pc = "write" /\ UNCHANGED scan /\ DOMAIN s = DOMAIN NoSetup
  BY DEF WriteConfig, SetupOK
<1>2. CASE ToSetup(p, [s EXCEPT !.pc = "provider", !.written = TRUE])
  <2> DEFINE t == [s EXCEPT !.pc = "provider", !.written = TRUE]
  <2>1. /\ DOMAIN t = DOMAIN s /\ t.pc = "provider" /\ t.dry = s.dry
        /\ t.scanWanted = s.scanWanted /\ t.baselineWanted = s.baselineWanted
        /\ t.provider = s.provider /\ t.model = s.model /\ t.skipped = s.skipped
        /\ t.written = TRUE /\ t.scanRan = s.scanRan /\ t.shared = s.shared
        /\ t.baselineSaved = s.baselineSaved /\ t.errors = s.errors
    BY <1>1, SetupFields
  <2>2. ToSetup(p, t)
    BY <1>2
  <2> HIDE DEF t
  <2>3. SetupOK(t)
    BY <1>1, <2>1 DEF SetupOK, Asking, Settled
  <2> QED BY <1>1, <2>1, <2>2, <2>3, SetupMoves
<1>3. CASE ToSetup(p, [s EXCEPT !.pc = "thrown"])
  <2> DEFINE t == [s EXCEPT !.pc = "thrown"]
  <2>1. /\ DOMAIN t = DOMAIN s /\ t.pc = "thrown" /\ t.dry = s.dry
        /\ t.scanWanted = s.scanWanted /\ t.baselineWanted = s.baselineWanted
        /\ t.provider = s.provider /\ t.model = s.model /\ t.skipped = s.skipped
        /\ t.written = s.written /\ t.scanRan = s.scanRan /\ t.shared = s.shared
        /\ t.baselineSaved = s.baselineSaved /\ t.errors = s.errors
    BY <1>1, SetupFields
  <2>2. ToSetup(p, t)
    BY <1>3
  <2> HIDE DEF t
  <2>3. SetupOK(t)
    BY <1>1, <2>1 DEF SetupOK, Asking, Settled
  <2> QED BY <1>1, <2>1, <2>2, <2>3, SetupMoves
<1>4. CASE ToSetup(p, Error([s EXCEPT !.pc = "provider", !.written = TRUE], "config"))
  <2> DEFINE t == Error([s EXCEPT !.pc = "provider", !.written = TRUE], "config")
  <2>1. /\ DOMAIN t = DOMAIN s /\ t.pc = "provider" /\ t.dry = s.dry
        /\ t.scanWanted = s.scanWanted /\ t.baselineWanted = s.baselineWanted
        /\ t.provider = s.provider /\ t.model = s.model /\ t.skipped = s.skipped
        /\ t.written = TRUE /\ t.scanRan = s.scanRan /\ t.shared = s.shared
        /\ t.baselineSaved = s.baselineSaved /\ t.errors = s.errors \cup {"config"}
    BY <1>1, SetupFields DEF Error
  <2>2. ToSetup(p, t)
    BY <1>4
  <2> HIDE DEF t
  <2>3. SetupOK(t)
    BY <1>1, <2>1 DEF SetupOK, Asking, Settled
  <2> QED BY <1>1, <2>1, <2>2, <2>3, SetupMoves
<1> QED BY <1>2, <1>3, <1>4 DEF WriteConfig

LEMMA LoadExistingKeeps ==
  ASSUME DOMAIN setup = Process, NEW p \in Process, SetupOK(setup[p]),
         SetupScan(setup[p], scan[p]), LoadExisting(p)
  PROVE  SetupKept(p)
<1> DEFINE s == setup[p]
<1>1. s.pc = "provider" /\ UNCHANGED scan /\ DOMAIN s = DOMAIN NoSetup
  BY DEF LoadExisting, SetupOK
<1>2. CASE ToSetup(p, [s EXCEPT !.pc = "eligible"])
  <2> DEFINE t == [s EXCEPT !.pc = "eligible"]
  <2>1. /\ DOMAIN t = DOMAIN s /\ t.pc = "eligible" /\ t.dry = s.dry
        /\ t.scanWanted = s.scanWanted /\ t.baselineWanted = s.baselineWanted
        /\ t.provider = s.provider /\ t.model = s.model /\ t.skipped = s.skipped
        /\ t.written = s.written /\ t.scanRan = s.scanRan /\ t.shared = s.shared
        /\ t.baselineSaved = s.baselineSaved /\ t.errors = s.errors
    BY <1>1, SetupFields
  <2>2. ToSetup(p, t)
    BY <1>2
  <2> HIDE DEF t
  <2>3. SetupOK(t)
    BY <1>1, <2>1 DEF SetupOK, Asking, Settled
  <2> QED BY <1>1, <2>1, <2>2, <2>3, SetupMoves
<1>3. CASE ToSetup(p, [Error(s, "profile") EXCEPT !.pc = "eligible"])
  <2> DEFINE t == [Error(s, "profile") EXCEPT !.pc = "eligible"]
  <2>1. /\ DOMAIN t = DOMAIN s /\ t.pc = "eligible" /\ t.dry = s.dry
        /\ t.scanWanted = s.scanWanted /\ t.baselineWanted = s.baselineWanted
        /\ t.provider = s.provider /\ t.model = s.model /\ t.skipped = s.skipped
        /\ t.written = s.written /\ t.scanRan = s.scanRan /\ t.shared = s.shared
        /\ t.baselineSaved = s.baselineSaved /\ t.errors = s.errors \cup {"profile"}
    BY <1>1, SetupFields DEF Error
  <2>2. ToSetup(p, t)
    BY <1>3
  <2> HIDE DEF t
  <2>3. SetupOK(t)
    BY <1>1, <2>1 DEF SetupOK, Asking, Settled
  <2> QED BY <1>1, <2>1, <2>2, <2>3, SetupMoves
<1>4. CASE ToSetup(p, [s EXCEPT !.pc = "truncate", !.merged = BuildProfile(profile, s)])
  <2> DEFINE t == [s EXCEPT !.pc = "truncate", !.merged = BuildProfile(profile, s)]
  <2>1. /\ DOMAIN t = DOMAIN s /\ t.pc = "truncate" /\ t.dry = s.dry
        /\ t.scanWanted = s.scanWanted /\ t.baselineWanted = s.baselineWanted
        /\ t.provider = s.provider /\ t.model = s.model /\ t.skipped = s.skipped
        /\ t.written = s.written /\ t.scanRan = s.scanRan /\ t.shared = s.shared
        /\ t.baselineSaved = s.baselineSaved /\ t.errors = s.errors
    BY <1>1, SetupFields
  <2>2. ToSetup(p, t)
    BY <1>4
  <2> HIDE DEF t
  <2>3. SetupOK(t)
    BY <1>1, <2>1 DEF SetupOK, Asking, Settled
  <2> QED BY <1>1, <2>1, <2>2, <2>3, SetupMoves
<1> QED BY <1>2, <1>3, <1>4 DEF LoadExisting

LEMMA TruncateProfileKeeps ==
  ASSUME DOMAIN setup = Process, NEW p \in Process, SetupOK(setup[p]),
         SetupScan(setup[p], scan[p]), TruncateProfile(p)
  PROVE  SetupKept(p)
<1> DEFINE s == setup[p]
<1>1. s.pc = "truncate" /\ UNCHANGED scan /\ DOMAIN s = DOMAIN NoSetup
  BY DEF TruncateProfile, SetupOK
<1> DEFINE shared == s.shared \/ \E q \in Process \ {p} : setup[q].pc = "fill"
           t == [s EXCEPT !.pc = "fill", !.shared = shared]
<1>2. ToSetup(p, t)
  BY DEF TruncateProfile
<1>3. s.shared => shared
  OBVIOUS
<1> HIDE DEF shared
<1>4. /\ DOMAIN t = DOMAIN s /\ t.pc = "fill" /\ t.dry = s.dry
      /\ t.scanWanted = s.scanWanted /\ t.baselineWanted = s.baselineWanted
      /\ t.provider = s.provider /\ t.model = s.model /\ t.skipped = s.skipped
      /\ t.written = s.written /\ t.scanRan = s.scanRan /\ t.shared = shared
      /\ t.baselineSaved = s.baselineSaved /\ t.errors = s.errors
  BY <1>1, SetupFields
<1> HIDE DEF t
<1>5. SetupOK(t)
  BY <1>1, <1>4 DEF SetupOK, Asking, Settled
<1> QED BY <1>1, <1>2, <1>3, <1>4, <1>5, SetupMoves

LEMMA FillProfileKeeps ==
  ASSUME DOMAIN setup = Process, NEW p \in Process, SetupOK(setup[p]),
         SetupScan(setup[p], scan[p]), FillProfile(p)
  PROVE  SetupKept(p)
<1> DEFINE s == setup[p]
<1>1. s.pc = "fill" /\ UNCHANGED scan /\ DOMAIN s = DOMAIN NoSetup
  BY DEF FillProfile, SetupOK
<1>2. CASE ToSetup(p, [s EXCEPT !.pc = "eligible", !.profileWritten = TRUE])
  <2> DEFINE t == [s EXCEPT !.pc = "eligible", !.profileWritten = TRUE]
  <2>1. /\ DOMAIN t = DOMAIN s /\ t.pc = "eligible" /\ t.dry = s.dry
        /\ t.scanWanted = s.scanWanted /\ t.baselineWanted = s.baselineWanted
        /\ t.provider = s.provider /\ t.model = s.model /\ t.skipped = s.skipped
        /\ t.written = s.written /\ t.scanRan = s.scanRan /\ t.shared = s.shared
        /\ t.baselineSaved = s.baselineSaved /\ t.errors = s.errors
    BY <1>1, SetupFields
  <2>2. ToSetup(p, t)
    BY <1>2
  <2> HIDE DEF t
  <2>3. SetupOK(t)
    BY <1>1, <2>1 DEF SetupOK, Asking, Settled
  <2> QED BY <1>1, <2>1, <2>2, <2>3, SetupMoves
<1>3. CASE ToSetup(p, [Error(s, "profile") EXCEPT !.pc = "eligible"])
  <2> DEFINE t == [Error(s, "profile") EXCEPT !.pc = "eligible"]
  <2>1. /\ DOMAIN t = DOMAIN s /\ t.pc = "eligible" /\ t.dry = s.dry
        /\ t.scanWanted = s.scanWanted /\ t.baselineWanted = s.baselineWanted
        /\ t.provider = s.provider /\ t.model = s.model /\ t.skipped = s.skipped
        /\ t.written = s.written /\ t.scanRan = s.scanRan /\ t.shared = s.shared
        /\ t.baselineSaved = s.baselineSaved /\ t.errors = s.errors \cup {"profile"}
    BY <1>1, SetupFields DEF Error
  <2>2. ToSetup(p, t)
    BY <1>3
  <2> HIDE DEF t
  <2>3. SetupOK(t)
    BY <1>1, <2>1 DEF SetupOK, Asking, Settled
  <2> QED BY <1>1, <2>1, <2>2, <2>3, SetupMoves
<1>4. CASE ToSetup(p, [s EXCEPT !.pc = "crashed"])
  <2> DEFINE t == [s EXCEPT !.pc = "crashed"]
  <2>1. /\ DOMAIN t = DOMAIN s /\ t.pc = "crashed" /\ t.dry = s.dry
        /\ t.scanWanted = s.scanWanted /\ t.baselineWanted = s.baselineWanted
        /\ t.provider = s.provider /\ t.model = s.model /\ t.skipped = s.skipped
        /\ t.written = s.written /\ t.scanRan = s.scanRan /\ t.shared = s.shared
        /\ t.baselineSaved = s.baselineSaved /\ t.errors = s.errors
    BY <1>1, SetupFields
  <2>2. ToSetup(p, t)
    BY <1>4
  <2> HIDE DEF t
  <2>3. SetupOK(t)
    BY <1>1, <2>1 DEF SetupOK, Asking, Settled
  <2> QED BY <1>1, <2>1, <2>2, <2>3, SetupMoves
<1> QED BY <1>2, <1>3, <1>4 DEF FillProfile

LEMMA CheckEligibleKeeps ==
  ASSUME DOMAIN setup = Process, NEW p \in Process, SetupOK(setup[p]),
         SetupScan(setup[p], scan[p]), CheckEligible(p)
  PROVE  SetupKept(p)
<1> DEFINE s == setup[p]
<1>1. s.pc = "eligible" /\ UNCHANGED scan /\ DOMAIN s = DOMAIN NoSetup
  BY DEF CheckEligible, SetupOK
<1> DEFINE asks == s.baselineWanted /\ s.scanWanted /\ s.errors = {}
<1>2. CASE ~asks /\ ToSetup(p, [s EXCEPT !.pc = "launch"])
  <2> DEFINE t == [s EXCEPT !.pc = "launch"]
  <2>1. /\ DOMAIN t = DOMAIN s /\ t.pc = "launch" /\ t.dry = s.dry
        /\ t.scanWanted = s.scanWanted /\ t.baselineWanted = s.baselineWanted
        /\ t.provider = s.provider /\ t.model = s.model /\ t.skipped = s.skipped
        /\ t.written = s.written /\ t.scanRan = s.scanRan /\ t.shared = s.shared
        /\ t.baselineSaved = s.baselineSaved /\ t.errors = s.errors
    BY <1>1, SetupFields
  <2>2. ToSetup(p, t)
    BY <1>2
  <2> HIDE DEF t
  <2>3. SetupOK(t)
    BY <1>1, <1>2, <2>1 DEF SetupOK, Asking, Settled
  <2> QED BY <1>1, <2>1, <2>2, <2>3, SetupMoves
<1>3. ASSUME NEW eligible \in BOOLEAN, Assess(s.written, eligible),
             ToSetup(p, [s EXCEPT !.pc = "launch", !.blocked = ~eligible, !.baselineWanted = eligible])
      PROVE  SetupKept(p)
  <2> DEFINE blocked == ~eligible
             t == [s EXCEPT !.pc = "launch", !.blocked = blocked, !.baselineWanted = eligible]
  <2>1. ToSetup(p, t)
    BY <1>3
  <2>2. s.written => ~eligible
    BY <1>3 DEF Assess
  <2> HIDE DEF blocked
  <2>3. /\ DOMAIN t = DOMAIN s /\ t.pc = "launch" /\ t.dry = s.dry
        /\ t.scanWanted = s.scanWanted /\ t.baselineWanted = eligible
        /\ t.provider = s.provider /\ t.model = s.model /\ t.skipped = s.skipped
        /\ t.written = s.written /\ t.scanRan = s.scanRan /\ t.shared = s.shared
        /\ t.baselineSaved = s.baselineSaved /\ t.errors = s.errors
    BY <1>1, SetupFields
  <2> HIDE DEF t
  <2>4. SetupOK(t)
    BY <1>1, <2>2, <2>3 DEF SetupOK, Asking, Settled
  <2> QED BY <1>1, <2>1, <2>3, <2>4, SetupMoves
<1> QED BY <1>2, <1>3 DEF CheckEligible

LEMMA LaunchScanKeeps ==
  ASSUME DOMAIN setup = Process, DOMAIN scan = Process, NEW p \in Process, SetupOK(setup[p]),
         SetupScan(setup[p], scan[p]), ScanOK(scan[p]), ScanIntake(scan[p], intake[p], baselines),
         LaunchScan(p)
  PROVE  /\ SetupKept(p) /\ ScanOK(scan'[p]) /\ ScanIntake(scan'[p], intake[p], baselines)
         /\ DOMAIN scan' = Process /\ \A q \in Process \ {p} : scan'[q] = scan[q]
<1> DEFINE s == setup[p]
           runs == s.scanWanted /\ s.errors = {} /\ (s.written \/ s.skipped)
<1>1. s.pc = "launch" /\ DOMAIN s = DOMAIN NoSetup
  BY DEF LaunchScan, SetupOK
<1>2. CASE runs
  <2> DEFINE t == [s EXCEPT !.pc = "scanning"]
             options == [NoLlm EXCEPT !.provider = s.provider]
  <2>1. ToSetup(p, t) /\ Launch(p, FALSE, options, NoLlm)
    BY <1>2 DEF LaunchScan
  <2>2. /\ DOMAIN t = DOMAIN s /\ t.pc = "scanning" /\ t.dry = s.dry
        /\ t.scanWanted = s.scanWanted /\ t.baselineWanted = s.baselineWanted
        /\ t.provider = s.provider /\ t.model = s.model /\ t.skipped = s.skipped
        /\ t.written = s.written /\ t.scanRan = s.scanRan /\ t.shared = s.shared
        /\ t.baselineSaved = s.baselineSaved /\ t.errors = s.errors
    BY <1>1, SetupFields
  <2> HIDE DEF t, options
  <2>3. /\ ScanOK(scan'[p]) /\ scan'[p].pc = "policy" /\ scan'[p].dry = FALSE
        /\ ScanIntake(scan'[p], intake[p], baselines)
        /\ DOMAIN scan' = Process /\ \A q \in Process \ {p} : scan'[q] = scan[q]
    BY <2>1, LaunchIsFresh
  <2>4. SetupOK(t)
    BY <1>1, <1>2, <2>2 DEF SetupOK, Asking, Settled
  <2>5. SetupScan(t, scan'[p])
    BY <2>2, <2>3 DEF SetupScan
  <2> QED BY <1>1, <2>1, <2>2, <2>3, <2>4, <2>5, ToSetupSets DEF SetupKept
<1>3. CASE ~runs
  <2> DEFINE t == [s EXCEPT !.pc = "done"]
  <2>1. ToSetup(p, t) /\ UNCHANGED scan
    BY <1>3 DEF LaunchScan
  <2>2. /\ DOMAIN t = DOMAIN s /\ t.pc = "done" /\ t.dry = s.dry
        /\ t.scanWanted = s.scanWanted /\ t.baselineWanted = s.baselineWanted
        /\ t.provider = s.provider /\ t.model = s.model /\ t.skipped = s.skipped
        /\ t.written = s.written /\ t.scanRan = s.scanRan /\ t.shared = s.shared
        /\ t.baselineSaved = s.baselineSaved /\ t.errors = s.errors
    BY <1>1, SetupFields
  <2> HIDE DEF t
  <2>3. SetupOK(t)
    BY <1>1, <1>3, <2>2 DEF SetupOK, Asking, Settled
  <2>4. s.scanRan = FALSE /\ ~s.baselineSaved /\ scan[p].pc = "idle"
    BY <1>1 DEF SetupOK, SetupScan
  <2>5. SetupScan(t, scan[p])
    BY <2>2, <2>4 DEF SetupScan
  <2> QED BY <1>1, <2>1, <2>2, <2>3, <2>5, ToSetupSets DEF SetupKept
<1> QED BY <1>2, <1>3

LEMMA ScanEndsKeeps ==
  ASSUME DOMAIN setup = Process, NEW p \in Process, SetupOK(setup[p]),
         SetupScan(setup[p], scan[p]), ScanOK(scan[p]), ScanEnds(p)
  PROVE  SetupKept(p)
<1> DEFINE s == setup[p]
<1>1. /\ s.pc = "scanning" /\ UNCHANGED scan /\ DOMAIN s = DOMAIN NoSetup
      /\ scan[p].pc \in {"ok", "error"}
  BY DEF ScanEnds, SetupOK
<1>2. CASE scan[p].pc = "ok"
  <2> DEFINE t == [s EXCEPT !.pc = "done", !.scanRan = TRUE, !.baselineSaved = s.baselineWanted]
  <2>1. ToSetup(p, t)
    BY <1>2 DEF ScanEnds
  <2>2. /\ DOMAIN t = DOMAIN s /\ t.pc = "done" /\ t.dry = s.dry
        /\ t.scanWanted = s.scanWanted /\ t.baselineWanted = s.baselineWanted
        /\ t.provider = s.provider /\ t.model = s.model /\ t.skipped = s.skipped
        /\ t.written = s.written /\ t.scanRan = TRUE /\ t.shared = s.shared
        /\ t.baselineSaved = s.baselineWanted /\ t.errors = s.errors
    BY <1>1, SetupFields
  <2> HIDE DEF t
  <2>3. SetupOK(t)
    BY <1>1, <2>2 DEF SetupOK, Asking, Settled
  <2>4. s.baselineWanted => "baseline" \in scan[p].recorded
    BY <1>1, <1>2 DEF SetupScan, ScanOK
  <2>5. SetupScan(t, scan[p])
    BY <1>2, <2>2, <2>4 DEF SetupScan
  <2> QED BY <1>1, <2>1, <2>2, <2>3, <2>5, ToSetupSets DEF SetupKept
<1>3. CASE scan[p].pc = "error"
  <2> DEFINE t == [Error(s, "scan") EXCEPT !.pc = "done"]
  <2>1. ToSetup(p, t)
    BY <1>3 DEF ScanEnds
  <2>2. /\ DOMAIN t = DOMAIN s /\ t.pc = "done" /\ t.dry = s.dry
        /\ t.scanWanted = s.scanWanted /\ t.baselineWanted = s.baselineWanted
        /\ t.provider = s.provider /\ t.model = s.model /\ t.skipped = s.skipped
        /\ t.written = s.written /\ t.scanRan = s.scanRan /\ t.shared = s.shared
        /\ t.baselineSaved = s.baselineSaved /\ t.errors = s.errors \cup {"scan"}
    BY <1>1, SetupFields DEF Error
  <2> HIDE DEF t
  <2>3. s.scanRan = FALSE /\ ~s.baselineSaved
    BY <1>1 DEF SetupOK
  <2>4. SetupOK(t)
    BY <1>1, <2>2, <2>3 DEF SetupOK, Asking, Settled
  <2>5. SetupScan(t, scan[p])
    BY <1>3, <2>2, <2>3 DEF SetupScan
  <2> QED BY <1>1, <2>1, <2>2, <2>4, <2>5, ToSetupSets DEF SetupKept
<1> QED BY <1>1, <1>2, <1>3

\* What is known of a setup stays when the scan that it runs goes on.
LEMMA ScanUnderSetup ==
  ASSUME NEW s, NEW c, NEW d, SetupScan(s, c), ScanOK(c),
         Follows(c, d, IF s.pc # "scanning" THEN SUBSET Recordings
                       ELSE {IF s.baselineWanted THEN {"baseline"} ELSE {}})
  PROVE  SetupScan(s, d)
<1>1. CASE s.pc = "idle"
  BY <1>1 DEF SetupScan
<1>2. CASE s.pc = "scanning"
  BY <1>2 DEF SetupScan, Follows
<1>3. CASE s.pc = "done"
  BY <1>3 DEF SetupScan, Follows
<1>4. CASE s.pc \notin {"idle", "scanning", "done"}
  BY <1>4 DEF SetupScan, Follows
<1> QED BY <1>1, <1>2, <1>3, <1>4

\* A scan takes steps of its own intake only.
LEMMA OwnIntake ==
  ASSUME DOMAIN intake = Process, NEW p \in Process, ScanStep(p, Units(p), Wishes(p))
  PROVE  \A q \in Process \ {p} : intake'[q] = intake[q]
<1>1. CASE IntakeStep(p)
  BY <1>1, IntakeStepMoves
<1>2. CASE UNCHANGED intake
  BY <1>2
<1>3. CASE ParsePolicy(p, Units(p))
  <2>1. ASSUME NEW j, Become(p, j) PROVE \A q \in Process \ {p} : intake'[q] = intake[q]
    BY <2>1 DEF Become
  <2> QED BY <1>3, <2>1 DEF ParsePolicy, Open, Fail
<1> QED BY <1>1, <1>2, <1>3
        DEF ScanStep, LoadProfile, IntakeEnds, ParseOptions, Diagnose, Output, End, RecordOne

(***************************************************************************)
(* What the scans and the setups keep.                                     *)
(***************************************************************************)
LEMMA StepCommands ==
  ASSUME CommandsInv, DOMAIN intake = Process, [Next]_vars
  PROVE  CommandsInv'
<1> DEFINE Each(p) == /\ ScanOK(scan[p]) /\ ScanIntake(scan[p], intake[p], baselines)
                      /\ SetupOK(setup[p]) /\ SetupScan(setup[p], scan[p])
<1>1. DOMAIN scan = Process /\ DOMAIN setup = Process /\ \A p \in Process : Each(p)
  BY DEF CommandsInv
<1>2. CASE UNCHANGED <<intake, profile, baselines, scan, setup>>
  BY <1>2 DEF CommandsInv
<1>3. ASSUME NEW p \in Process, ScanStep(p, Units(p), Wishes(p)), UNCHANGED setup
      PROVE  CommandsInv'
  <2>1. Wishes(p) \in SUBSET (SUBSET Recordings)
    BY DEF Wishes, Recordings
  <2>2. ScanKept(p, Wishes(p))
    BY <1>1, <1>3, <2>1, ScanKeeps
  <2>3. SetupScan(setup[p], scan'[p])
    BY <1>1, <2>2, ScanUnderSetup DEF ScanKept, Wishes
  <2>4. \A q \in Process \ {p} : intake'[q] = intake[q]
    BY <1>3, OwnIntake
  <2>5. ASSUME NEW q \in Process \ {p} PROVE Each(q)'
    BY <1>1, <1>3, <2>2, <2>4, <2>5 DEF ScanKept, ScanIntake
  <2> QED BY <1>1, <1>3, <2>2, <2>3, <2>5 DEF CommandsInv, ScanKept
<1>4. ASSUME NEW p \in Process, SetupStep(p)
      PROVE  CommandsInv'
  <2>1. UNCHANGED <<intake, baselines>>
    BY <1>4 DEF SetupStep, Start, Ask, AskScan, LookAtConfig, CountBaselines, WriteConfig,
             LoadExisting, TruncateProfile, FillProfile, CheckEligible, LaunchScan, ScanEnds
  <2>2. CASE LaunchScan(p)
    BY <1>1, <2>1, <2>2, LaunchScanKeeps DEF CommandsInv, SetupKept
  <2>3. CASE UNCHANGED scan /\ SetupKept(p)
    BY <1>1, <2>1, <2>3 DEF CommandsInv, SetupKept
  <2>4. CASE Start(p) \/ Ask(p) \/ AskScan(p) \/ LookAtConfig(p) \/ CountBaselines(p) \/ WriteConfig(p)
             \/ LoadExisting(p) \/ TruncateProfile(p) \/ FillProfile(p) \/ CheckEligible(p) \/ ScanEnds(p)
    <3>1. UNCHANGED scan
      BY <2>4 DEF Start, Ask, AskScan, LookAtConfig, CountBaselines, WriteConfig,
               LoadExisting, TruncateProfile, FillProfile, CheckEligible, ScanEnds
    <3>2. SetupKept(p)
      BY <1>1, <2>4, StartKeeps, AskKeeps, AskScanKeeps, LookAtConfigKeeps, CountBaselinesKeeps,
         WriteConfigKeeps, LoadExistingKeeps, TruncateProfileKeeps, FillProfileKeeps,
         CheckEligibleKeeps, ScanEndsKeeps
    <3> QED BY <2>3, <3>1, <3>2
  <2> QED BY <1>4, <2>2, <2>4 DEF SetupStep
<1>5. CASE (Edit \/ Commit) /\ UNCHANGED <<profile, baselines, scan, setup>>
  BY <1>2, <1>5 DEF Edit, Commit
<1>6. CASE UNCHANGED vars
  BY <1>2, <1>6 DEF vars
<1> QED BY <1>3, <1>4, <1>5, <1>6 DEF Next

-----------------------------------------------------------------------------
(* The operator profile.                                                   *)

LEMMA BuildIsProfile ==
  ASSUME NEW existing \in Profiles \cup {NoProfile}, NEW s, s.provider \in Provider,
         s.model \in Model \cup {Unset}
  PROVE  BuildProfile(existing, s) \in Profiles
<1> DEFINE old == IF existing = NoProfile THEN NoLlm ELSE existing.llm
<1>1. /\ old.exec \in Exec \cup {Unset} /\ old.limits \in Limit \cup {Unset}
      /\ old.scope \in {"all", "cluster-context", "changed", Unset}
  <2>1. CASE existing = NoProfile
    BY <2>1 DEF NoLlm
  <2>2. CASE existing \in Profiles /\ existing # NoProfile
    BY <2>2 DEF Profiles
  <2> QED BY <2>1, <2>2
<1> DEFINE exec == IF old.provider = s.provider THEN old.exec ELSE Unset
           scope == Or(old.scope, "changed")
           addons == existing # NoProfile /\ existing.addons
           limits == old.limits
<1>2. /\ exec \in Exec \cup {Unset} /\ scope \in {"all", "cluster-context", "changed", Unset}
      /\ addons \in BOOLEAN /\ limits \in Limit \cup {Unset}
  BY <1>1 DEF Or
<1>3. BuildProfile(existing, s) =
        [llm |-> [provider |-> s.provider, exec |-> exec, scope |-> scope, limits |-> limits],
         model |-> s.model, addons |-> addons]
  BY DEF BuildProfile
<1> HIDE DEF old, exec, scope, addons, limits
<1> QED BY <1>2, <1>3 DEF Profiles

LEMMA BuildSurvives ==
  ASSUME NEW existing \in Profiles \cup {NoProfile}, NEW s,
         original # NoProfile => existing \in Profiles /\ existing # NoProfile /\ Survives(existing)
  PROVE  Survives(BuildProfile(existing, s))
<1> SUFFICES ASSUME original # NoProfile, existing \in Profiles, existing # NoProfile, Survives(existing)
             PROVE  Survives(BuildProfile(existing, s))
  BY DEF Survives
<1> DEFINE old == existing.llm
           b == BuildProfile(existing, s)
<1>1. existing.addons \in BOOLEAN
  BY DEF Profiles
<1>2. /\ b.addons = existing.addons /\ b.llm.provider = s.provider
      /\ b.llm.exec = IF old.provider = s.provider THEN old.exec ELSE Unset
  BY <1>1 DEF BuildProfile
<1> HIDE DEF b
<1>3. Survives(b)
  BY <1>2 DEF Survives
<1> QED BY <1>3 DEF b

\* A file that does not parse is no profile.
LEMMA TornIsNoProfile == \A x \in Torn : x \notin Profiles /\ x # NoProfile
<1>1. ASSUME NEW x \in Torn, x \in Profiles PROVE FALSE
  <2>1. DOMAIN x = {"torn"}
    BY <1>1 DEF Torn
  <2>2. "addons" \in DOMAIN x
    BY <1>1 DEF Profiles
  <2> QED BY <2>1, <2>2
<1> QED BY <1>1, SetupAssumption

\* Nothing is lost while nobody rewrites the profile.
LEMMA ProfileStays ==
  ASSUME ProfileInv, UNCHANGED <<profile, original>>,
         \A q \in Process :
           /\ setup[q].shared => setup'[q].shared
           /\ setup'[q].pc = "fill" => setup[q].pc = "fill"
           /\ setup[q].pc \in {"fill", "crashed"} \/ "profile" \in setup[q].errors =>
                setup'[q].pc \in {"fill", "crashed"} \/ "profile" \in setup'[q].errors
           /\ setup'[q].pc \in {"truncate", "fill"} =>
                setup'[q].merged \in Profiles /\ Survives(setup'[q].merged)
  PROVE  ProfileInv'
<1>1. Overlapped => Overlapped'
  BY DEF Overlapped
<1>2. OneWriter => OneWriter'
  BY DEF OneWriter
<1> QED BY <1>1, <1>2 DEF ProfileInv, Survives

LEMMA StepProfile ==
  ASSUME ProfileInv, CommandsInv, DOMAIN intake = Process, [Next]_vars
  PROVE  ProfileInv'
<1>1. DOMAIN setup = Process /\ \A p \in Process : SetupOK(setup[p])
  BY DEF CommandsInv
<1>2. CASE UNCHANGED <<profile, setup, original>>
  BY <1>2, ProfileStays DEF ProfileInv
<1>3. CASE (Edit \/ Commit) /\ UNCHANGED <<profile, baselines, scan, setup>> /\ UNCHANGED original
  BY <1>2, <1>3
<1>4. ASSUME NEW p \in Process, ScanStep(p, Units(p), Wishes(p)), UNCHANGED setup, UNCHANGED original
      PROVE  ProfileInv'
  <2>1. UNCHANGED profile
    BY <1>4 DEF ScanStep, LoadProfile, ParsePolicy, IntakeEnds, ParseOptions, Diagnose, Output, End,
             RecordOne
  <2> QED BY <1>2, <1>4, <2>1
<1>5. ASSUME NEW p \in Process, SetupStep(p), UNCHANGED original
      PROVE  ProfileInv'
  <2> DEFINE s == setup[p]
  <2>1. SetupKept(p)
    BY <1>1, <1>5, StartKeeps, AskKeeps, AskScanKeeps, LookAtConfigKeeps, CountBaselinesKeeps,
       WriteConfigKeeps, LoadExistingKeeps, TruncateProfileKeeps, FillProfileKeeps,
       CheckEligibleKeeps, LaunchScanKeeps, ScanEndsKeeps DEF SetupStep, CommandsInv
  <2>2. DOMAIN s = DOMAIN NoSetup
    BY <1>1 DEF SetupOK
  <2>3. CASE LoadExisting(p)
    <3>1. s.pc = "provider" /\ UNCHANGED profile
      BY <2>3 DEF LoadExisting
    <3>2. CASE setup'[p].pc \notin {"truncate", "fill"}
      BY <1>5, <2>1, <3>1, <3>2, ProfileStays DEF SetupKept, ProfileInv
    <3>3. CASE setup'[p].pc \in {"truncate", "fill"}
      <4>1. CASE ToSetup(p, [s EXCEPT !.pc = "eligible"])
        <5>1. setup'[p].pc = "eligible"
          BY <1>1, <2>2, <4>1, ToSetupSets, SetupFields
        <5> QED BY <3>3, <5>1
      <4>2. CASE ToSetup(p, [Error(s, "profile") EXCEPT !.pc = "eligible"])
        <5> DEFINE t == [Error(s, "profile") EXCEPT !.pc = "eligible"]
        <5>0. t.pc = "eligible"
          BY <2>2, SetupFields DEF Error
        <5>1. setup'[p] = t
          BY <1>1, <4>2, ToSetupSets
        <5> HIDE DEF t
        <5> QED BY <3>3, <5>0, <5>1
      <4>3. CASE /\ ToSetup(p, [s EXCEPT !.pc = "truncate", !.merged = BuildProfile(profile, s)])
                 /\ s.provider # Unset /\ profile \notin Torn
        <5> DEFINE b == BuildProfile(profile, s)
        <5>1. profile \in Profiles \cup {NoProfile}
          BY <4>3 DEF ProfileInv
        <5>2. s.provider \in Provider /\ s.model \in Model \cup {Unset}
          BY <1>1, <4>3 DEF SetupOK
        <5>3. b \in Profiles
          BY <5>1, <5>2, BuildIsProfile
        <5>4. Survives(b)
          BY <5>1, BuildSurvives DEF ProfileInv
        <5> HIDE DEF b
        <5>5. setup'[p].merged = b
          <6> DEFINE t == [s EXCEPT !.pc = "truncate", !.merged = b]
          <6>1. ToSetup(p, t)
            BY <4>3 DEF b
          <6>2. t.merged = b
            BY <2>2, SetupFields
          <6> HIDE DEF t
          <6> QED BY <1>1, <6>1, <6>2, ToSetupSets
        <5> QED BY <1>5, <2>1, <3>1, <5>3, <5>4, <5>5, ProfileStays DEF SetupKept, ProfileInv
      <4> QED BY <2>3, <4>1, <4>2, <4>3 DEF LoadExisting
    <3> QED BY <3>2, <3>3
  <2>4. CASE TruncateProfile(p)
    <3> DEFINE shared == s.shared \/ \E q \in Process \ {p} : setup[q].pc = "fill"
    <3>1. s.pc = "truncate" /\ profile' = [torn |-> 0]
          /\ ToSetup(p, [s EXCEPT !.pc = "fill", !.shared = shared])
      BY <2>4 DEF TruncateProfile
    <3>2. setup'[p].pc = "fill" /\ setup'[p].merged = s.merged /\ setup'[p].shared = shared
      <4> DEFINE t == [s EXCEPT !.pc = "fill", !.shared = shared]
      <4> HIDE DEF shared
      <4>1. t.pc = "fill" /\ t.merged = s.merged /\ t.shared = shared
        BY <2>2, SetupFields
      <4>2. ToSetup(p, t)
        BY <3>1
      <4> HIDE DEF t
      <4>3. setup'[p] = t
        BY <1>1, <4>2, ToSetupSets
      <4> QED BY <4>1, <4>3
    <3>3. profile' \in Torn /\ profile' # NoProfile /\ profile' \notin Profiles
      BY <3>1, TornIsNoProfile DEF Torn
    <3>4. Overlapped' \/ OneWriter'
      <4>1. CASE shared
        <5>1. setup'[p].shared
          <6> HIDE DEF shared
          <6> QED BY Zenon, <3>2, <4>1
        <5> QED BY <5>1 DEF Overlapped
      <4>2. CASE ~shared
        <5>1. \A q \in Process : setup'[q].pc = "fill" => q = p
          BY <2>1, <4>2 DEF SetupKept
        <5> QED BY <3>1, <3>2, <5>1 DEF OneWriter
      <4> QED BY <4>1, <4>2
    <3>5. \A q \in Process : setup'[q].pc \in {"truncate", "fill"} =>
            setup'[q].merged \in Profiles /\ Survives(setup'[q].merged)
      <4> HIDE DEF shared
      <4> QED BY <2>1, <3>1, <3>2 DEF ProfileInv, SetupKept
    <3> HIDE DEF shared
    <3> QED BY <1>5, <3>3, <3>4, <3>5 DEF ProfileInv, Survives
  <2>5. CASE FillProfile(p)
    <3>1. s.pc = "fill" /\ s.merged \in Profiles /\ Survives(s.merged) /\ s.merged \notin Torn
      BY <2>5, TornIsNoProfile DEF FillProfile, ProfileInv
    <3>2. setup'[p].pc \notin {"truncate", "fill"}
      BY <2>1, <3>1 DEF SetupKept
    <3>3. Overlapped => Overlapped'
      BY <2>1 DEF Overlapped, SetupKept
    <3>4. LastVisible \in Nat /\ BodyEnd[s.merged] \in Nat
      <4>1. profile \in Profiles \cup Torn
        BY <3>1 DEF ProfileInv
      <4> QED BY <3>1, <4>1, SetupAssumption DEF LastVisible, Torn
    <3>5. \A q \in Process : setup'[q].pc \in {"truncate", "fill"} =>
            setup'[q].merged \in Profiles /\ Survives(setup'[q].merged)
      BY <2>1, <3>2 DEF ProfileInv, SetupKept
    <3>6. OneWriter => \A q \in Process : setup'[q].pc # "fill"
      BY <2>1, <3>1, <3>2 DEF OneWriter, SetupKept
    <3>7. ASSUME profile' \in {s.merged, profile} \cup Torn, Overlapped' \/ OneWriter'
          PROVE  ProfileInv'
      <4>1. s.merged # NoProfile /\ \A x \in Torn : x \notin Profiles /\ x # NoProfile
        BY <3>1, SetupAssumption, TornIsNoProfile
      <4> QED BY <1>5, <3>1, <3>5, <3>7, <4>1 DEF ProfileInv, Survives
    <3>8. CASE profile' = Overlaid(s.merged)
      <4>1. profile' \in {s.merged} \cup Torn
        BY <3>4, <3>8 DEF Overlaid, Torn
      <4>2. CASE OneWriter
        <5>1. profile = [torn |-> 0] /\ profile \in Torn /\ profile.torn = 0
          BY <2>5, <3>1, <4>2 DEF OneWriter, Torn
        <5>2. LastVisible = 0
          BY <5>1 DEF LastVisible
        <5>3. profile' \notin Torn
          BY <3>1, <3>4, <3>8, <5>2 DEF Overlaid
        <5>4. OneWriter'
          BY <3>6, <4>2, <5>3 DEF OneWriter
        <5> QED BY <3>7, <4>1, <5>4
      <4> QED BY <3>3, <3>7, <4>1, <4>2 DEF ProfileInv
    <3>9. CASE /\ setup'[p].pc = "crashed" \/ "profile" \in setup'[p].errors
               /\ \/ UNCHANGED profile
                  \/ \E k \in 1 .. BodyEnd[s.merged] - 1 :
                       profile' = [torn |-> IF LastVisible <= k THEN k ELSE LastVisible]
      <4>1. profile' \in {profile} \cup Torn
        BY <3>4, <3>9 DEF Torn
      <4>2. OneWriter => OneWriter'
        BY <3>6, <3>9 DEF OneWriter
      <4> QED BY <3>3, <3>7, <4>1, <4>2 DEF ProfileInv
    <3>10. ASSUME ToSetup(p, [Error(s, "profile") EXCEPT !.pc = "eligible"])
           PROVE  "profile" \in setup'[p].errors
      <4> DEFINE t == [Error(s, "profile") EXCEPT !.pc = "eligible"]
      <4>1. "profile" \in t.errors
        BY <2>2, SetupFields DEF Error
      <4>2. setup'[p] = t
        BY <1>1, <3>10, ToSetupSets
      <4> HIDE DEF t
      <4> QED BY <4>1, <4>2
    <3>11. ASSUME ToSetup(p, [s EXCEPT !.pc = "crashed"])
           PROVE  setup'[p].pc = "crashed"
      BY <1>1, <2>2, <3>11, ToSetupSets, SetupFields
    <3> QED BY <2>5, <3>8, <3>9, <3>10, <3>11 DEF FillProfile
  <2>6. CASE ~(LoadExisting(p) \/ TruncateProfile(p) \/ FillProfile(p))
    <3>1. s.pc \notin {"provider", "truncate", "fill", "crashed"} /\ UNCHANGED profile
      BY <1>5, <2>6 DEF SetupStep, Start, Ask, AskScan, LookAtConfig, CountBaselines, WriteConfig,
               CheckEligible, LaunchScan, ScanEnds
    <3> QED BY <1>5, <2>1, <3>1, ProfileStays DEF SetupKept, ProfileInv
  <2> QED BY <2>3, <2>4, <2>5, <2>6
<1> QED BY <1>2, <1>3, <1>4, <1>5 DEF Next, vars

-----------------------------------------------------------------------------
LEMMA InitInv == Init => Inv
<1> SUFFICES ASSUME Init PROVE Inv
  OBVIOUS
<1>1. IntakeInv
  BY InitKeeps DEF Init
<1>2. PICK scanners, setups : scanners \cap setups = {} /\ InitCommands(scanners, setups)
  BY DEF Init
<1>3. ProfileInv
  <2>1. \A p \in Process : setup[p].pc \in {"idle", "start"}
    BY <1>2 DEF InitCommands, NoSetup
  <2>2. profile \in Profiles \cup {NoProfile} /\ original = profile /\ profile \notin Torn
    BY <1>2, TornIsNoProfile DEF Init, InitCommands
  <2> QED BY <2>1, <2>2 DEF ProfileInv, OneWriter, Survives
<1>4. ASSUME NEW p \in Process
      PROVE  ScanOK(scan[p]) /\ ScanIntake(scan[p], intake[p], baselines)
  <2> DEFINE c == scan[p]
  <2>1. /\ DOMAIN c = DOMAIN NoScan /\ c.pc \in {"idle", "profile"} /\ c.asked = {}
        /\ c.dry = FALSE /\ c.sent = FALSE /\ c.recorded = {} /\ c.failed = {}
    BY <1>2 DEF InitCommands, NoScan
  <2> HIDE DEF c
  <2>2. ScanOK(c)
    BY <2>1 DEF ScanOK, Unasked, Unrecorded
  <2>3. ScanIntake(c, intake[p], baselines)
    BY <2>1 DEF ScanIntake, Recording
  <2> QED BY <2>2, <2>3 DEF c
<1>5. ASSUME NEW p \in Process
      PROVE  SetupOK(setup[p])
  <2> DEFINE t == setup[p]
  <2>1. /\ DOMAIN t = DOMAIN NoSetup /\ t.pc \in {"idle", "start"} /\ t.dry = FALSE
        /\ t.scanWanted = FALSE /\ t.baselineWanted = FALSE /\ t.provider = Unset
        /\ t.model = Unset /\ t.skipped = FALSE /\ t.written = FALSE /\ t.scanRan = FALSE
        /\ t.baselineSaved = FALSE
    BY <1>2 DEF InitCommands, NoSetup
  <2> HIDE DEF t
  <2>2. SetupOK(t)
    BY <2>1 DEF SetupOK, Asking, Settled
  <2> QED BY <2>2 DEF t
<1>6. ASSUME NEW p \in Process
      PROVE  SetupScan(setup[p], scan[p])
  <2>1. setup[p].pc = IF p \in setups THEN "start" ELSE "idle"
    BY <1>2 DEF InitCommands, NoSetup
  <2>2. scan[p].pc = IF p \in scanners THEN "profile" ELSE "idle"
    BY <1>2 DEF InitCommands, NoScan
  <2> QED BY <1>2, <2>1, <2>2 DEF SetupScan
<1>7. DOMAIN scan = Process /\ DOMAIN setup = Process
  BY <1>2 DEF InitCommands
<1> QED BY <1>1, <1>3, <1>4, <1>5, <1>6, <1>7 DEF Inv, CommandsInv

(***************************************************************************)
(* The inductive invariant of the commands.                                *)
(***************************************************************************)
THEOREM Invariance == Spec => []Inv
<1>1. Inv /\ [Next]_vars => Inv'
  <2> SUFFICES ASSUME Inv, [Next]_vars PROVE Inv'
    OBVIOUS
  <2>1. DOMAIN intake = Process
    BY DEF Inv, IntakeInv
  <2> QED BY <2>1, StepIntake, StepCommands, StepProfile DEF Inv
<1> QED BY <1>1, InitInv, PTL DEF Spec

(***************************************************************************)
(* The exit of a scan is a success exactly if each recording asked for was *)
(* made, and one is missing only by its own fault or, for the trend, by    *)
(* the baseline's (runScanAction).                                         *)
(***************************************************************************)
THEOREM RecordingsTold == Spec => []ScanTellsWhatItRecorded
<1>1. Inv => ScanTellsWhatItRecorded
  BY DEF Inv, CommandsInv, ScanOK, ScanTellsWhatItRecorded
<1> QED BY <1>1, Invariance, PTL

(***************************************************************************)
(* What the report of a setup says was written or saved is what was done,  *)
(* and what was asked for and is missing has its error (runSetup).         *)
(***************************************************************************)
THEOREM SetupReports == Spec => []SetupReportIsTrue
<1>1. Inv => SetupReportIsTrue
  <2> SUFFICES ASSUME Inv, NEW p \in Process, setup[p].pc = "done"
               PROVE  /\ ~(setup[p].written /\ (setup[p].dry \/ setup[p].skipped \/ setup[p].baselineSaved))
                      /\ setup[p].baselineSaved =>
                           /\ intake[p].cfg \in baselines
                           /\ intake[p].now = NoGit \/ Clean(intake[p])
                           /\ "baseline" \in scan[p].recorded
                      /\ setup[p].scanRan = (scan[p].pc = "ok")
                      /\ setup[p].scanWanted /\ setup[p].errors = {} /\ ~setup[p].scanRan => setup[p].dry
                      /\ setup[p].scanRan /\ setup[p].baselineWanted => setup[p].baselineSaved
    BY DEF SetupReportIsTrue
  <2>1. /\ SetupOK(setup[p]) /\ SetupScan(setup[p], scan[p])
        /\ ScanIntake(scan[p], intake[p], baselines)
    BY DEF Inv, CommandsInv
  <2>2. setup[p].baselineSaved => "baseline" \in scan[p].recorded
    BY <2>1 DEF SetupScan
  <2>3. setup[p].baselineSaved =>
          /\ intake[p].cfg \in baselines
          /\ intake[p].now = NoGit \/ Clean(intake[p])
    BY <2>1, <2>2 DEF ScanIntake, Clean
  <2>4. ~(setup[p].written /\ (setup[p].dry \/ setup[p].skipped \/ setup[p].baselineSaved))
    BY <2>1 DEF SetupOK
  <2>5. /\ setup[p].scanWanted /\ setup[p].errors = {} /\ ~setup[p].scanRan => setup[p].dry
        /\ setup[p].scanRan /\ setup[p].baselineWanted => setup[p].baselineSaved
    BY <2>1 DEF SetupOK
  <2>6. setup[p].scanRan = (scan[p].pc = "ok")
    BY <2>1 DEF SetupScan
  <2> QED BY <2>2, <2>3, <2>4, <2>5, <2>6
<1> QED BY <1>1, Invariance, PTL

(***************************************************************************)
(* The add-ons and the executable of an operator profile survive any       *)
(* number of setups, at whatever point each is cut short and however the   *)
(* lengths of their bodies differ; the file is left unreadable only by a   *)
(* rewrite cut short or by two at the same time (saveOperatorProfile).     *)
(***************************************************************************)
THEOREM ProfileSurvives == Spec => []SettingsSurvive
<1>1. Inv => SettingsSurvive
  BY DEF Inv, ProfileInv, Overlapped, OneWriter, Survives, SettingsSurvive
<1> QED BY <1>1, Invariance, PTL

-----------------------------------------------------------------------------
(* The prompt.                                                             *)

LEMMA LeastOfTwo ==
  ASSUME NEW m \in Nat, NEW n \in Nat
  PROVE  Min({m, n}) \in Nat /\ Min({m, n}) <= m /\ Min({m, n}) <= n
<1>1. \E x \in {m, n} : \A y \in {m, n} : x <= y
  OBVIOUS
<1> QED BY <1>1 DEF Min

LEMMA Greatest ==
  ASSUME NEW S \in SUBSET Nat, S # {}, NEW n \in Nat, \A x \in S : x <= n
  PROVE  Max(S) \in S /\ \A x \in S : x <= Max(S)
<1> DEFINE D == {d \in Nat : n - d \in S}
<1>1. \A x \in S : x \in Nat /\ n - x \in D
  OBVIOUS
<1>2. PICK d \in D : \A e \in D : d <= e
  <2>1. D \in SUBSET Nat /\ D # {}
    BY <1>1
  <2> HIDE DEF D
  <2> QED BY <2>1, LeastNatural
<1>3. PICK x \in S : d = n - x
  OBVIOUS
<1>4. \A y \in S : d <= n - y
  BY <1>1, <1>2
<1>5. \A y \in S : y <= x
  BY <1>1, <1>3, <1>4
<1> QED BY <1>1, <1>5 DEF Max

\* The order of the files is strict and total.
LEMMA BeforeOrders ==
  ASSUME NEW f \in Source, NEW g \in Source
  PROVE  /\ ~Before(f, f)
         /\ f # g => Before(f, g) \/ Before(g, f)
         /\ Before(f, g) => ~Before(g, f) /\ \A h \in Source : Before(h, f) => Before(h, g)
<1>1. \A h \in Source : h \in Nat /\ Lines[h] \in Nat
  BY IntakeAssumption, ScanAssumption
<1> QED BY <1>1 DEF Before

\* Every place in the order is taken.
LEMMA Ranked ==
  ASSUME NEW S \in SUBSET Source
  PROVE  /\ IsFiniteSet(S) /\ Cardinality(S) \in Nat
         /\ \A k \in 1 .. Cardinality(S) : \E f \in S : Rank(f, S) = k - 1
<1> DEFINE Below0(f) == {g \in S : Before(g, f)}
           n == Cardinality(S)
           rank == [f \in S |-> Rank(f, S)]
<1>1. IsFiniteSet(S) /\ n \in Nat
  <2>1. S \in SUBSET (Dir \cup File)
    BY IntakeAssumption
  <2>2. IsFiniteSet(S)
    BY <2>1, IntakeAssumption, FS_Subset
  <2> QED BY <2>2, FS_CardinalityType
<1>2. ASSUME NEW f \in S
      PROVE  /\ IsFiniteSet(Below0(f)) /\ Rank(f, S) = Cardinality(Below0(f))
             /\ Rank(f, S) \in Nat /\ Rank(f, S) <= n - 1
  <2>1. Below0(f) \in SUBSET (S \ {f})
    BY BeforeOrders
  <2>2. IsFiniteSet(S \ {f}) /\ Cardinality(S \ {f}) = n - 1
    BY <1>1, FS_RemoveElement
  <2>3. IsFiniteSet(Below0(f)) /\ Cardinality(Below0(f)) <= n - 1
    BY <2>1, <2>2, FS_Subset
  <2>4. Cardinality(Below0(f)) \in Nat
    BY <2>3, FS_CardinalityType
  <2> QED BY <2>3, <2>4 DEF Rank
<1>3. ASSUME NEW f \in S, NEW g \in S, Before(f, g)
      PROVE  Rank(f, S) < Rank(g, S)
  <2>1. Below0(f) \in SUBSET (Below0(g) \ {f}) /\ f \in Below0(g)
    BY <1>3, BeforeOrders
  <2>2. /\ IsFiniteSet(Below0(g) \ {f})
        /\ Cardinality(Below0(g) \ {f}) = Cardinality(Below0(g)) - 1
    BY <1>2, <2>1, FS_RemoveElement
  <2>3. Cardinality(Below0(f)) <= Cardinality(Below0(g)) - 1
    BY <2>1, <2>2, FS_Subset
  <2> QED BY <1>2, <2>3
<1>4. \A f, g \in S : f # g => Rank(f, S) # Rank(g, S)
  <2> SUFFICES ASSUME NEW f \in S, NEW g \in S, f # g PROVE Rank(f, S) # Rank(g, S)
    OBVIOUS
  <2>1. Before(f, g) \/ Before(g, f)
    BY BeforeOrders
  <2>2. Rank(f, S) < Rank(g, S) \/ Rank(g, S) < Rank(f, S)
    BY <1>3, <2>1
  <2>3. Rank(f, S) \in Nat /\ Rank(g, S) \in Nat
    BY <1>2
  <2> QED BY <2>2, <2>3
<1>5. rank \in Injection(S, 0 .. n - 1)
  <2>1. \A f \in S : rank[f] \in Nat /\ rank[f] <= n - 1
    BY <1>2
  <2>2. rank \in [S -> 0 .. n - 1]
    BY <1>1, <2>1
  <2>3. \A f, g \in S : rank[f] = rank[g] => f = g
    BY <1>4
  <2> HIDE DEF rank
  <2> QED BY <2>2, <2>3 DEF Injection, IsInjective
<1>6. IsFiniteSet(0 .. n - 1) /\ Cardinality(0 .. n - 1) = n
  BY <1>1, FS_Interval
<1>7. rank \in Surjection(S, 0 .. n - 1)
  <2> HIDE DEF rank
  <2> QED BY <1>5, <1>6, FS_Injection
<1>8. ASSUME NEW k \in 1 .. n PROVE \E f \in S : Rank(f, S) = k - 1
  <2>1. k - 1 \in 0 .. n - 1
    BY <1>1
  <2>2. PICK f \in S : rank[f] = k - 1
    <3> HIDE DEF rank
    <3> QED BY <1>7, <2>1 DEF Surjection
  <2> QED BY <2>2
<1> QED BY <1>1, <1>8

\* The files selected are in scope, and no more than asked for or there are.
LEMMA SelectionFits ==
  ASSUME NEW files \in SUBSET Source, NEW paths, NEW policy, policy.maxFiles \in Nat,
         NEW taken, taken = SelectLlmCandidateFiles(files, paths, policy)
  PROVE  /\ taken \in Seq(InScopeOf(files, paths, policy.scope))
         /\ Len(taken) <= policy.maxFiles /\ Len(taken) <= Cardinality(files)
<1> DEFINE S == InScopeOf(files, paths, policy.scope)
           n == Min({Cardinality(S), policy.maxFiles})
<1>1. S \in SUBSET files /\ S \in SUBSET Source
  BY DEF InScopeOf
<1> HIDE DEF S
<1>2. /\ IsFiniteSet(files) /\ IsFiniteSet(S) /\ Cardinality(S) \in Nat
      /\ Cardinality(files) \in Nat
      /\ \A k \in 1 .. Cardinality(S) : \E f \in S : Rank(f, S) = k - 1
  BY <1>1, Ranked
<1>3. n \in Nat /\ n <= Cardinality(S) /\ n <= policy.maxFiles
  BY <1>2, LeastOfTwo
<1>4. Cardinality(S) <= Cardinality(files)
  BY <1>1, <1>2, FS_Subset
<1> HIDE DEF n
<1>5. taken = [k \in 1 .. n |-> CHOOSE f \in S : Rank(f, S) = k - 1]
  BY DEF SelectLlmCandidateFiles, S, n
<1>6. \A k \in 1 .. n : taken[k] \in S
  BY <1>2, <1>3, <1>5
<1>7. taken \in Seq(S) /\ Len(taken) = n
  BY <1>3, <1>5, <1>6
<1> QED BY <1>2, <1>3, <1>4, <1>7 DEF S

LEMMA SizeType ==
  /\ \A sections \in Seq(Source) : Size(sections) \in Nat
  /\ Size(<<>>) = 0
<1>1. ASSUME NEW sections \in Seq(Source)
      PROVE  Size(sections) \in Nat
  <2> DEFINE b == [k \in DOMAIN sections |-> Bytes[sections[k]]]
  <2>1. IsFiniteSet(DOMAIN sections)
    BY FS_Interval
  <2>2. DOMAIN b = DOMAIN sections /\ \A k \in DOMAIN sections : b[k] \in Nat
    BY ScanAssumption
  <2>3. Size(sections) = SumFunctionOnSet(b, DOMAIN sections)
    BY <2>2 DEF Size, SumFunction
  <2> HIDE DEF b
  <2> QED BY <2>1, <2>2, <2>3, SumType
<1>2. Size(<<>>) = 0
  <2> DEFINE b == [k \in DOMAIN <<>> |-> Bytes[<<>>[k]]]
  <2>1. DOMAIN b = {}
    OBVIOUS
  <2>2. Size(<<>>) = SumFunctionOnSet(b, {})
    BY <2>1 DEF Size, SumFunction
  <2> HIDE DEF b
  <2> QED BY <2>2, SumEmpty
<1> QED BY <1>1, <1>2

\* What buildContextPacket has taken after so many files.
Takes(in, files, limit, n) ==
  in = [k \in 0 .. n |-> IF k = 0 THEN <<>> ELSE Take(in[k - 1], files[k], limit)]

LEMMA TakesExists ==
  ASSUME NEW files, NEW limit, NEW n \in Nat
  PROVE  \E in : Takes(in, files, limit, n)
<1> DEFINE Bad == {m \in Nat : ~\E in : Takes(in, files, limit, m)}
<1>1. SUFFICES ASSUME Bad # {} PROVE FALSE
  OBVIOUS
<1>2. PICK m \in Bad : \A l \in Bad : m <= l
  <2>1. Bad \in SUBSET Nat
    OBVIOUS
  <2> HIDE DEF Bad
  <2> QED BY <1>1, <2>1, LeastNatural
<1>3. m # 0
  <2>1. Takes([k \in 0 .. 0 |-> <<>>], files, limit, 0)
    BY DEF Takes
  <2> QED BY <1>2, <2>1
<1>4. m - 1 \in Nat /\ m - 1 \notin Bad
  BY <1>2, <1>3
<1>5. PICK in : Takes(in, files, limit, m - 1)
  BY <1>4
<1> DEFINE more == [k \in 0 .. m |-> IF k = 0 THEN <<>> ELSE Take(in[k - 1], files[k], limit)]
<1>6. 0 .. m - 1 \subseteq 0 .. m /\ \A k \in 0 .. m : k # 0 => k - 1 \in 0 .. m - 1
  BY <1>4
<1>7. \A k \in 0 .. m - 1 : more[k] = in[k]
  BY <1>5, <1>6 DEF Takes
<1>8. Takes(more, files, limit, m)
  BY <1>6, <1>7 DEF Takes
<1> QED BY <1>2, <1>8

LEMMA FittingFits ==
  ASSUME NEW S \in SUBSET Source, NEW files \in Seq(S), NEW limit
  PROVE  /\ Fitting(files, limit) \in Seq(S)
         /\ Len(Fitting(files, limit)) <= Len(files)
<1> DEFINE n == Len(files)
           in == CHOOSE in : Takes(in, files, limit, n)
<1>1. n \in Nat /\ \A k \in 1 .. n : files[k] \in S
  OBVIOUS
<1>2. Takes(in, files, limit, n)
  BY <1>1, TakesExists
<1>3. Fitting(files, limit) = in[n]
  BY DEF Fitting, Takes
<1> HIDE DEF in
<1> DEFINE Fine(k) == in[k] \in Seq(S) /\ Len(in[k]) <= k
           Bad == {k \in 0 .. n : ~Fine(k)}
<1>4. Bad = {}
  <2> SUFFICES ASSUME Bad # {} PROVE FALSE
    OBVIOUS
  <2>1. PICK k \in Bad : \A l \in Bad : k <= l
    <3>1. Bad \in SUBSET Nat
      OBVIOUS
    <3> HIDE DEF Bad
    <3> QED BY <3>1, LeastNatural
  <2>2. k # 0
    BY <1>1, <1>2, <2>1 DEF Takes
  <2>3. k - 1 \in 0 .. n /\ k \in 1 .. n /\ k - 1 \notin Bad
    BY <1>1, <2>1, <2>2
  <2>4. in[k - 1] \in Seq(S) /\ Len(in[k - 1]) <= k - 1
    BY <2>3
  <2>5. in[k] = in[k - 1] \/ in[k] = Append(in[k - 1], files[k])
    <3>1. in[k] = Take(in[k - 1], files[k], limit)
      BY <1>2, <2>2, <2>3 DEF Takes
    <3> QED BY <3>1 DEF Take
  <2>6. /\ Append(in[k - 1], files[k]) \in Seq(S)
        /\ Len(Append(in[k - 1], files[k])) = Len(in[k - 1]) + 1
    BY <1>1, <2>3, <2>4
  <2>7. Fine(k)
    <3>1. k \in Nat /\ Len(in[k - 1]) \in Nat
      BY <2>3, <2>4
    <3>2. CASE in[k] = in[k - 1]
      BY <2>4, <3>1, <3>2
    <3>3. CASE in[k] = Append(in[k - 1], files[k])
      BY <2>4, <2>6, <3>1, <3>3
    <3> QED BY <2>5, <3>2, <3>3
  <2> QED BY <2>1, <2>7
<1>5. Fine(n)
  BY <1>1, <1>4
<1> QED BY <1>3, <1>5

\* The note on what was left out has a length.
LEMMA NoteIsLength == \A n \in Nat : Note(n) \in Nat
<1> SUFFICES ASSUME NEW n \in Nat PROVE Note(n) \in Nat
  OBVIOUS
<1> DEFINE D == {k \in 1 .. n : \E i \in 0 .. n : k = Radix ^ i}
<1>1. IsFiniteSet(1 .. n) /\ D \subseteq 1 .. n
  BY FS_Interval
<1> HIDE DEF D
<1>2. Cardinality(D) \in Nat
  BY <1>1, FS_Subset, FS_CardinalityType
<1> QED BY <1>2, ScanAssumption DEF Note, Digits, D

(***************************************************************************)
(* The packet of the files keeps to its bytes with the note, and counts    *)
(* every file that it leaves out (buildContextPacket).                     *)
(***************************************************************************)
LEMMA PacketFits ==
  ASSUME NEW S \in SUBSET Source, NEW files \in Seq(S), NEW limit \in Nat,
         NEW packet, packet = BuildContextPacket(files, limit)
  PROVE  /\ DOMAIN packet = {"included", "omitted", "bytes"}
         /\ packet.included \in Seq(S)
         /\ packet.omitted \in Nat /\ Len(packet.included) + packet.omitted = Len(files)
         /\ packet.bytes \in Nat /\ packet.bytes <= limit
         /\ Size(packet.included) \in Nat /\ Size(packet.included) <= packet.bytes
<1> DEFINE fitting == Fitting(files, limit)
           Rendered(k) == Size(SubSeq(fitting, 1, k)) + Note(Len(files) - k)
           fits == {0} \cup {k \in 1 .. Len(fitting) : Rendered(k) <= limit}
           kept == Max(fits)
<1>1. /\ fitting \in Seq(S) /\ Len(fitting) \in Nat /\ Len(fitting) <= Len(files)
      /\ Len(files) \in Nat
  BY FittingFits
<1>2. packet = [included |-> SubSeq(fitting, 1, kept), omitted |-> Len(files) - kept,
                bytes |-> IF Rendered(kept) <= limit THEN Rendered(kept) ELSE 0]
  BY DEF BuildContextPacket
<1> HIDE DEF fitting
<1>3. kept \in fits
  <2>1. fits \in SUBSET Nat /\ fits # {} /\ \A k \in fits : k <= Len(fitting)
    BY <1>1
  <2> HIDE DEF fits
  <2> QED BY <1>1, <2>1, Greatest
<1>4. kept \in 0 .. Len(fitting) /\ (kept # 0 => Rendered(kept) <= limit)
  BY <1>1, <1>3
<1> HIDE DEF kept, fits
<1>5. /\ SubSeq(fitting, 1, kept) \in Seq(S) /\ Len(SubSeq(fitting, 1, kept)) = kept
      /\ kept = 0 => SubSeq(fitting, 1, kept) = <<>>
  BY <1>1, <1>4
<1>6. SubSeq(fitting, 1, kept) \in Seq(Source)
  BY <1>5
<1>7. /\ Size(SubSeq(fitting, 1, kept)) \in Nat
      /\ kept = 0 => Size(SubSeq(fitting, 1, kept)) = 0
  BY <1>5, <1>6, SizeType
<1>8. Rendered(kept) \in Nat /\ Size(SubSeq(fitting, 1, kept)) <= Rendered(kept)
  <2>1. Len(files) - kept \in Nat
    BY <1>1, <1>4
  <2>2. Note(Len(files) - kept) \in Nat
    BY Zenon, <2>1, NoteIsLength
  <2> QED BY <1>7, <2>2
<1> HIDE DEF Rendered
<1> QED BY <1>1, <1>2, <1>4, <1>5, <1>7, <1>8

\* Limits of a prompt are counts where they are given.
LimitsKnown(o) == o.limits # Unset => o.limits.files \in Nat /\ o.limits.bytes \in Nat

\* A prompt for the provider, of the files read and those flagged.
WithinPolicy(prompt, policy, files, paths) ==
  /\ prompt.bytes <= policy.maxBytes
  /\ prompt.bytes >= FixedBytes + Size(prompt.included)
  /\ Len(prompt.included) <= policy.maxFiles
  /\ \A f \in Range(prompt.included) : f \in files /\ InScope(f, paths, policy.scope)
  /\ Len(prompt.included) + prompt.omitted <= Cardinality(files)

\* What holds of the prompt of a scan c with the snapshot i.
PromptOK(c, i) ==
  /\ c.pc = "policy" => LimitsKnown(c.options) /\ LimitsKnown(c.llm)
  /\ c.policy.enabled => c.policy.maxFiles \in Nat /\ c.policy.maxBytes \in Nat
  /\ c.sent => /\ ~c.dry /\ c.policy.enabled
               /\ WithinPolicy(c.prompt, c.policy, Got(i), Got(i) \cap Flagged)

PromptInv == \A p \in Process : PromptOK(scan[p], intake[p])

(***************************************************************************)
(* The prompt of files that were read keeps to the policy                  *)
(* (buildBudgetedSemanticPrompt).                                          *)
(***************************************************************************)
LEMMA PromptFits ==
  ASSUME NEW files \in SUBSET Source, NEW paths, NEW policy, FixedPartFits(policy),
         policy.maxFiles \in Nat, policy.maxBytes \in Nat
  PROVE  WithinPolicy(BuildBudgetedSemanticPrompt(files, paths, policy), policy, files, paths)
<1> DEFINE S == InScopeOf(files, paths, policy.scope)
           taken == SelectLlmCandidateFiles(files, paths, policy)
           limit == policy.maxBytes - FixedBytes
           packet == BuildContextPacket(taken, limit)
           prompt == [packet EXCEPT !.bytes = @ + FixedBytes]
<1>1. limit \in Nat
  BY ScanAssumption DEF FixedPartFits
<1>2. S \in SUBSET files /\ S \in SUBSET Source /\ \A f \in S : InScope(f, paths, policy.scope)
  BY DEF InScopeOf
<1>3. /\ taken \in Seq(S) /\ Len(taken) <= policy.maxFiles
      /\ Len(taken) <= Cardinality(files)
  BY SelectionFits
<1>4. Cardinality(files) \in Nat /\ Len(taken) \in Nat
  <2>1. Cardinality(files) \in Nat
    BY Ranked
  <2> HIDE DEF taken, S
  <2> QED BY <1>3, <2>1
<1> HIDE DEF S, taken, limit
<1>5. /\ DOMAIN packet = {"included", "omitted", "bytes"}
      /\ packet.included \in Seq(S)
      /\ packet.omitted \in Nat /\ Len(packet.included) + packet.omitted = Len(taken)
      /\ packet.bytes \in Nat /\ packet.bytes <= limit
      /\ Size(packet.included) \in Nat /\ Size(packet.included) <= packet.bytes
  BY <1>1, <1>2, <1>3, PacketFits
<1> HIDE DEF packet
<1>6. /\ prompt.included = packet.included /\ prompt.omitted = packet.omitted
      /\ prompt.bytes = packet.bytes + FixedBytes
  BY <1>5
<1>7. Len(packet.included) \in Nat /\ Range(packet.included) \subseteq S
  BY <1>5 DEF Range
<1> HIDE DEF prompt
<1>8. WithinPolicy(prompt, policy, files, paths)
  <2>1. prompt.bytes <= policy.maxBytes
    BY <1>1, <1>5, <1>6, ScanAssumption DEF limit
  <2>2. prompt.bytes >= FixedBytes + Size(prompt.included)
    BY <1>5, <1>6, ScanAssumption
  <2>3. Len(prompt.included) <= policy.maxFiles
    BY <1>3, <1>4, <1>5, <1>6, <1>7
  <2>4. Len(prompt.included) + prompt.omitted <= Cardinality(files)
    BY <1>3, <1>4, <1>5, <1>6, <1>7
  <2>5. \A f \in Range(prompt.included) : f \in files /\ InScope(f, paths, policy.scope)
    BY <1>2, <1>6, <1>7
  <2> QED BY <2>1, <2>2, <2>3, <2>4, <2>5 DEF WithinPolicy
<1> QED BY <1>8 DEF BuildBudgetedSemanticPrompt, prompt, packet, taken, limit

\* The limits of a policy come from the command line, the profile, or the defaults.
LEMMA PolicyKnown ==
  ASSUME NEW o, NEW l, LimitsKnown(o), LimitsKnown(l), NEW dry, NEW policy,
         policy = ParseLlmExecutionPolicy(o, l, dry), policy.enabled
  PROVE  policy.maxFiles \in Nat /\ policy.maxBytes \in Nat
<1>1. policy # Refused
  BY DEF Refused
<1> DEFINE limits == Or(o.limits, l.limits)
<1>2. /\ policy.maxFiles = IF limits = Unset THEN 20 ELSE limits.files
      /\ policy.maxBytes = IF limits = Unset THEN 80000 ELSE limits.bytes
  BY <1>1 DEF ParseLlmExecutionPolicy
<1>3. limits # Unset => limits.files \in Nat /\ limits.bytes \in Nat
  BY DEF LimitsKnown, Or
<1> QED BY <1>2, <1>3

\* A scan that goes on says nothing new of its prompt.
SamePrompt(c, d) ==
  /\ d.options = c.options /\ d.llm = c.llm /\ d.policy = c.policy /\ d.prompt = c.prompt
  /\ d.sent = c.sent /\ d.dry = c.dry /\ d.pc # "policy"

LEMMA SamePromptKept ==
  ASSUME NEW c, NEW d, NEW i, NEW j, PromptOK(c, i), SamePrompt(c, d), c.sent => j = i
  PROVE  PromptOK(d, j)
BY DEF PromptOK, SamePrompt

\* A scan that begins knows its limits.
LEMMA LaunchKnows ==
  ASSUME DOMAIN scan = Process, NEW p \in Process, NEW dry, NEW options, NEW llm,
         Launch(p, dry, options, llm), LimitsKnown(options), LimitsKnown(llm), NEW i
  PROVE  PromptOK(scan'[p], i)
<1> DEFINE t == [NoScan EXCEPT !.pc = "policy", !.dry = dry, !.options = options, !.llm = llm]
<1>1. ToScan(p, t)
  BY DEF Launch
<1>2. t.sent = FALSE /\ t.policy = Refused /\ t.options = options /\ t.llm = llm
  BY DEF NoScan
<1> HIDE DEF t
<1>3. PromptOK(t, i)
  BY <1>2 DEF PromptOK, Refused
<1> QED BY <1>1, <1>3, ToScanSets

\* The prompt of the provider: what Diagnose sends.
LEMMA DiagnosePrompt ==
  ASSUME DOMAIN scan = Process, NEW p \in Process, ScanOK(scan[p]), PromptOK(scan[p], intake[p]),
         Files(p) \in SUBSET Source, Diagnose(p)
  PROVE  PromptOK(scan'[p], intake[p])
<1> DEFINE s == scan[p]
<1>1. DOMAIN s = DOMAIN NoScan /\ s.pc = "diagnose" /\ ~s.dry
  BY DEF Diagnose, ScanOK
<1>2. ASSUME NEW pc \in {"output", "error"}, ToScan(p, [s EXCEPT !.pc = pc])
      PROVE  PromptOK(scan'[p], intake[p])
  <2>1. SamePrompt(s, [s EXCEPT !.pc = pc])
    BY <1>1, <1>2, ScanFields DEF SamePrompt
  <2> QED BY <1>2, <2>1, SamePromptKept, ToScanSets
<1>3. ASSUME s.policy.enabled, FixedPartFits(s.policy), NEW pc \in {"output", "error"},
             NEW semantic, NEW prompt,
             prompt = BuildBudgetedSemanticPrompt(Files(p), Paths(p), s.policy),
             ToScan(p, [s EXCEPT !.pc = pc, !.sent = TRUE, !.prompt = prompt,
                                 !.semantic = semantic])
      PROVE  PromptOK(scan'[p], intake[p])
  <2> DEFINE t == [s EXCEPT !.pc = pc, !.sent = TRUE, !.prompt = prompt, !.semantic = semantic]
  <2>1. ToScan(p, t)
    BY <1>3
  <2>2. /\ t.pc = pc /\ t.dry = s.dry /\ t.policy = s.policy /\ t.prompt = prompt
    BY <1>1, ScanFields
  <2> HIDE DEF t
  <2>3. s.policy.maxFiles \in Nat /\ s.policy.maxBytes \in Nat
    BY <1>3 DEF PromptOK
  <2>4. WithinPolicy(prompt, s.policy, Files(p), Paths(p))
    BY <1>3, <2>3, PromptFits
  <2>5. PromptOK(t, intake[p])
    BY <1>1, <1>3, <2>2, <2>3, <2>4 DEF PromptOK, Files, Paths
  <2> QED BY <2>1, <2>5, ToScanSets
<1> QED BY <1>2, <1>3 DEF Diagnose

\* The files of a snapshot are sources that were read.
LEMMA FilesAreSources ==
  ASSUME IntakeInv, NEW p \in Process
  PROVE  Files(p) \in SUBSET Source
<1>1. intake[p] \in State
  BY DEF IntakeInv, Local
<1>2. intake[p].got \in Seq(Reading)
  BY <1>1 DEF State
<1>3. ASSUME NEW k \in DOMAIN intake[p].got
      PROVE  intake[p].got[k].file \in Source
  <2>1. intake[p].got[k] \in Reading
    BY <1>2
  <2> QED BY <2>1 DEF Reading
<1> QED BY <1>3 DEF Files, Got

LEMMA ScanPrompt ==
  ASSUME Inv, NEW p \in Process, PromptOK(scan[p], intake[p]), ScanStep(p, Units(p), Wishes(p))
  PROVE  PromptOK(scan'[p], intake'[p])
<1> DEFINE s == scan[p]
<1>1. /\ DOMAIN scan = Process /\ DOMAIN intake = Process
      /\ ScanOK(s) /\ ScanIntake(s, intake[p], baselines) /\ DOMAIN s = DOMAIN NoScan
  BY DEF Inv, CommandsInv, IntakeInv, ScanOK
<1>2. ASSUME NEW pc, pc # "policy", UNCHANGED intake, ToScan(p, [s EXCEPT !.pc = pc])
      PROVE  PromptOK(scan'[p], intake'[p])
  <2>1. SamePrompt(s, [s EXCEPT !.pc = pc])
    BY <1>1, <1>2, ScanFields DEF SamePrompt
  <2> QED BY <1>1, <1>2, <2>1, SamePromptKept, ToScanSets
<1>3. CASE LoadProfile(p)
  <2>1. UNCHANGED intake
    BY <1>3 DEF LoadProfile
  <2>2. CASE profile \in Torn
    BY <1>2, <1>3, <2>1, <2>2 DEF LoadProfile
  <2>3. CASE profile \notin Torn
    <3> DEFINE llm == IF profile = NoProfile THEN NoLlm ELSE profile.llm
    <3>1. PICK dry \in BOOLEAN, options \in Options : Launch(p, dry, options, llm)
      BY <1>3, <2>3 DEF LoadProfile
    <3>2. LimitsKnown(options)
      BY ScanAssumption DEF LimitsKnown
    <3>3. LimitsKnown(llm)
      <4>1. CASE profile = NoProfile
        BY <4>1 DEF NoLlm, LimitsKnown
      <4>2. CASE profile \in Profiles
        <5>1. profile.llm.limits \in Limit \cup {Unset} /\ profile # NoProfile
          BY <4>2, SetupAssumption DEF Profiles
        <5> QED BY <5>1, SetupAssumption DEF LimitsKnown
      <4> QED BY <2>3, <4>1, <4>2 DEF Inv, ProfileInv
    <3> HIDE DEF llm
    <3> QED BY <1>1, <3>1, <3>2, <3>3, LaunchKnows
  <2> QED BY <2>2, <2>3
<1>4. CASE ParsePolicy(p, Units(p))
  <2> DEFINE policy == ParseLlmExecutionPolicy(s.options, s.llm, s.dry)
             t == [s EXCEPT !.pc = "intake", !.policy = policy]
  <2>1. s.pc = "policy" /\ ~s.sent
    BY <1>1, <1>4 DEF ParsePolicy, ScanOK, Unasked
  <2>2. CASE ToScan(p, [s EXCEPT !.pc = "error"])
    BY <1>2, <1>4, <2>1, <2>2, <1>1, ScanFields, ToScanSets, SamePromptKept DEF SamePrompt
  <2>3. CASE ToScan(p, t)
    <3>1. t.pc = "intake" /\ t.policy = policy /\ t.sent = s.sent
      BY <1>1, ScanFields
    <3>2. policy.enabled => policy.maxFiles \in Nat /\ policy.maxBytes \in Nat
      BY <2>1, PolicyKnown DEF PromptOK
    <3> HIDE DEF t, policy
    <3>3. PromptOK(t, intake'[p])
      BY <2>1, <3>1, <3>2 DEF PromptOK
    <3> QED BY <1>1, <2>3, <3>3, ToScanSets
  <2> QED BY <1>4, <2>2, <2>3 DEF ParsePolicy
<1>5. CASE IntakeEnds(p)
  BY <1>2, <1>5 DEF IntakeEnds
<1>6. CASE ParseOptions(p, Wishes(p))
  <2>1. CASE ToScan(p, [s EXCEPT !.pc = "error"])
    BY <1>2, <1>6, <2>1 DEF ParseOptions
  <2>2. ASSUME NEW asked, ToScan(p, [s EXCEPT !.pc = "diagnose", !.asked = asked])
        PROVE  PromptOK(scan'[p], intake'[p])
    <3>1. SamePrompt(s, [s EXCEPT !.pc = "diagnose", !.asked = asked]) /\ UNCHANGED intake
      BY <1>1, <1>6, ScanFields DEF SamePrompt, ParseOptions
    <3> QED BY <1>1, <2>2, <3>1, SamePromptKept, ToScanSets
  <2> QED BY <1>6, <2>1, <2>2 DEF ParseOptions
<1>7. CASE Diagnose(p)
  <2>1. Files(p) \in SUBSET Source
    BY FilesAreSources DEF Inv
  <2>2. UNCHANGED intake
    BY <1>7 DEF Diagnose
  <2> QED BY <1>1, <1>7, <2>1, <2>2, DiagnosePrompt
<1>8. CASE Output(p) \/ End(p)
  BY <1>2, <1>8 DEF Output, End
<1>9. ASSUME NEW what \in Recordings, RecordOne(p, what)
      PROVE  PromptOK(scan'[p], intake'[p])
  <2>1. /\ UNCHANGED intake
        /\ \A w \in Recordings : NextOf[w] # "policy" /\ AfterFailure(w) # "policy"
    BY <1>9 DEF RecordOne, Recordings, NextOf, AfterFailure
  <2>2. CASE ToScan(p, [s EXCEPT !.pc = NextOf[what]])
    BY <1>2, <2>1, <2>2
  <2>3. CASE ToScan(p, [s EXCEPT !.pc = NextOf[what], !.recorded = @ \cup {what}])
    <3>1. SamePrompt(s, [s EXCEPT !.pc = NextOf[what], !.recorded = @ \cup {what}])
      BY <1>1, <2>1, ScanFields DEF SamePrompt
    <3> QED BY <1>1, <2>1, <2>3, <3>1, SamePromptKept, ToScanSets
  <2>4. CASE ToScan(p, [s EXCEPT !.pc = AfterFailure(what), !.failed = @ \cup {what}])
    <3>1. SamePrompt(s, [s EXCEPT !.pc = AfterFailure(what), !.failed = @ \cup {what}])
      BY <1>1, <2>1, ScanFields DEF SamePrompt
    <3> QED BY <1>1, <2>1, <2>4, <3>1, SamePromptKept, ToScanSets
  <2> QED BY <1>9, <2>2, <2>3, <2>4 DEF RecordOne
<1>10. CASE IntakeStep(p) /\ UNCHANGED <<profile, baselines, scan>>
  <2>1. intake[p].pc # "done"
    BY <1>1, <1>10, IntakeStepMoves
  <2>2. ~s.sent
    BY <1>1, <2>1 DEF ScanIntake
  <2> QED BY <1>10, <2>2 DEF PromptOK
<1> QED BY <1>3, <1>4, <1>5, <1>6, <1>7, <1>8, <1>9, <1>10 DEF ScanStep

LEMMA StepPrompt ==
  ASSUME Inv, PromptInv, [Next]_vars
  PROVE  PromptInv'
<1>1. DOMAIN scan = Process /\ DOMAIN intake = Process
  BY DEF Inv, CommandsInv, IntakeInv
<1>2. CASE UNCHANGED <<intake, scan>>
  BY <1>2 DEF PromptInv
<1>3. ASSUME NEW p \in Process, ScanStep(p, Units(p), Wishes(p))
      PROVE  PromptInv'
  <2>1. PromptOK(scan'[p], intake'[p])
    BY <1>3, ScanPrompt DEF PromptInv
  <2>2. \A q \in Process \ {p} : intake'[q] = intake[q]
    BY <1>1, <1>3, OwnIntake
  <2>3. \A q \in Process \ {p} : scan'[q] = scan[q]
    <3>1. Wishes(p) \in SUBSET (SUBSET Recordings)
      BY DEF Wishes, Recordings
    <3> QED BY <1>1, <1>3, <3>1, ScanKeeps DEF Inv, CommandsInv, ScanKept
  <2> QED BY <2>1, <2>2, <2>3 DEF PromptInv
<1>4. ASSUME NEW p \in Process, SetupStep(p)
      PROVE  PromptInv'
  <2>1. UNCHANGED intake
    BY <1>4 DEF SetupStep, Start, Ask, AskScan, LookAtConfig, CountBaselines, WriteConfig,
             LoadExisting, TruncateProfile, FillProfile, CheckEligible, LaunchScan, ScanEnds
  <2>2. CASE LaunchScan(p)
    <3>1. CASE UNCHANGED scan
      BY <1>2, <2>1, <3>1
    <3>2. CASE Launch(p, FALSE, [NoLlm EXCEPT !.provider = setup[p].provider], NoLlm)
      <4> DEFINE options == [NoLlm EXCEPT !.provider = setup[p].provider]
      <4>1. LimitsKnown(options) /\ LimitsKnown(NoLlm)
        BY DEF LimitsKnown, NoLlm
      <4> HIDE DEF options
      <4>2. PromptOK(scan'[p], intake[p])
        BY <1>1, <3>2, <4>1, LaunchKnows DEF options
      <4>3. \A q \in Process \ {p} : scan'[q] = scan[q]
        BY <1>1, <3>2, ToScanSets DEF Launch
      <4> QED BY <2>1, <4>2, <4>3 DEF PromptInv
    <3> QED BY <2>2, <3>1, <3>2 DEF LaunchScan
  <2>3. CASE Start(p) \/ Ask(p) \/ AskScan(p) \/ LookAtConfig(p) \/ CountBaselines(p) \/ WriteConfig(p)
             \/ LoadExisting(p) \/ TruncateProfile(p) \/ FillProfile(p) \/ CheckEligible(p) \/ ScanEnds(p)
    <3>1. UNCHANGED scan
      BY <2>3 DEF Start, Ask, AskScan, LookAtConfig, CountBaselines, WriteConfig,
               LoadExisting, TruncateProfile, FillProfile, CheckEligible, ScanEnds
    <3> QED BY <1>2, <2>1, <3>1
  <2> QED BY <1>4, <2>2, <2>3 DEF SetupStep
<1>5. CASE (Edit \/ Commit) /\ UNCHANGED <<profile, baselines, scan, setup>>
  BY <1>2, <1>5 DEF Edit, Commit
<1>6. CASE UNCHANGED vars
  BY <1>2, <1>6 DEF vars
<1> QED BY <1>3, <1>4, <1>5, <1>6 DEF Next

(***************************************************************************)
(* What leaves for the provider keeps to the policy, whatever the sizes of *)
(* the files, the limits, the options and the profile: no more files and   *)
(* bytes than it allows, none out of its scope, and what is left out is    *)
(* counted (selectLlmCandidateFiles, buildContextPacket).                  *)
(***************************************************************************)
THEOREM PromptLimited == Spec => []PromptWithinPolicy
<1>1. Init => PromptInv
  <2> SUFFICES ASSUME Init, NEW p \in Process PROVE PromptOK(scan[p], intake[p])
    BY DEF PromptInv
  <2>1. scan[p].sent = FALSE /\ scan[p].policy = Refused /\ scan[p].pc \in {"idle", "profile"}
    BY DEF Init, InitCommands, NoScan
  <2> QED BY <2>1 DEF PromptOK, Refused
<1>2. Inv /\ PromptInv => PromptWithinPolicy
  BY DEF PromptInv, PromptOK, WithinPolicy, PromptWithinPolicy, Files, Paths
<1> QED BY <1>1, <1>2, StepPrompt, Invariance, PTL DEF Spec
=============================================================================
