-------------------------- MODULE TrendStore_proofs --------------------------
(***************************************************************************)
(* Theorems about TrendStore, for any number of scans, inodes, Git states, *)
(* any retention period and any bounds, and the refinement of TrendAlone.  *)
(***************************************************************************)
EXTENDS TrendAlone, TLAPS, FiniteSetTheorems, WellFoundedInduction

(***************************************************************************)
(* A finite set of lines has a last one: among the sets of lines behind    *)
(* each line, the smallest by inclusion is empty.                          *)
(***************************************************************************)
LEMMA LastLineExists ==
  ASSUME NEW S \in Lines, S # {}
  PROVE  LastLine(S) \in S /\ \A k \in S : k.n <= LastLine(S).n
<1> DEFINE After(l) == {k \in S : l.n < k.n}
           D == {After(l) : l \in S}
           R == StrictSubsetOrdering(S)
<1>1. IsWellFoundedOn(R, FiniteSubsetsOf(S))
  BY FS_StrictSubsetOrderingWellFounded
<1>2. D \subseteq FiniteSubsetsOf(S) /\ D # {}
  <2>1. IsFiniteSet(S)
    BY DEF Lines
  <2>2. \A l \in S : After(l) \in SUBSET S /\ IsFiniteSet(After(l))
    BY <2>1, FS_Subset
  <2> QED BY <2>2 DEF FiniteSubsetsOf
<1>3. PICK d \in D : \A e \in D : <<e, d>> \notin R
  BY <1>1, <1>2, WFMin
<1>4. PICK l \in S : d = After(l)
  OBVIOUS
<1>5. \A k \in S : k.n <= l.n
  <2> SUFFICES ASSUME NEW k \in S, ~(k.n <= l.n)
               PROVE  FALSE
    OBVIOUS
  <2>1. k.n \in Int /\ l.n \in Int /\ \A j \in S : j.n \in Int
    BY DEF Lines, Line
  <2>2. After(k) \subseteq After(l) /\ k \in After(l) /\ k \notin After(k)
    BY <2>1
  <2>3. <<After(k), After(l)>> \in R
    BY <2>2 DEF StrictSubsetOrdering
  <2> QED BY <2>3, <1>3, <1>4
<1> QED BY <1>5 DEF LastLine

LEMMA RetainedType ==
  ASSUME NEW S \in Lines, NEW cutoff
  PROVE  Retained(S, cutoff) \in Lines
<1>1. IsFiniteSet(S) /\ Retained(S, cutoff) \in SUBSET S
  BY DEF Lines, Retained
<1>2. IsFiniteSet(Retained(S, cutoff))
  BY <1>1, FS_Subset
<1> QED BY <1>1, <1>2 DEF Lines

LEMMA AppendedType ==
  ASSUME NEW S \in Lines, NEW nl \in BOOLEAN, NEW line \in Line
  PROVE  Appended(S, nl, line) \in Lines
<1>1. IsFiniteSet(S) /\ S \subseteq Line
  BY DEF Lines
<1>2. CASE S = {} \/ nl
  <2>1. Appended(S, nl, line) = S \cup {line}
    BY <1>2 DEF Appended
  <2>2. IsFiniteSet(S \cup {line})
    BY <1>1, FS_AddElement
  <2> QED BY <1>1, <2>1, <2>2 DEF Lines
<1>3. CASE ~(S = {} \/ nl)
  <2> DEFINE glued == [LastLine(S) EXCEPT !.ok = FALSE]
  <2>1. Appended(S, nl, line) = (S \ {LastLine(S)}) \cup {glued}
    BY <1>3 DEF Appended
  <2>2. LastLine(S) \in Line
    BY <1>1, <1>3, LastLineExists
  <2>3. glued \in Line
    BY <2>2 DEF Line
  <2>4. IsFiniteSet(S \ {LastLine(S)})
    BY <1>1, FS_RemoveElement
  <2>5. IsFiniteSet((S \ {LastLine(S)}) \cup {glued})
    BY <2>4, FS_AddElement
  <2> QED BY <1>1, <2>1, <2>3, <2>5 DEF Lines
<1> QED BY <1>2, <1>3

LEMMA BaseOfType ==
  ASSUME NEW file \in File \cup {NoFile}, NEW snap \in GitState
  PROVE  BaseOf(file, snap) \in Proc \cup Seed \cup {NoBase}
<1>1. CASE file = NoFile \/ (file # NoFile /\ file.lines = {})
  BY <1>1 DEF BaseOf
<1>2. CASE file # NoFile /\ file.lines # {}
  <2>1. file.lines \in Lines
    BY <1>2 DEF File
  <2>2. LastLine(file.lines) \in file.lines
    BY <1>2, <2>1, LastLineExists
  <2>3. LastLine(file.lines).id \in Proc \cup Seed
    BY <2>1, <2>2 DEF Lines, Line
  <2> QED BY <1>2, <2>3 DEF BaseOf
<1> QED BY <1>1, <1>2

LEMMA NewLineType ==
  ASSUME NEW p \in Proc, mem[p] \in Memory, NEW n \in Int
  PROVE  NewLine(p, n) \in Line
BY DEF NewLine, Memory, Line

-----------------------------------------------------------------------------
(***************************************************************************)
(* The inductive invariant.  What a step relies on: a copy taken at the    *)
(* current version is still the file; a temporary file about to be renamed *)
(* holds the process's result and lies in the directory it validated; the  *)
(* base read at the current version is still the last line.                *)
(***************************************************************************)
CopyInv(p) ==
  Writing(p) /\ CopyCurrent(p) =>
    mem[p].out = IF mem[p].phase = "retain"
                 THEN Retained(LinesOf(history), mem[p].cutoff)
                 ELSE Appended(LinesOf(history), EndsInNewline(history),
                               NewLine(p, version + 1))

VersionInv(p) == mem[p].copyAt <= version /\ mem[p].baseAt <= version

TempInv(p) ==
  /\ temp[p] # NoFile => dir # NoDir
  /\ pc[p] \in {"renameGuard", "rename"} /\ temp[p] # NoFile =>
       temp[p] = [lines |-> mem[p].out, nl |-> TRUE, whole |-> TRUE]
  /\ pc[p] = "rename" /\ temp[p] # NoFile => dir = mem[p].inode

HasBase(p) ==
  \/ pc[p] \in {"appendGuard", "mkdir", "mkdirGuard", "read"}
  \/ Writing(p) /\ mem[p].phase = "append"

BaseInv(p) ==
  HasBase(p) /\ mem[p].baseAt = version => mem[p].base = BaseOf(history, mem[p].snap)

ProcInv(p) == CopyInv(p) /\ VersionInv(p) /\ TempInv(p) /\ BaseInv(p)

IInv == TypeOK /\ HistoryNeverTorn /\ \A p \in Proc : ProcInv(p)

LEMMA InitIInv == Init => IInv
<1> SUFFICES ASSUME Init PROVE IInv
  OBVIOUS
<1> USE ConstantAssumption
<1>1. {} \in Lines
  BY FS_EmptySet DEF Lines
<1>2. history \in File \cup {NoFile} /\ dir \in Inode \cup {NoDir}
  BY DEF Init
<1>3. mem \in [Proc -> Memory]
  BY <1>1 DEF Init, Memory, Phases
<1>4. TypeOK
  <2>1. now \in 0 .. MaxTime /\ losses \in 0 .. MaxLosses /\ version \in Nat
    BY DEF Init
  <2>2. temp \in [Proc -> File \cup {NoFile}]
    BY DEF Init
  <2>3. pc \in [Proc -> {"begin"} \cup Steps \cup Terminal] /\ git \in GitState
    BY DEF Init
  <2> QED BY <1>2, <1>3, <2>1, <2>2, <2>3 DEF TypeOK
<1>5. HistoryNeverTorn
  BY DEF Init, HistoryNeverTorn
<1>6. \A p \in Proc : ProcInv(p)
  BY DEF Init, ProcInv, CopyInv, VersionInv, TempInv, BaseInv, Writing, HasBase
<1> QED BY <1>4, <1>5, <1>6 DEF IInv

(***************************************************************************)
(* What disturbs the invariant of a process: a replacement of the file     *)
(* makes its copies stale (so they promise nothing), a directory that is   *)
(* made again holds no temporary file, and a process that has stopped      *)
(* promises nothing but what it remembers.                                 *)
(***************************************************************************)
LEMMA Frame ==
  ASSUME IInv, NEW q \in Proc,
         UNCHANGED <<history, version>>,
         dir' = dir \/ dir = NoDir,
         pc'[q] = pc[q] \/ pc'[q] \in Terminal,
         mem'[q] = mem[q],
         temp'[q] \in {temp[q], NoFile}
  PROVE  ProcInv(q)'
<1>1. ProcInv(q)
  BY DEF IInv
<1>2. Writing(q)' => Writing(q)
  BY DEF Writing, Terminal
<1>3. NewLine(q, version + 1)' = NewLine(q, version + 1)
  BY DEF NewLine
<1>4. CopyInv(q)'
  BY <1>1, <1>2, <1>3 DEF ProcInv, CopyInv, CopyCurrent
<1>5. VersionInv(q)'
  BY <1>1 DEF ProcInv, VersionInv
<1>6. TempInv(q)'
  BY <1>1 DEF ProcInv, TempInv, Terminal
<1>7. BaseInv(q)'
  BY <1>1, <1>2 DEF ProcInv, BaseInv, HasBase, Terminal
<1> QED BY <1>4, <1>5, <1>6, <1>7 DEF ProcInv

LEMMA Replaced ==
  ASSUME IInv, NEW q \in Proc,
         version' = version + 1,
         mem'[q] = mem[q],
         pc'[q] = pc[q],
         \/ temp'[q] = NoFile
         \/ temp'[q] = temp[q] /\ dir' = dir
  PROVE  ProcInv(q)'
<1>1. ProcInv(q) /\ version \in Nat /\ mem[q] \in Memory
  BY DEF IInv, TypeOK
<1>2. mem[q].copyAt \in Nat /\ mem[q].baseAt \in Nat
  BY <1>1 DEF Memory
<1>3. mem'[q].copyAt < version' /\ mem'[q].baseAt < version'
  BY <1>1, <1>2 DEF ProcInv, VersionInv
<1>4. CopyInv(q)' /\ BaseInv(q)' /\ VersionInv(q)'
  BY <1>1, <1>2, <1>3 DEF CopyInv, BaseInv, VersionInv, CopyCurrent
<1>5. TempInv(q)'
  BY <1>1 DEF ProcInv, TempInv
<1> QED BY <1>4, <1>5 DEF ProcInv

\* One process moves: the invariant of the others is framed.
LEMMA OneMoves ==
  ASSUME IInv, NEW p \in Proc, TypeOK',
         UNCHANGED <<history, version>>,
         dir' = dir \/ dir = NoDir,
         \A q \in Proc \ {p} : /\ pc'[q] = pc[q] /\ mem'[q] = mem[q]
                               /\ temp'[q] = temp[q],
         ProcInv(p)'
  PROVE  IInv'
<1>1. HistoryNeverTorn'
  BY DEF IInv, HistoryNeverTorn
<1>2. \A q \in Proc \ {p} : ProcInv(q)'
  BY Frame
<1> QED BY <1>1, <1>2 DEF IInv

\* A process that fails or dies.
LEMMA Stops ==
  ASSUME IInv, NEW p \in Proc,
         NEW l \in Terminal, Goto(p, l),
         \/ UNCHANGED temp
         \/ temp' = [temp EXCEPT ![p] = NoFile],
         UNCHANGED <<now, git, dir, losses, history, version, mem>>
  PROVE  IInv'
<1>1. TypeOK'
  BY DEF IInv, TypeOK, Goto
<1>2. pc'[p] \in Terminal /\ temp'[p] \in {temp[p], NoFile}
  BY DEF IInv, TypeOK, Goto
<1>3. \A q \in Proc \ {p} : pc'[q] = pc[q] /\ mem'[q] = mem[q] /\ temp'[q] = temp[q]
  BY DEF IInv, TypeOK, Goto
<1>4. ProcInv(p)'
  BY <1>2, Frame
<1> QED BY <1>1, <1>3, <1>4, OneMoves
-----------------------------------------------------------------------------
(* One lemma for each action.                                              *)

LEMMA BeginIInv == ASSUME IInv, NEW p \in Proc, Begin(p) PROVE IInv'
<1> USE DEF IInv, Begin, Goto, Set
<1>1. mem[p] \in Memory
  BY DEF TypeOK
<1>2. [mem[p] EXCEPT !.snap = git, !.at = now] \in Memory
  <2>1. git \in GitState /\ now \in Int
    BY ConstantAssumption DEF TypeOK
  <2> QED BY ONLY <1>1, <2>1 DEF Memory
<1>3. TypeOK'
  BY <1>2 DEF TypeOK, Steps
<1>4. \A q \in Proc \ {p} : pc'[q] = pc[q] /\ mem'[q] = mem[q] /\ temp'[q] = temp[q]
  BY DEF TypeOK
<1>5. pc'[p] = "check" /\ mem'[p] = [mem[p] EXCEPT !.snap = git, !.at = now]
  BY DEF TypeOK
<1>6. ProcInv(p)'
  <2>1. CopyInv(p)' /\ BaseInv(p)'
    BY <1>5 DEF CopyInv, BaseInv, Writing, HasBase
  <2>2. VersionInv(p)'
    BY <1>1, <1>5 DEF VersionInv, Memory, ProcInv
  <2>3. TempInv(p)'
    BY <1>5 DEF TempInv, ProcInv
  <2> QED BY <2>1, <2>2, <2>3 DEF ProcInv
<1> QED BY <1>3, <1>4, <1>6, OneMoves

LEMMA CheckIntegrityIInv == ASSUME IInv, NEW p \in Proc, CheckIntegrity(p) PROVE IInv'
<1>1. CASE git = mem[p].snap
  <2> USE <1>1 DEF IInv, CheckIntegrity, Goto
  <2>1. TypeOK'
    BY DEF TypeOK, Steps
  <2>2. pc'[p] = "resolve" /\ mem' = mem /\ temp' = temp
    BY DEF TypeOK
  <2>3. \A q \in Proc \ {p} : pc'[q] = pc[q]
    BY DEF TypeOK
  <2>4. ProcInv(p)'
    BY <2>2 DEF ProcInv, CopyInv, VersionInv, TempInv, BaseInv, Writing, HasBase
  <2> QED BY <2>1, <2>2, <2>3, <2>4, OneMoves
<1>2. CASE git # mem[p].snap
  BY <1>2, Stops DEF CheckIntegrity, Fail, Terminal
<1> QED BY <1>1, <1>2

LEMMA ResolveDirIInv == ASSUME IInv, NEW p \in Proc, ResolveDir(p) PROVE IInv'
<1> USE DEF IInv, Goto, Set
<1>1. PICK i \in IF dir = NoDir THEN Inode ELSE {dir} :
        /\ dir' = i
        /\ mem' = [mem EXCEPT ![p] = [mem[p] EXCEPT !.cutoff = now - RetentionDays,
                                                    !.inode = i]]
  BY DEF ResolveDir
<1> DEFINE m == [mem[p] EXCEPT !.cutoff = now - RetentionDays, !.inode = i]
<1>2. mem[p] \in Memory /\ i \in Inode \cup {NoDir} /\ now - RetentionDays \in Int
  BY <1>1, ConstantAssumption DEF TypeOK
<1>3. m \in Memory /\ m.copyAt = mem[p].copyAt /\ m.baseAt = mem[p].baseAt
  BY ONLY <1>2 DEF Memory
<1>4. TypeOK'
  <2>1. mem' \in [Proc -> Memory]
    BY <1>1, <1>3 DEF TypeOK
  <2>2. pc' \in [Proc -> {"begin"} \cup Steps \cup Terminal]
    BY DEF TypeOK, ResolveDir, Steps, Guards
  <2> QED BY <1>1, <1>2, <2>1, <2>2 DEF TypeOK, ResolveDir
<1>5. pc'[p] = "retainGuard" /\ mem'[p] = m
  BY <1>1 DEF TypeOK, ResolveDir
<1>6. \A q \in Proc \ {p} : pc'[q] = pc[q] /\ mem'[q] = mem[q] /\ temp'[q] = temp[q]
  BY <1>1 DEF TypeOK, ResolveDir
<1>7. ProcInv(p)'
  <2>1. CopyInv(p)' /\ BaseInv(p)'
    BY <1>5 DEF CopyInv, BaseInv, Writing, HasBase
  <2>2. VersionInv(p)'
    BY <1>3, <1>5 DEF VersionInv, ProcInv, ResolveDir
  <2>3. TempInv(p)'
    BY <1>1, <1>5 DEF TempInv, ProcInv, ResolveDir
  <2> QED BY <2>1, <2>2, <2>3 DEF ProcInv
<1> QED BY <1>1, <1>4, <1>6, <1>7, OneMoves DEF ResolveDir

LEMMA GuardIInv == ASSUME IInv, NEW p \in Proc, Guard(p) PROVE IInv'
<1>1. CASE dir = mem[p].inode
  <2> USE <1>1 DEF IInv, Guard, Goto
  <2>1. AfterGuard(p) \in {"retainRead", "mkdir", "read", "open", "rename", "load", "done"}
    BY DEF AfterGuard
  <2>2. TypeOK'
    BY <2>1 DEF TypeOK, Steps, Terminal
  <2>3. pc'[p] = AfterGuard(p) /\ mem' = mem /\ temp' = temp
    BY DEF TypeOK
  <2>4. \A q \in Proc \ {p} : pc'[q] = pc[q]
    BY DEF TypeOK
  <2>5. Writing(p)' <=> Writing(p)
    BY <2>3 DEF Writing, AfterGuard, Guards
  <2>6. HasBase(p)' <=> HasBase(p)
    BY <2>3, <2>5 DEF HasBase, AfterGuard, Guards
  <2>7. CopyInv(p)'
    BY <2>3, <2>5 DEF ProcInv, CopyInv, CopyCurrent, NewLine
  <2>8. VersionInv(p)' /\ BaseInv(p)'
    BY <2>3, <2>6 DEF ProcInv, VersionInv, BaseInv
  <2>9. TempInv(p)'
    BY <2>3 DEF ProcInv, TempInv, AfterGuard, Guards
  <2> QED BY <2>2, <2>3, <2>4, <2>7, <2>8, <2>9, OneMoves DEF ProcInv
<1>2. CASE dir # mem[p].inode
  BY <1>2, Stops DEF Guard, Fail, Terminal
<1> QED BY <1>1, <1>2

LEMMA EnsureDirIInv == ASSUME IInv, NEW p \in Proc, EnsureDir(p) PROVE IInv'
<1> USE DEF IInv, EnsureDir, Goto
<1>1. TypeOK'
  BY DEF TypeOK, Steps, Guards
<1>2. pc'[p] = "mkdirGuard" /\ mem' = mem /\ temp' = temp
  BY DEF TypeOK
<1>3. \A q \in Proc \ {p} : pc'[q] = pc[q]
  BY DEF TypeOK
<1>4. ProcInv(p)'
  BY <1>2 DEF ProcInv, CopyInv, VersionInv, TempInv, BaseInv, Writing, HasBase
<1> QED BY <1>1, <1>2, <1>3, <1>4, OneMoves

LEMMA OpenTempIInv == ASSUME IInv, NEW p \in Proc, OpenTemp(p) PROVE IInv'
<1>1. CASE dir = NoDir
  BY <1>1, Stops DEF OpenTemp, Fail, Terminal
<1>2. CASE dir # NoDir
  <2> USE <1>2 DEF IInv, OpenTemp, Goto
  <2> DEFINE t == [lines |-> {}, nl |-> TRUE, whole |-> FALSE]
  <2>1. t \in File
    BY FS_EmptySet DEF File, Lines
  <2>2. TypeOK'
    BY <2>1 DEF TypeOK, Steps
  <2>3. pc'[p] = "fill" /\ mem' = mem
    BY DEF TypeOK
  <2>4. \A q \in Proc \ {p} : pc'[q] = pc[q] /\ temp'[q] = temp[q]
    BY DEF TypeOK
  <2>5. CopyInv(p)'
    BY <2>3 DEF ProcInv, CopyInv, CopyCurrent, Writing, NewLine
  <2>6. VersionInv(p)' /\ TempInv(p)' /\ BaseInv(p)'
    BY <2>3 DEF ProcInv, VersionInv, TempInv, BaseInv, HasBase, Writing
  <2> QED BY <2>2, <2>3, <2>4, <2>5, <2>6, OneMoves DEF ProcInv
<1> QED BY <1>1, <1>2

LEMMA FillTempIInv == ASSUME IInv, NEW p \in Proc, FillTemp(p) PROVE IInv'
<1> USE DEF IInv, FillTemp, Goto
<1> DEFINE t == IF temp[p] = NoFile THEN NoFile
                ELSE [lines |-> mem[p].out, nl |-> TRUE, whole |-> TRUE]
<1>1. temp' = [temp EXCEPT ![p] = t]
  BY DEF TypeOK
<1>2. t \in File \cup {NoFile}
  BY DEF TypeOK, File, Memory
<1>3. TypeOK'
  BY <1>1, <1>2 DEF TypeOK, Steps, Guards
<1>4. pc'[p] = "renameGuard" /\ mem' = mem /\ temp'[p] = t
  BY <1>1 DEF TypeOK
<1>5. \A q \in Proc \ {p} : pc'[q] = pc[q] /\ temp'[q] = temp[q]
  BY <1>1 DEF TypeOK
<1>6. CopyInv(p)'
  BY <1>4 DEF ProcInv, CopyInv, CopyCurrent, Writing, NewLine
<1>7. VersionInv(p)' /\ TempInv(p)' /\ BaseInv(p)'
  BY <1>4 DEF ProcInv, VersionInv, TempInv, BaseInv, HasBase, Writing
<1> QED BY <1>3, <1>4, <1>5, <1>6, <1>7, OneMoves DEF ProcInv

LEMMA RenameTempIInv == ASSUME IInv, NEW p \in Proc, RenameTemp(p) PROVE IInv'
<1>1. CASE temp[p] = NoFile
  BY <1>1, Stops DEF RenameTemp, Fail, Terminal
<1>2. CASE temp[p] # NoFile
  <2> USE <1>2 DEF IInv, RenameTemp, Goto
  <2>1. history' = temp[p] /\ temp[p] \in File /\ history'.whole
    BY DEF TypeOK, ProcInv, TempInv
  <2>2. TypeOK'
    BY <2>1 DEF TypeOK, Steps, Guards
  <2>3. HistoryNeverTorn'
    BY <2>1 DEF HistoryNeverTorn
  <2>4. pc'[p] = "afterGuard" /\ temp'[p] = NoFile /\ mem' = mem
    BY DEF TypeOK
  <2>5. \A q \in Proc \ {p} : pc'[q] = pc[q] /\ temp'[q] = temp[q]
    BY DEF TypeOK
  <2>6. \A q \in Proc \ {p} : ProcInv(q)'
    BY <2>4, <2>5, Replaced
  <2>7. ProcInv(p)'
    <3>1. VersionInv(p)'
      <4>1. mem[p].copyAt \in Nat /\ mem[p].baseAt \in Nat /\ version \in Nat
        BY DEF TypeOK, Memory
      <4> QED BY <2>4, <4>1 DEF VersionInv, ProcInv
    <3> QED BY <2>4, <3>1 DEF ProcInv, CopyInv, TempInv, BaseInv, HasBase, Writing
  <2> QED BY <2>2, <2>3, <2>6, <2>7
<1> QED BY <1>1, <1>2

LEMMA RetainReadIInv == ASSUME IInv, NEW p \in Proc, RetainRead(p) PROVE IInv'
<1> USE DEF IInv, Goto, Set
<1> DEFINE kept == Retained(history.lines, mem[p].cutoff)
           m == [mem[p] EXCEPT !.phase = "retain", !.out = kept, !.copyAt = version]
<1>1. CASE Fail(p) /\ UNCHANGED mem
  BY <1>1, Stops DEF RetainRead, Fail, Terminal
<1>2. CASE Goto(p, "load") /\ UNCHANGED <<temp, mem>>
  <2>1. TypeOK'
    BY <1>2 DEF TypeOK, Steps, RetainRead
  <2>2. pc'[p] = "load" /\ pc[p] = "retainRead"
    BY <1>2 DEF TypeOK, RetainRead
  <2>3. \A q \in Proc \ {p} : pc'[q] = pc[q] /\ mem'[q] = mem[q] /\ temp'[q] = temp[q]
    BY <1>2 DEF TypeOK
  <2>4. ProcInv(p)'
    BY <1>2, <2>2 DEF ProcInv, CopyInv, VersionInv, TempInv, BaseInv, HasBase, Writing,
                      RetainRead
  <2> QED BY <2>1, <2>3, <2>4, OneMoves DEF RetainRead
<1>3. CASE history # NoFile /\ Set(p, m) /\ Goto(p, "writeGuard") /\ UNCHANGED temp
  <2>1. mem[p] \in Memory /\ version \in Nat /\ history \in File
    BY <1>3 DEF TypeOK
  <2>2. kept \in Lines
    BY <2>1, RetainedType DEF File
  <2>3. m \in Memory
    BY ONLY <2>1, <2>2 DEF Memory, Phases
  <2>4. /\ m.phase = "retain" /\ m.out = kept /\ m.copyAt = version
        /\ m.baseAt = mem[p].baseAt /\ m.cutoff = mem[p].cutoff
    BY ONLY <2>1, <2>2 DEF Memory
  <2>5. TypeOK'
    <3>1. mem' \in [Proc -> Memory]
      BY <1>3, <2>3 DEF TypeOK
    <3> QED BY <1>3, <3>1 DEF TypeOK, RetainRead, Steps, Guards
  <2>6. mem'[p] = m /\ pc'[p] = "writeGuard"
    BY <1>3 DEF TypeOK
  <2>7. \A q \in Proc \ {p} : pc'[q] = pc[q] /\ mem'[q] = mem[q] /\ temp'[q] = temp[q]
    BY <1>3 DEF TypeOK
  <2>8. CopyInv(p)'
    BY <1>3, <2>4, <2>6 DEF CopyInv, LinesOf, RetainRead
  <2>9. VersionInv(p)'
    BY <2>1, <2>4, <2>6 DEF VersionInv, ProcInv, RetainRead
  <2>10. BaseInv(p)' /\ TempInv(p)'
    BY <1>3, <2>4, <2>6 DEF BaseInv, TempInv, HasBase, Writing, RetainRead, ProcInv
  <2> QED BY <2>5, <2>7, <2>8, <2>9, <2>10, OneMoves DEF RetainRead, ProcInv
<1> HIDE DEF IInv, Goto, Set
<1> QED BY <1>1, <1>2, <1>3 DEF RetainRead

LEMMA LoadPreviousIInv == ASSUME IInv, NEW p \in Proc, LoadPrevious(p) PROVE IInv'
<1> USE DEF IInv, Goto, Set
<1> DEFINE b == BaseOf(history, mem[p].snap)
           m == [mem[p] EXCEPT !.base = b, !.baseAt = version]
<1>1. CASE Fail(p) /\ UNCHANGED mem
  BY <1>1, Stops DEF LoadPrevious, Fail, Terminal
<1>2. CASE Set(p, m) /\ Goto(p, "appendGuard") /\ UNCHANGED temp
  <2>1. mem[p] \in Memory /\ version \in Nat /\ history \in File \cup {NoFile}
    BY DEF TypeOK
  <2>2. b \in Proc \cup Seed \cup {NoBase}
    BY <2>1, BaseOfType DEF Memory
  <2>3. m \in Memory
    BY ONLY <2>1, <2>2 DEF Memory
  <2>4. /\ m.base = b /\ m.baseAt = version /\ m.snap = mem[p].snap
        /\ m.copyAt = mem[p].copyAt
    BY ONLY <2>1, <2>2 DEF Memory
  <2>5. TypeOK'
    <3>1. mem' \in [Proc -> Memory]
      BY <1>2, <2>3 DEF TypeOK
    <3> QED BY <1>2, <3>1 DEF TypeOK, LoadPrevious, Steps, Guards
  <2>6. mem'[p] = m /\ pc'[p] = "appendGuard"
    BY <1>2 DEF TypeOK
  <2>7. \A q \in Proc \ {p} : pc'[q] = pc[q] /\ mem'[q] = mem[q] /\ temp'[q] = temp[q]
    BY <1>2 DEF TypeOK
  <2>8. CopyInv(p)' /\ TempInv(p)'
    BY <1>2, <2>6 DEF CopyInv, TempInv, Writing, LoadPrevious, ProcInv
  <2>9. VersionInv(p)'
    BY <2>1, <2>4, <2>6 DEF VersionInv, ProcInv, LoadPrevious
  <2>10. BaseInv(p)'
    BY <2>4, <2>6 DEF BaseInv, LoadPrevious
  <2> QED BY <2>5, <2>7, <2>8, <2>9, <2>10, OneMoves DEF LoadPrevious, ProcInv
<1> HIDE DEF IInv, Goto, Set
<1> QED BY <1>1, <1>2 DEF LoadPrevious

LEMMA ReadForAppendIInv == ASSUME IInv, NEW p \in Proc, ReadForAppend(p) PROVE IInv'
<1> USE DEF IInv, Goto, Set
<1>1. PICK blind \in IF ReadFaults /\ history # NoFile THEN BOOLEAN ELSE {FALSE} :
        LET empty == blind \/ history = NoFile IN
        mem' = [mem EXCEPT ![p] =
                  [mem[p] EXCEPT
                     !.phase = "append", !.copyAt = version, !.blind = blind,
                     !.out = Appended(IF empty THEN {} ELSE history.lines,
                                      IF empty THEN TRUE ELSE history.nl,
                                      NewLine(p, version + 1))]]
  BY DEF ReadForAppend
<1> DEFINE empty == blind \/ history = NoFile
           o == Appended(IF empty THEN {} ELSE history.lines,
                         IF empty THEN TRUE ELSE history.nl, NewLine(p, version + 1))
           m == [mem[p] EXCEPT !.phase = "append", !.copyAt = version,
                               !.blind = blind, !.out = o]
<1>2. /\ mem[p] \in Memory /\ version \in Nat /\ blind \in BOOLEAN
      /\ history \in File \cup {NoFile}
  BY DEF TypeOK
<1>3. o \in Lines
  <2>1. (IF empty THEN {} ELSE history.lines) \in Lines
    BY <1>2, FS_EmptySet DEF File, Lines
  <2>2. (IF empty THEN TRUE ELSE history.nl) \in BOOLEAN
    BY <1>2 DEF File
  <2>3. NewLine(p, version + 1) \in Line
    BY <1>2, NewLineType
  <2> QED BY <2>1, <2>2, <2>3, AppendedType
<1>4. m \in Memory
  BY ONLY <1>2, <1>3 DEF Memory, Phases
<1>5. /\ m.phase = "append" /\ m.copyAt = version /\ m.blind = blind /\ m.out = o
      /\ m.baseAt = mem[p].baseAt /\ m.base = mem[p].base
      /\ m.snap = mem[p].snap /\ m.at = mem[p].at
  BY ONLY <1>2, <1>3 DEF Memory
<1>6. TypeOK'
  <2>1. mem' \in [Proc -> Memory]
    BY <1>1, <1>4 DEF TypeOK
  <2> QED BY <2>1 DEF TypeOK, ReadForAppend, Steps, Guards
<1>7. mem'[p] = m /\ pc'[p] = "writeGuard"
  BY <1>1 DEF TypeOK, ReadForAppend
<1>8. \A q \in Proc \ {p} : pc'[q] = pc[q] /\ mem'[q] = mem[q] /\ temp'[q] = temp[q]
  BY <1>1 DEF TypeOK, ReadForAppend
<1>9. CopyInv(p)'
  <2>1. SUFFICES ASSUME CopyCurrent(p)'
                 PROVE  m.out = Appended(LinesOf(history), EndsInNewline(history),
                                         NewLine(p, version + 1)')
    BY <1>5, <1>7 DEF CopyInv, ReadForAppend
  <2>2. ~blind
    BY <1>5, <1>7, <2>1 DEF CopyCurrent
  <2>3. NewLine(p, version + 1)' = NewLine(p, version + 1)
    BY <1>5, <1>7 DEF NewLine, ReadForAppend
  <2> QED BY <1>5, <2>2, <2>3 DEF LinesOf, EndsInNewline
<1>10. VersionInv(p)'
  BY <1>2, <1>5, <1>7 DEF VersionInv, ProcInv, ReadForAppend
<1>11. TempInv(p)'
  BY <1>7 DEF TempInv, ProcInv, ReadForAppend
<1>12. BaseInv(p)'
  BY <1>5, <1>7 DEF BaseInv, HasBase, ReadForAppend, ProcInv
<1> QED BY <1>6, <1>8, <1>9, <1>10, <1>11, <1>12, OneMoves DEF ReadForAppend, ProcInv

LEMMA LoseDirectoryIInv == ASSUME IInv, LoseDirectory PROVE IInv'
<1> USE DEF LoseDirectory
<1>1. TypeOK'
  BY ConstantAssumption DEF IInv, TypeOK
<1>2. HistoryNeverTorn'
  BY DEF HistoryNeverTorn
<1>3. \A q \in Proc : ProcInv(q)'
  BY Replaced
<1> QED BY <1>1, <1>2, <1>3 DEF IInv

LEMMA ClockAndGitIInv == ASSUME IInv, Tick \/ GitChange PROVE IInv'
<1>1. TypeOK'
  BY ConstantAssumption DEF IInv, TypeOK, Tick, GitChange
<1>2. UNCHANGED <<dir, losses, history, temp, version, pc, mem>>
  BY DEF Tick, GitChange
<1>3. HistoryNeverTorn'
  BY <1>2 DEF IInv, HistoryNeverTorn
<1>4. \A q \in Proc : ProcInv(q)'
  BY <1>2, Frame
<1> QED BY <1>1, <1>3, <1>4 DEF IInv

-----------------------------------------------------------------------------
LEMMA StepIInv == IInv /\ [Next]_vars => IInv'
<1> SUFFICES ASSUME IInv, [Next]_vars PROVE IInv'
  OBVIOUS
<1>1. ASSUME NEW p \in Proc, Step(p) PROVE IInv'
  BY <1>1, BeginIInv, CheckIntegrityIInv, ResolveDirIInv, GuardIInv, RetainReadIInv,
     LoadPreviousIInv, EnsureDirIInv, ReadForAppendIInv, OpenTempIInv, FillTempIInv,
     RenameTempIInv DEF Step
<1>2. ASSUME NEW p \in Proc, Throw(p) PROVE IInv'
  BY <1>2, Stops DEF Throw, Fail, Terminal
<1>3. ASSUME NEW p \in Proc, Crash(p) PROVE IInv'
  BY <1>3, Stops DEF Crash, Terminal
<1>4. CASE Tick \/ GitChange
  BY <1>4, ClockAndGitIInv
<1>5. CASE LoseDirectory
  BY <1>5, LoseDirectoryIInv
<1>6. CASE UNCHANGED vars
  <2>1. TypeOK' /\ HistoryNeverTorn'
    BY <1>6 DEF IInv, TypeOK, HistoryNeverTorn, vars
  <2>2. \A q \in Proc : ProcInv(q)'
    BY <1>6, Frame DEF vars
  <2> QED BY <2>1, <2>2 DEF IInv
<1> QED BY <1>1, <1>2, <1>3, <1>4, <1>5, <1>6 DEF Next

LEMMA Invariance == Spec => []IInv
BY InitIInv, StepIInv, PTL DEF Spec

(***************************************************************************)
(* Every variable keeps its type, whatever the processes, the clock and    *)
(* the directory do.                                                       *)
(***************************************************************************)
THEOREM TypeCorrect == Spec => []TypeOK
<1>1. IInv => TypeOK
  BY DEF IInv
<1> QED BY <1>1, Invariance, PTL

(***************************************************************************)
(* No interleaving of scans, crashes and directory losses lets a reader    *)
(* find a partly written history.jsonl (shared/atomic-write.ts).           *)
(***************************************************************************)
THEOREM NeverTorn == Spec => []HistoryNeverTorn
<1>1. IInv => HistoryNeverTorn
  BY DEF IInv
<1> QED BY <1>1, Invariance, PTL

\* A step that takes p from its rename to the guard after it renames.
LEMMA RenameStep ==
  ASSUME IInv, [Next]_vars, NEW p \in Proc,
         pc[p] = "rename", pc'[p] = "afterGuard"
  PROVE  RenameTemp(p) /\ temp[p] # NoFile
<1> USE DEF IInv
<1>1. PICK q \in Proc : Step(q) \/ Throw(q) \/ Crash(q)
  BY DEF Next, Tick, GitChange, LoseDirectory, vars
<1>2. \A l : pc' = [pc EXCEPT ![q] = l] => p = q /\ l = "afterGuard"
  BY DEF TypeOK
<1>3. q = p
  BY <1>1, <1>2 DEF Step, Begin, CheckIntegrity, ResolveDir, Guard, RetainRead,
     LoadPrevious, EnsureDir, ReadForAppend, OpenTemp, FillTemp, RenameTemp, Throw,
     Crash, Goto, Fail
<1>4. RenameTemp(p)
  BY <1>1, <1>2, <1>3 DEF Step, Begin, CheckIntegrity, ResolveDir, Guard, Guards,
     RetainRead, LoadPrevious, EnsureDir, ReadForAppend, OpenTemp, FillTemp, Throw,
     Crash, Goto, Fail
<1>5. temp[p] # NoFile
  BY <1>2, <1>4 DEF RenameTemp, Fail, Goto
<1> QED BY <1>4, <1>5

(***************************************************************************)
(* The rename happens in the directory that was resolved and validated,    *)
(* however often the directory is removed and made again.                  *)
(***************************************************************************)
THEOREM ValidatedDir == Spec => RenameIntoValidatedDir
<1> DEFINE A == \A p \in Proc :
                  pc[p] = "rename" /\ pc'[p] = "afterGuard" => dir = mem[p].inode
<1>1. IInv /\ [Next]_vars => [A]_vars
  <2> SUFFICES ASSUME IInv, [Next]_vars, NEW p \in Proc,
                      pc[p] = "rename", pc'[p] = "afterGuard"
               PROVE  dir = mem[p].inode
    OBVIOUS
  <2>1. temp[p] # NoFile
    BY RenameStep
  <2> QED BY <2>1 DEF IInv, ProcInv, TempInv
<1> QED BY <1>1, Invariance, PTL DEF Spec, RenameIntoValidatedDir

(***************************************************************************)
(* A rename of a current copy drops exactly the expired lines, or adds     *)
(* exactly the new one, for any number of concurrent scans.                *)
(***************************************************************************)
THEOREM CurrentCopyLogs == Spec => CurrentCopyIsLogStep
<1> DEFINE A == \A p \in Proc :
       pc[p] = "rename" /\ pc'[p] = "afterGuard" /\ CopyCurrent(p) =>
         /\ mem[p].phase = "retain" =>
              history'.lines = {l \in LinesOf(history) : l.at >= mem[p].cutoff}
         /\ mem[p].phase = "append" /\ EndsInNewline(history) =>
              history'.lines = LinesOf(history) \cup {NewLine(p, version + 1)}
<1>1. IInv /\ [Next]_vars => [A]_vars
  <2> SUFFICES ASSUME IInv, [Next]_vars, NEW p \in Proc,
                      pc[p] = "rename", pc'[p] = "afterGuard", CopyCurrent(p)
               PROVE  /\ mem[p].phase = "retain" =>
                           history'.lines = {l \in LinesOf(history) : l.at >= mem[p].cutoff}
                      /\ mem[p].phase = "append" /\ EndsInNewline(history) =>
                           history'.lines = LinesOf(history) \cup {NewLine(p, version + 1)}
    OBVIOUS
  <2>1. RenameTemp(p) /\ temp[p] # NoFile
    BY RenameStep
  <2>2. history'.lines = mem[p].out
    <3>1. history' = temp[p]
      BY <2>1 DEF RenameTemp
    <3>2. temp[p] = [lines |-> mem[p].out, nl |-> TRUE, whole |-> TRUE]
      BY <2>1 DEF IInv, ProcInv, TempInv
    <3> QED BY <3>1, <3>2
  <2>3. CopyInv(p) /\ Writing(p)
    BY DEF IInv, ProcInv, Writing
  <2> QED BY <2>2, <2>3 DEF CopyInv, Appended, Retained
<1> QED BY <1>1, Invariance, PTL DEF Spec, CurrentCopyIsLogStep

(***************************************************************************)
(* An entry appended to the file its predecessor was read from records the *)
(* files changed since that predecessor.                                   *)
(***************************************************************************)
THEOREM PredecessorIsBase == Spec => BaseIsPredecessor
<1> DEFINE A == \A p \in Proc :
                  /\ pc[p] = "rename" /\ pc'[p] = "afterGuard" /\ mem[p].phase = "append"
                  /\ mem[p].baseAt = version /\ ~mem[p].blind
                  => ComparedWithLast(p)
<1>1. IInv => [A]_vars
  <2> SUFFICES ASSUME IInv, NEW p \in Proc, pc[p] = "rename",
                      mem[p].phase = "append", mem[p].baseAt = version
               PROVE  ComparedWithLast(p)
    OBVIOUS
  <2>1. mem[p].base = BaseOf(history, mem[p].snap)
    BY DEF IInv, ProcInv, BaseInv, HasBase, Writing
  <2>2. LinesOf(history) \in Lines
    BY FS_EmptySet DEF IInv, TypeOK, File, LinesOf, Lines
  <2>3. CASE LinesOf(history) = {}
    BY <2>1, <2>3 DEF BaseOf, LinesOf, ComparedWithLast
  <2>4. CASE LinesOf(history) # {}
    <3> DEFINE last == LastLine(LinesOf(history))
    <3>1. last \in LinesOf(history) /\ \A k \in LinesOf(history) : k.n <= last.n
      BY <2>2, <2>4, LastLineExists
    <3>2. history # NoFile /\ LinesOf(history) = history.lines
      BY <2>4 DEF LinesOf
    <3>3. mem[p].base = IF NonGit \in {last.sha, mem[p].snap} THEN NoBase ELSE last.id
      BY <2>1, <2>4, <3>2 DEF BaseOf
    <3> HIDE DEF last
    <3>4. \E l \in LinesOf(history) :
            /\ \A k \in LinesOf(history) : k.n <= l.n
            /\ mem[p].base = IF NonGit \in {l.sha, mem[p].snap} THEN NoBase ELSE l.id
      BY <3>1, <3>3, Zenon
    <3> QED BY <2>4, <3>4, Zenon DEF ComparedWithLast
  <2> QED BY <2>3, <2>4
<1> QED BY <1>1, Invariance, PTL DEF BaseIsPredecessor
-----------------------------------------------------------------------------
(***************************************************************************)
(* The refinement.  While the operator runs one recording scan at a time,  *)
(* what the one that runs has read is what the file holds, the file ends   *)
(* in a newline, and its entries are of scans that are past their append.  *)
(***************************************************************************)
Past(p) == pc[p] \in Terminal \/ (pc[p] = "afterGuard" /\ mem[p].phase = "append")

OneRuns == \A p, q \in Proc : pc[p] \in Steps /\ pc[q] \in Steps => p = q

UpToDate(p) ==
  /\ ~mem[p].blind
  /\ Writing(p) => mem[p].copyAt = version
  /\ HasBase(p) => mem[p].baseAt = version

EntriesPast ==
  \A l \in LinesOf(history) : l.n <= version /\ (l.id \in Seed \/ (l.id \in Proc /\ Past(l.id)))

AloneInv ==
  alone => /\ OneRuns /\ EndsInNewline(history) /\ EntriesPast
           /\ \A p \in Proc : UpToDate(p)

LEMMA InitAlone == AloneInit => IInv /\ AloneInv
<1> SUFFICES ASSUME AloneInit PROVE IInv /\ AloneInv
  OBVIOUS
<1>1. IInv
  BY InitIInv DEF AloneInit
<1>2. OneRuns /\ \A p \in Proc : UpToDate(p)
  BY DEF AloneInit, Init, OneRuns, UpToDate, Writing, HasBase, Steps, Guards
<1>3. ASSUME alone PROVE EndsInNewline(history) /\ EntriesPast
  <2>1. Tidy(history) /\ version = 0
    BY <1>3 DEF AloneInit, Init
  <2> QED BY <2>1 DEF Tidy, EndsInNewline, EntriesPast, LinesOf
<1> QED BY <1>1, <1>2, <1>3 DEF AloneInv

\* What a step of a process does to the places: it alone moves, from a place
\* among the steps or from the beginning.
LEMMA Moves ==
  ASSUME IInv, NEW p \in Proc, Step(p) \/ Throw(p) \/ Crash(p)
  PROVE  /\ \A q \in Proc \ {p} : pc'[q] = pc[q] /\ mem'[q] = mem[q]
         /\ pc[p] \in Steps \cup {"begin"}
         /\ pc'[p] \in Steps \cup Terminal
         /\ losses' = losses
<1> USE DEF IInv, TypeOK, Goto, Set, Fail, Steps, Terminal, Guards, Phases
<1>1. CASE Throw(p) \/ Crash(p)
  BY <1>1 DEF Throw, Crash
<1>2. CASE Begin(p) \/ CheckIntegrity(p) \/ ResolveDir(p)
  BY <1>2 DEF Begin, CheckIntegrity, ResolveDir
<1>3. CASE Guard(p)
  BY <1>3 DEF Guard, AfterGuard
<1>4. CASE RetainRead(p) \/ LoadPrevious(p)
  BY <1>4 DEF RetainRead, LoadPrevious
<1>5. CASE EnsureDir(p) \/ ReadForAppend(p)
  BY <1>5 DEF EnsureDir, ReadForAppend
<1>6. CASE OpenTemp(p) \/ FillTemp(p) \/ RenameTemp(p)
  BY <1>6 DEF OpenTemp, FillTemp, RenameTemp
<1> QED BY <1>1, <1>2, <1>3, <1>4, <1>5, <1>6 DEF Step

\* As long as the file is not replaced, its reader stays up to date.
LEMMA MoverUpToDate ==
  ASSUME IInv, NEW p \in Proc, Step(p) \/ Throw(p) \/ Crash(p),
         UpToDate(p), ~mem'[p].blind, UNCHANGED version
  PROVE  UpToDate(p)'
<1> USE DEF IInv, TypeOK, Memory, Goto, Set, Fail, UpToDate, Writing, HasBase, Terminal,
            Phases
<1>1. CASE Throw(p) \/ Crash(p)
  BY <1>1 DEF Throw, Crash, Steps, Guards
<1>2. CASE Begin(p) \/ CheckIntegrity(p) \/ ResolveDir(p)
  BY <1>2 DEF Begin, CheckIntegrity, ResolveDir
<1>3. CASE Guard(p)
  BY <1>3 DEF Guard, AfterGuard, Guards
<1>4. CASE RetainRead(p) \/ LoadPrevious(p)
  BY <1>4 DEF RetainRead, LoadPrevious
<1>5. CASE EnsureDir(p)
  BY <1>5 DEF EnsureDir
<1>8. CASE ReadForAppend(p)
  <2>1. pc[p] = "read" /\ pc'[p] = "writeGuard"
    BY <1>8 DEF ReadForAppend
  <2>2. PICK m : /\ mem' = [mem EXCEPT ![p] = m]
                 /\ m.copyAt = version /\ m.baseAt = mem[p].baseAt
    BY <1>8 DEF ReadForAppend
  <2> QED BY <2>1, <2>2
<1>6. CASE OpenTemp(p) \/ FillTemp(p)
  BY <1>6 DEF OpenTemp, FillTemp
<1>7. CASE RenameTemp(p)
  BY <1>7 DEF RenameTemp
<1> QED BY <1>1, <1>2, <1>3, <1>4, <1>5, <1>6, <1>7, <1>8 DEF Step

\* A process replaces the file by a rename only.
LEMMA OnlyRename ==
  ASSUME IInv, NEW p \in Proc, Step(p) \/ Throw(p) \/ Crash(p)
  PROVE  \/ UNCHANGED <<history, version>>
         \/ RenameTemp(p) /\ temp[p] # NoFile
BY DEF Step, Begin, CheckIntegrity, ResolveDir, Guard, RetainRead, LoadPrevious, EnsureDir,
       ReadForAppend, OpenTemp, FillTemp, RenameTemp, Throw, Crash

\* What the one that runs puts in the place of the file.
LEMMA RenameAlone ==
  ASSUME IInv, alone, AloneInv, NEW p \in Proc, RenameTemp(p), temp[p] # NoFile
  PROVE  /\ history' = [lines |-> mem[p].out, nl |-> TRUE, whole |-> TRUE]
         /\ history' # NoFile /\ version' = version + 1 /\ pc'[p] = "afterGuard" /\ mem' = mem
         /\ mem[p].phase = "retain" =>
              mem[p].out = Retained(LinesOf(history), mem[p].cutoff)
         /\ mem[p].phase = "append" =>
              /\ mem[p].out = LinesOf(history) \cup {NewLine(p, version + 1)}
              /\ mem[p].base = BaseOf(history, mem[p].snap)
<1>1. ProcInv(p) /\ UpToDate(p) /\ Writing(p) /\ mem[p] \in Memory /\ EndsInNewline(history)
  BY DEF IInv, TypeOK, AloneInv, RenameTemp, Writing
<1>2. history' = temp[p] /\ pc[p] = "rename" /\ version' = version + 1 /\ mem' = mem
      /\ pc'[p] = "afterGuard"
  BY DEF RenameTemp, Goto, IInv, TypeOK
<1>3. temp[p] = [lines |-> mem[p].out, nl |-> TRUE, whole |-> TRUE]
  BY <1>1, <1>2 DEF ProcInv, TempInv
<1>4. CopyCurrent(p)
  BY <1>1 DEF UpToDate, CopyCurrent
<1>5. mem[p].out = IF mem[p].phase = "retain"
                   THEN Retained(LinesOf(history), mem[p].cutoff)
                   ELSE Appended(LinesOf(history), EndsInNewline(history),
                                 NewLine(p, version + 1))
  BY <1>1, <1>4 DEF ProcInv, CopyInv
<1>6. mem[p].phase = "append" => mem[p].base = BaseOf(history, mem[p].snap)
  BY <1>1 DEF ProcInv, BaseInv, UpToDate, HasBase
<1>7. temp[p] \in File /\ temp[p] # NoFile
  BY DEF IInv, TypeOK
<1> QED BY <1>1, <1>2, <1>3, <1>5, <1>6, <1>7 DEF Appended

LEMMA ProcessAlone ==
  ASSUME IInv, AloneInv, alone, OneAtATime, NEW p \in Proc, Step(p) \/ Throw(p) \/ Crash(p)
  PROVE  /\ OneRuns' /\ EndsInNewline(history)' /\ EntriesPast'
         /\ \A q \in Proc : UpToDate(q)'
<1>1. OneRuns /\ EndsInNewline(history) /\ EntriesPast /\ \A q \in Proc : UpToDate(q)
  BY DEF AloneInv
<1>2. /\ \A q \in Proc \ {p} : pc'[q] = pc[q] /\ mem'[q] = mem[q]
      /\ pc[p] \in Steps \cup {"begin"} /\ pc'[p] \in Steps \cup Terminal
  BY Moves
<1>3. \A q \in Proc \ {p} : pc[q] \notin Steps
  <2>1. CASE pc[p] = "begin"
    <3>1. pc'[p] # "begin"
      BY <1>2 DEF Steps, Guards, Terminal
    <3> QED BY <2>1, <3>1 DEF OneAtATime
  <2>2. CASE pc[p] \in Steps
    BY <2>2, <1>1 DEF OneRuns
  <2> QED BY <2>1, <2>2, <1>2
<1>4. OneRuns'
  BY <1>2, <1>3 DEF OneRuns
<1>5. \A q \in Proc \ {p} : UpToDate(q)'
  BY <1>1, <1>2, <1>3 DEF UpToDate, Writing, HasBase, Steps, Guards
<1>6. ASSUME NEW q \in Proc, Past(q), ~(q = p /\ RenameTemp(p) /\ temp[p] # NoFile)
      PROVE  Past(q)'
  <2>1. CASE q # p
    BY <1>2, <1>6, <2>1 DEF Past
  <2>2. CASE q = p
    <3>1. pc[p] = "afterGuard" /\ mem[p].phase = "append"
      BY <1>2, <1>6, <2>2 DEF Past, Steps, Guards, Terminal
    <3>2. Guard(p) \/ Throw(p) \/ Crash(p)
      BY <3>1 DEF Step, Begin, CheckIntegrity, ResolveDir, RetainRead, LoadPrevious,
         EnsureDir, ReadForAppend, OpenTemp, FillTemp, RenameTemp
    <3>3. pc'[p] \in Terminal
      BY <3>1, <3>2 DEF Guard, AfterGuard, Guards, Throw, Crash, Fail, Goto, Terminal,
         IInv, TypeOK
    <3> QED BY <2>2, <3>3 DEF Past
  <2> QED BY <2>1, <2>2
<1>7. CASE UNCHANGED <<history, version>>
  <2>1. ~mem'[p].blind
    BY DEF OneAtATime
  <2>2. UpToDate(p)'
    BY <1>1, <1>7, <2>1, MoverUpToDate
  <2>3. ~(RenameTemp(p) /\ temp[p] # NoFile)
    BY <1>7 DEF RenameTemp, IInv, TypeOK
  <2>4. EntriesPast' /\ EndsInNewline(history)'
    BY <1>1, <1>6, <1>7, <2>3 DEF EntriesPast, LinesOf, EndsInNewline
  <2> QED BY <1>4, <1>5, <2>2, <2>4
<1>8. CASE RenameTemp(p) /\ temp[p] # NoFile
  <2>1. /\ history' = [lines |-> mem[p].out, nl |-> TRUE, whole |-> TRUE]
        /\ history' # NoFile /\ version' = version + 1 /\ pc'[p] = "afterGuard" /\ mem' = mem
        /\ mem[p].phase = "retain" =>
             mem[p].out = Retained(LinesOf(history), mem[p].cutoff)
        /\ mem[p].phase = "append" =>
             mem[p].out = LinesOf(history) \cup {NewLine(p, version + 1)}
    BY <1>8, RenameAlone
  <2>2. pc[p] = "rename" /\ mem[p].phase \in Phases /\ version \in Nat
    BY <1>8 DEF RenameTemp, IInv, TypeOK, Memory
  <2>3. UpToDate(p)'
    BY <1>1, <2>1 DEF UpToDate, Writing, HasBase
  <2>4. EndsInNewline(history)' /\ LinesOf(history)' = mem[p].out
    BY <2>1 DEF EndsInNewline, LinesOf
  <2>5. \A l \in LinesOf(history) : l.n \in Int
    BY DEF IInv, TypeOK, LinesOf, File, Lines, Line
  <2>6. \A q \in Proc : Past(q) => q # p
    BY <2>2 DEF Past, Terminal
  <2>7. \A l \in LinesOf(history) :
          l.n <= version' /\ (l.id \in Seed \/ (l.id \in Proc /\ Past(l.id)'))
    BY <1>1, <1>6, <2>1, <2>2, <2>5, <2>6 DEF EntriesPast
  <2>8. EntriesPast'
    <3>1. CASE mem[p].phase = "retain"
      BY <2>1, <2>4, <2>7, <3>1 DEF EntriesPast, Retained
    <3>2. CASE mem[p].phase = "append"
      <4>1. Past(p)'
        BY <2>1, <3>2 DEF Past
      <4>2. NewLine(p, version + 1).id = p /\ NewLine(p, version + 1).n = version'
        BY <2>1 DEF NewLine
      <4> QED BY <2>1, <2>2, <2>4, <2>7, <3>2, <4>1, <4>2 DEF EntriesPast
    <3> QED BY <2>2, <3>1, <3>2 DEF Phases
  <2> QED BY <1>4, <1>5, <2>3, <2>4, <2>8
<1> QED BY <1>7, <1>8, OnlyRename

LEMMA StepAlone == IInv /\ AloneInv /\ [AloneNext]_aloneVars => AloneInv'
<1> SUFFICES ASSUME IInv, AloneInv, [AloneNext]_aloneVars, alone'
             PROVE  /\ OneRuns' /\ EndsInNewline(history)' /\ EntriesPast'
                    /\ \A p \in Proc : UpToDate(p)'
  BY DEF AloneInv
<1>1. alone /\ (OneAtATime \/ UNCHANGED vars) /\ [Next]_vars
  BY DEF AloneNext, aloneVars
<1>2. OneRuns /\ EndsInNewline(history) /\ EntriesPast /\ \A p \in Proc : UpToDate(p)
  BY <1>1 DEF AloneInv
<1>3. CASE UNCHANGED <<history, version, pc, mem>>
  BY <1>2, <1>3 DEF OneRuns, EndsInNewline, EntriesPast, UpToDate, LinesOf, Past, Writing,
     HasBase
<1>4. CASE OneAtATime /\ \E p \in Proc : Step(p) \/ Throw(p) \/ Crash(p)
  BY <1>1, <1>4, ProcessAlone
<1>5. CASE Tick \/ GitChange \/ UNCHANGED vars
  BY <1>3, <1>5 DEF Tick, GitChange, vars
<1>6. CASE OneAtATime /\ LoseDirectory
  BY <1>6 DEF OneAtATime, LoseDirectory, IInv, TypeOK
<1> QED BY <1>1, <1>4, <1>5, <1>6 DEF Next

\* A finite set of lines with a property has one that is the youngest of them.
LEMMA YoungestExists ==
  ASSUME NEW S \in Lines, S # {}
  PROVE  \E l \in S : \A k \in S : k.at <= l.at
<1> DEFINE Younger(l) == {k \in S : l.at < k.at}
           D == {Younger(l) : l \in S}
           R == StrictSubsetOrdering(S)
<1>1. IsWellFoundedOn(R, FiniteSubsetsOf(S))
  BY FS_StrictSubsetOrderingWellFounded
<1>2. D \subseteq FiniteSubsetsOf(S) /\ D # {}
  <2>1. IsFiniteSet(S)
    BY DEF Lines
  <2>2. \A l \in S : Younger(l) \in SUBSET S /\ IsFiniteSet(Younger(l))
    BY <2>1, FS_Subset
  <2> QED BY <2>2 DEF FiniteSubsetsOf
<1>3. PICK d \in D : \A e \in D : <<e, d>> \notin R
  BY <1>1, <1>2, WFMin
<1>4. PICK l \in S : d = Younger(l)
  OBVIOUS
<1>5. \A k \in S : k.at <= l.at
  <2> SUFFICES ASSUME NEW k \in S, ~(k.at <= l.at)
               PROVE  FALSE
    OBVIOUS
  <2>1. k.at \in Int /\ l.at \in Int /\ \A j \in S : j.at \in Int
    BY DEF Lines, Line
  <2>2. Younger(k) \subseteq Younger(l) /\ k \in Younger(l) /\ k \notin Younger(k)
    BY <2>1
  <2>3. <<Younger(k), Younger(l)>> \in R
    BY <2>2 DEF StrictSubsetOrdering
  <2> QED BY <2>3, <1>3, <1>4
<1> QED BY <1>5

\* The abstract step of each kind of rename.
LEMMA RetainIsExpire ==
  ASSUME NEW S \in Lines, NEW T, NEW cutoff \in Int, T = Retained(S, cutoff), T # S
  PROVE  \E l \in S : T = {k \in S : k.at >= l.at + 1}
<1> DEFINE gone == {k \in S : k.at < cutoff}
<1>1. \A k \in S : k.at \in Int
  BY DEF Lines, Line
<1>2. gone # {} /\ T = S \ gone
  BY <1>1 DEF Retained
<1>3. gone \in Lines
  <2>1. IsFiniteSet(gone)
    BY FS_Subset DEF Lines
  <2> QED BY <2>1 DEF Lines
<1>4. PICK l \in gone : \A k \in gone : k.at <= l.at
  BY <1>2, <1>3, YoungestExists
<1>5. T = {k \in S : k.at >= l.at + 1}
  BY <1>1, <1>2, <1>4
<1> QED BY <1>5

LEMMA LogStep == IInv /\ AloneInv /\ [AloneNext]_aloneVars
                   => [Log!Next]_(IF alone THEN LinesOf(history) ELSE {})
<1> SUFFICES ASSUME IInv, AloneInv, [AloneNext]_aloneVars
             PROVE  [Log!Next]_(IF alone THEN LinesOf(history) ELSE {})
  OBVIOUS
<1>1. alone' = alone /\ (~alone \/ OneAtATime \/ UNCHANGED vars) /\ [Next]_vars
  BY DEF AloneNext, aloneVars
<1>2. CASE ~alone \/ UNCHANGED history
  BY <1>1, <1>2 DEF LinesOf
<1>3. ASSUME alone, OneAtATime, NEW p \in Proc, Step(p) \/ Throw(p) \/ Crash(p),
             history' # history
      PROVE  [Log!Next]_(IF alone THEN LinesOf(history) ELSE {})
  <2> DEFINE log == LinesOf(history)
             new == NewLine(p, version + 1)
  <2>1. RenameTemp(p) /\ temp[p] # NoFile
    BY <1>3, OnlyRename
  <2>2. /\ LinesOf(history)' = mem[p].out
        /\ mem[p].phase = "retain" => mem[p].out = Retained(log, mem[p].cutoff)
        /\ mem[p].phase = "append" => /\ mem[p].out = log \cup {new}
                                      /\ mem[p].base = BaseOf(history, mem[p].snap)
    BY <1>3, <2>1, RenameAlone DEF LinesOf
  <2>3. mem[p] \in Memory /\ log \in Lines /\ version \in Nat /\ pc[p] = "rename"
    BY <2>1, FS_EmptySet DEF IInv, TypeOK, LinesOf, File, Lines, RenameTemp
  <2>4. CASE mem[p].phase = "retain"
    <3>1. CASE mem[p].out = log
      BY <1>1, <2>2, <3>1
    <3>2. CASE mem[p].out # log
      <4>1. PICK l \in log : mem[p].out = {k \in log : k.at >= l.at + 1}
        BY <2>2, <2>3, <2>4, <3>2, RetainIsExpire DEF Memory
      <4>2. Log!Expire(l.at + 1)
        BY <1>1, <1>3, <2>2, <3>2, <4>1 DEF Log!Expire
      <4> QED BY <1>3, <4>2 DEF Log!Next
    <3> QED BY <3>1, <3>2
  <2>5. CASE mem[p].phase = "append"
    <3>1. \A k \in log : k.n < new.n /\ k.id # new.id
      <4>1. EntriesPast
        BY <1>3 DEF AloneInv
      <4>2. ~Past(p)
        BY <2>3 DEF Past, Terminal
      <4>3. \A k \in log : k.n \in Int
        BY <2>3 DEF Lines, Line
      <4> QED BY <2>3, <4>1, <4>2, <4>3, ConstantAssumption DEF EntriesPast, NewLine
    <3>2. new.base = Log!Base(new.sha)
      <4>1. new.base = BaseOf(history, mem[p].snap) /\ new.sha = mem[p].snap
        BY <2>2, <2>5 DEF NewLine
      <4>2. log # {} => history # NoFile /\ log = history.lines
        BY DEF LinesOf
      <4>3. Log!Last = LastLine(log)
        BY <1>3 DEF Log!Last, LastLine
      <4> QED BY <1>3, <4>1, <4>2, <4>3 DEF Log!Base, BaseOf, LinesOf
    <3>3. Log!Add(new)
      BY <1>1, <1>3, <2>2, <2>5, <3>1, <3>2 DEF Log!Add
    <3>4. new \in mem[p].out \ log
      <4>1. new.n \in Int
        BY <2>3 DEF NewLine
      <4> QED BY <2>2, <2>5, <3>1, <4>1
    <3> QED BY <1>1, <1>3, <2>2, <3>3, <3>4 DEF Log!Next
  <2> QED BY <2>3, <2>4, <2>5 DEF Memory, Phases
<1>4. alone /\ OneAtATime => ~LoseDirectory
  BY DEF OneAtATime, LoseDirectory, IInv, TypeOK
<1>5. Tick \/ GitChange \/ UNCHANGED vars => UNCHANGED history
  BY DEF Tick, GitChange, vars
<1> QED BY <1>1, <1>2, <1>3, <1>4, <1>5 DEF Next

(***************************************************************************)
(* One recording scan at a time: the store implements the log, for any     *)
(* history found, any number of scans, and whatever crashes or fails       *)
(* between two steps (persistence/trend-store.ts, shared/atomic-write.ts). *)
(***************************************************************************)
THEOREM TrendStoreIsLog == AloneSpec => ImplementsTrendLog
<1>1. AloneInit => Log!Init
  <2> SUFFICES ASSUME AloneInit PROVE Log!Init
    OBVIOUS
  <2>1. history \in InitHistories /\ alone \in BOOLEAN
    BY DEF AloneInit, Init
  <2>2. LinesOf(NoFile) = {}
    BY DEF LinesOf
  <2> QED BY <2>1, <2>2 DEF Log!Init
<1>2. IInv /\ [AloneNext]_aloneVars => IInv'
  BY StepIInv DEF AloneNext, aloneVars
<1>3. AloneSpec => [](IInv /\ AloneInv)
  BY InitAlone, <1>2, StepAlone, PTL DEF AloneSpec
<1> QED BY <1>1, <1>3, LogStep, PTL DEF AloneSpec, ImplementsTrendLog, Log!Spec
=============================================================================
