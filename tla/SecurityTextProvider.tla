------------------------ MODULE SecurityTextProvider -------------------------
(***************************************************************************)
(* createSecurityTextProvider().complete: one call of the ACP client,      *)
(* within a deadline.  It prepares an empty working directory, aborts the  *)
(* client when the caller does or when the budget is used up, ends the     *)
(* process (TERM, then KILL) and removes the directory.  The client and    *)
(* its agent are those of AcpClient; the two share the abort signal, the   *)
(* process and the clock.                                                  *)
(***************************************************************************)
EXTENDS AcpClient

CONSTANTS
  Deadline,   \* deadlineAt, when the call is made at 0
  Reserve,    \* cleanupReserveMs
  PrepDelay,  \* bound of the time the preparation of the directory takes
  MaxClock    \* bound of the clock

ASSUME SecurityAssumption ==
  Deadline \in Nat /\ Reserve \in Nat /\ PrepDelay \in Nat /\ MaxClock \in Nat

VARIABLES
  wpc,            \* what the call awaits
  clock,          \* the time
  fireAt,         \* when the deadline timer is due, or -1
  callerAborted,  \* request.signal
  deadlineFired,  \* the local of that name
  cwd,            \* the temporary directory
  waited,         \* ticks waited for the process to exit
  killed,         \* was SIGKILL sent? (history variable)
  answer          \* what complete returns

callVars == <<wpc, clock, fireAt, callerAborted, deadlineFired, cwd, waited,
              killed, answer>>
vars == <<acpVars, callVars>>

Budget == Deadline - Reserve

\* Mutant: each of the two waits may take the whole reserve.
WholeReserve == Reserve

Grace == IF Reserve \div 2 > 1 THEN Reserve \div 2 ELSE 1

Answers == Reasons \cup {"none", "ok", "deadline_exceeded", "untrusted_executable",
                         "untrusted_runtime_directory", "thrown"}

TypeOK ==
  /\ AcpTypeOK
  /\ wpc \in {"idle", "resolving", "mkdtemp", "client", "terminating",
              "termWait", "killWait", "removing", "done"}
  /\ clock \in 0 .. MaxClock
  /\ fireAt \in {-1} \cup Budget .. Budget + PrepDelay
  /\ {callerAborted, deadlineFired, killed} \subseteq BOOLEAN
  /\ cwd \in {"none", "made", "removed"}
  /\ waited \in 0 .. Grace
  /\ answer \in Answers

Init ==
  /\ AcpInit
  /\ wpc = "idle" /\ clock = 0 /\ fireAt = -1
  /\ callerAborted \in BOOLEAN
  /\ deadlineFired = FALSE /\ cwd = "none" /\ waited = 0
  /\ killed = FALSE /\ answer = "none"

\* The checks before anything is awaited; the budget is computed here.
Complete ==
  /\ wpc = "idle"
  /\ IF callerAborted THEN wpc' = "done" /\ answer' = "cancelled"
     ELSE IF Budget <= 0 THEN wpc' = "done" /\ answer' = "deadline_exceeded"
     ELSE wpc' = "resolving" /\ UNCHANGED answer
  /\ UNCHANGED <<acpVars, clock, fireAt, callerAborted, deadlineFired, cwd,
                 waited, killed>>

\* The repository root and the executable are resolved.
Resolve ==
  /\ wpc = "resolving"
  /\ \/ wpc' = "mkdtemp" /\ UNCHANGED answer
     \/ wpc' = "done" /\ answer' \in {"untrusted_executable", "executable_missing"}
  /\ UNCHANGED <<acpVars, clock, fireAt, callerAborted, deadlineFired, cwd,
                 waited, killed>>

\* A path cannot be resolved, or no directory made: the call rejects.  When it
\* is the real path of the new directory, nothing removes the directory.
PrepareThrows ==
  /\ wpc \in {"resolving", "mkdtemp"}
  /\ wpc' = "done" /\ answer' = "thrown"
  /\ cwd' \in IF wpc = "mkdtemp" THEN {"none", "made"} ELSE {"none"}
  /\ UNCHANGED <<acpVars, clock, fireAt, callerAborted, deadlineFired, waited,
                 killed>>

\* Mutant: an abort during the preparation is missed.
MakeDirUnchecked ==
  /\ wpc = "mkdtemp"
  /\ cwd' = "made"
  /\ fireAt' = clock + Budget
  /\ \/ /\ wpc' = "terminating"
        /\ answer' \in {"untrusted_executable", "untrusted_runtime_directory"}
        /\ UNCHANGED acpVars
     \/ /\ wpc' = "client"
        /\ Connect
        /\ UNCHANGED answer
  /\ UNCHANGED <<clock, callerAborted, deadlineFired, waited, killed>>

\* The directory exists: listener and timer are set, the abort is checked
\* again, and the client is started before the next await.
MakeDir ==
  /\ wpc = "mkdtemp"
  /\ cwd' = "made"
  /\ fireAt' = clock + Budget
  /\ \/ /\ callerAborted
        /\ wpc' = "terminating" /\ answer' = "cancelled"
        /\ UNCHANGED acpVars
     \/ /\ ~callerAborted
        /\ wpc' = "terminating"
        /\ answer' \in {"untrusted_executable", "untrusted_runtime_directory"}
        /\ UNCHANGED acpVars
     \/ /\ ~callerAborted
        /\ wpc' = "client"
        /\ Connect
        /\ UNCHANGED answer
  /\ UNCHANGED <<clock, callerAborted, deadlineFired, waited, killed>>

ClientRuns ==
  /\ wpc = "client"
  /\ ClientStep \/ AgentStep
  /\ UNCHANGED callVars

\* controller.abort(): the client sees it while it is running.
AbortClient == IF aborted \/ pc = "returned" THEN UNCHANGED acpVars ELSE Abort

CallerAborts ==
  /\ ~callerAborted /\ wpc # "done"
  /\ callerAborted' = TRUE
  /\ IF wpc = "client" THEN AbortClient ELSE UNCHANGED acpVars
  /\ UNCHANGED <<wpc, clock, fireAt, deadlineFired, cwd, waited, killed, answer>>

DeadlineDue == wpc = "client" /\ ~deadlineFired /\ clock >= fireAt

DeadlineFires ==
  /\ DeadlineDue
  /\ deadlineFired' = TRUE
  /\ AbortClient
  /\ UNCHANGED <<wpc, clock, fireAt, callerAborted, cwd, waited, killed, answer>>

ClientReturned ==
  /\ wpc = "client" /\ pc = "returned"
  /\ answer' = IF result # "ok" /\ deadlineFired THEN "deadline_exceeded" ELSE result
  /\ wpc' = "terminating"
  /\ UNCHANGED <<acpVars, clock, fireAt, callerAborted, deadlineFired, cwd,
                 waited, killed>>

\* terminate: nothing to do for a process whose exit was seen, else SIGTERM.
Terminate ==
  /\ wpc = "terminating"
  /\ wpc' = IF process = "running" THEN "termWait" ELSE "removing"
  /\ UNCHANGED <<acpVars, clock, fireAt, callerAborted, deadlineFired, cwd,
                 waited, killed, answer>>

\* Mutant: the directory is removed when SIGTERM has not helped in time.
TermWaitedOnly ==
  /\ wpc = "termWait" /\ (process # "running" \/ waited >= Grace)
  /\ wpc' = "removing"
  /\ UNCHANGED <<acpVars, clock, fireAt, callerAborted, deadlineFired, cwd,
                 waited, killed, answer>>

\* Mutant: SIGTERM is given all the time it needs.
TermWaitedAlways ==
  /\ wpc = "termWait" /\ process # "running"
  /\ wpc' = "removing"
  /\ UNCHANGED <<acpVars, clock, fireAt, callerAborted, deadlineFired, cwd,
                 waited, killed, answer>>

TermWaited ==
  /\ wpc = "termWait"
  /\ \/ /\ process # "running"
        /\ wpc' = "removing"
        /\ UNCHANGED <<killed, waited>>
     \/ /\ process = "running" /\ waited >= Grace
        /\ wpc' = "killWait"
        /\ killed' = TRUE /\ waited' = 0
  /\ UNCHANGED <<acpVars, clock, fireAt, callerAborted, deadlineFired, cwd, answer>>

KillWaited ==
  /\ wpc = "killWait" /\ (process # "running" \/ waited >= Grace)
  /\ wpc' = "removing"
  /\ UNCHANGED <<acpVars, clock, fireAt, callerAborted, deadlineFired, cwd,
                 waited, killed, answer>>

\* rm may reject, on a directory in which a process still writes for example:
\* then the call rejects, whatever it was about to return.
RemoveDir ==
  /\ wpc = "removing"
  /\ \/ cwd' = "removed" /\ UNCHANGED answer
     \/ answer' = "thrown" /\ UNCHANGED cwd
  /\ wpc' = "done"
  /\ UNCHANGED <<acpVars, clock, fireAt, callerAborted, deadlineFired, waited, killed>>

\* The process may end at any time after the client has let go of it.
LateExit ==
  /\ wpc \notin {"client", "done"}
  /\ ProcessExits
  /\ UNCHANGED callVars

Tick ==
  /\ clock < MaxClock /\ clock' = clock + 1
  /\ \/ /\ wpc \in {"resolving", "mkdtemp"} /\ clock < PrepDelay
        /\ UNCHANGED <<acpVars, waited>>
     \/ /\ wpc = "client" /\ ~DeadlineDue
        /\ AcpTick
        /\ UNCHANGED waited
     \/ /\ wpc \in {"termWait", "killWait"} /\ process = "running" /\ waited < Grace
        /\ waited' = waited + 1
        /\ UNCHANGED acpVars
  /\ UNCHANGED <<wpc, fireAt, callerAborted, deadlineFired, cwd, killed, answer>>

CallStep ==
  \/ Resolve \/ PrepareThrows \/ MakeDir \/ DeadlineFires \/ ClientReturned \/ Terminate
  \/ TermWaited \/ KillWaited \/ RemoveDir

Next == Complete \/ CallStep \/ ClientRuns \/ CallerAborts \/ LateExit \/ Tick

(***************************************************************************)
(* Fairness as in AcpClient: the event loop, its timers and the clock.     *)
(* Nothing is assumed of the agent, not even that it dies of a signal.     *)
(***************************************************************************)
Fairness ==
  /\ WF_vars(CallStep) /\ WF_vars(Tick)
  /\ WF_vars(wpc = "client" /\ ClientStep /\ UNCHANGED callVars)
  /\ WF_vars(wpc = "client" /\ Written /\ UNCHANGED callVars)

Spec == Init /\ [][Next]_vars /\ Fairness

-----------------------------------------------------------------------------
(***************************************************************************)
(* Once the deadline timer is set, the rest of the call fits before it and *)
(* within the reserve, for any agent, if an aborted request settles by     *)
(* itself and written bytes are read: cancelling the prompt, TERM, KILL    *)
(* and removing the directory share the reserve (text-provider.ts:4).      *)
(***************************************************************************)
FinishesInReserve ==
  wpc = "done" /\ settles /\ fireAt # -1 => clock <= fireAt + Reserve

(***************************************************************************)
(* llm/text-provider.ts:4 deadlineAt is when "the call, including process  *)
(* cleanup, must finish".  The timer is set after the preparation, with    *)
(* the budget computed before it.                                          *)
(***************************************************************************)
FinishesByDeadline == wpc = "done" /\ settles => clock <= Deadline

(***************************************************************************)
(* REG-2026-029: a call that was cancelled before its provider was started *)
(* does not start it.                                                      *)
(***************************************************************************)
CancelledNeverSpawns ==
  [][process = "none" /\ process' = "running" => ~callerAborted]_vars

(***************************************************************************)
(* The directory is there as long as a provider may run in it: it goes     *)
(* only when the process has exited or was sent SIGKILL and did not exit   *)
(* in time; and a call that got as far as its timer leaves none behind, or *)
(* rejects (docs/spec/security-addon.md:137).                              *)
(***************************************************************************)
DirectoryOutlivesProcess ==
  /\ cwd = "removed" => process # "running" \/ killed
  /\ wpc = "done" /\ fireAt # -1 => cwd = "removed" \/ answer = "thrown"

(***************************************************************************)
(* A call that has begun returns, even if the agent ignores every request, *)
(* every cancellation and every signal.                                    *)
(***************************************************************************)
CallReturns == wpc = "resolving" ~> wpc = "done"
=============================================================================
