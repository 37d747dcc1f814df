------------------------------ MODULE AcpClient ------------------------------
(***************************************************************************)
(* One call of the ACP client: spawn a provider process, initialize (all   *)
(* of inspect), create a session (discoverModels), configure it, prompt    *)
(* once (oneShotPrompt), stop.  Every await of the client is a value of    *)
(* pc; what it awaits is a race between the agent's answer, the death of   *)
(* the process and the timers of the stage.  JavaScript runs to completion *)
(* between two awaits, so an action is what happens from the event that    *)
(* settles a race to the next await.                                       *)
(*                                                                         *)
(* The agent is free: it answers or not, sends updates at any time once a  *)
(* session exists, and dies at any time.  Time is a number of ticks, and   *)
(* the client's own steps and due timers are not delayed.                  *)
(***************************************************************************)
EXTENDS Integers, Sequences, FiniteSets

CONSTANTS
  Operations,     \* the operations of the client that are called
  SetupTimeout,   \* setupTimeoutMs, of initialize and again of the session
  IdleTimeout,    \* promptPolicy.idleTimeoutMs
  HardTimeout,    \* promptPolicy.hardTimeoutMs
  ToolThreshold,  \* promptPolicy.toolCallAbortThreshold
  OutputMax,      \* outputMaxBytes
  NeedsSafeMode,  \* does the provider have preferredModeValues?
  WantsModel,     \* a model is requested, and the provider is not copilot
  Verifies,       \* is there a verifyInitialize?
  ToolId,         \* ids of tool calls
  MaxUpdates,     \* bound of the updates the agent sends
  StdinFlows,     \* does the agent, while it runs, read its standard input?
  AbortSettling   \* can an aborted request settle without delay? can it not?

ASSUME AcpAssumption ==
  /\ Operations \subseteq {"inspect", "discoverModels", "oneShotPrompt"}
  /\ SetupTimeout \in Nat \ {0} /\ IdleTimeout \in Nat \ {0}
  /\ HardTimeout \in Nat \ {0} /\ ToolThreshold \in Nat \ {0}
  /\ OutputMax \in Nat /\ MaxUpdates \in Nat
  /\ {NeedsSafeMode, WantsModel, Verifies, StdinFlows} \subseteq BOOLEAN
  /\ AbortSettling \subseteq BOOLEAN

VARIABLES
  operation, \* the operation that was called
  pc,        \* what the client awaits
  process,   \* the provider process
  err,       \* has resource.error been rejected?
  stopped,   \* has resource.stop run: connection closed, process signalled?
  kills,     \* how often it signalled the process (history variable)
  session,   \* what the agent holds for the session
  inbox,     \* updates that arrived and were not taken by nextUpdate
  sent,      \* how many updates the agent has sent (history variable)
  said,      \* bytes of text among them (history variable)
  retained,  \* retainedOutputBytes
  tools,     \* distinctToolCallIds
  aborted,   \* the caller's signal
  settles,   \* does the connection settle an aborted request by itself?
  notify,    \* the promise in cancelPromises
  cancels,   \* how often session/cancel was sent (history variable)
  prompted,  \* was the prompt sent? (history variable)
  silence,   \* ticks since the idle timer was set
  elapsed,   \* ticks since the timer of the stage was set
  result     \* the outcome so far

call       == <<operation, settles>>
agentVars  == <<call, process, session, inbox, sent, said>>
cancelVars == <<notify, cancels>>
clientVars == <<pc, err, stopped, kills, retained, tools, aborted, notify,
                cancels, prompted, silence, elapsed, result>>
acpVars    == <<agentVars, clientVars>>

SetupStages == {"initialize", "newSession", "setMode", "setModel"}
Racing      == SetupStages \cup {"prompting", "answering"}

Cuts == {"timeout", "tool_use_limit", "invalid_response"}
Refusals == {"authentication_required", "authentication_failed", "protocol_incompatible"}
Reasons == Cuts \cup Refusals \cup
  {"executable_missing", "process_exited", "confinement_unsupported",
   "safe_mode_unavailable", "model_unavailable", "cancelled"}

\* What mapFailure reads out of an agent's error: the code says that it wants
\* authentication or has cancelled, its free text may name any reason but two
\* that have no name there.
Worded == Reasons \ {"executable_missing", "confinement_unsupported"}

Update == {[kind |-> "text", size |-> s] : s \in 0 .. 1}
          \cup {[kind |-> "tool", id |-> t] : t \in ToolId}
          \cup {[kind |-> "stop"]}

\* What the client looks at in a session: its safe mode and its model, each
\* only when it is asked for.
Seen(wanted) == IF wanted THEN BOOLEAN ELSE {FALSE}

Session == [safeOffered: Seen(NeedsSafeMode), safe: Seen(NeedsSafeMode),
            modelOffered: Seen(WantsModel), model: Seen(WantsModel)]

MaxElapsed == SetupTimeout + HardTimeout  \* no timer is later

AcpTypeOK ==
  /\ operation \in Operations
  /\ pc \in {"idle", "cancelling", "closing", "returned"} \cup Racing
  /\ process \in {"none", "running", "exited"}
  /\ settles \in AbortSettling
  /\ {err, stopped, aborted, prompted} \subseteq BOOLEAN
  /\ kills \in Nat /\ cancels \in Nat
  /\ session \in Session
  /\ inbox \in Seq(Update)
  /\ sent \in 0 .. MaxUpdates /\ said \in 0 .. MaxUpdates
  /\ retained \in 0 .. OutputMax
  /\ tools \subseteq ToolId
  /\ notify \in {"none", "pending", "settled"}
  /\ silence \in 0 .. IdleTimeout
  /\ elapsed \in 0 .. MaxElapsed
  /\ result \in Reasons \cup {"none", "ok"}

AcpInit ==
  /\ operation \in Operations /\ settles \in AbortSettling
  /\ pc = "idle" /\ process = "none"
  /\ err = FALSE /\ stopped = FALSE /\ kills = 0
  /\ session = [safeOffered |-> FALSE, safe |-> FALSE,
                modelOffered |-> FALSE, model |-> FALSE]
  /\ inbox = <<>> /\ sent = 0 /\ said = 0 /\ retained = 0 /\ tools = {}
  /\ aborted = FALSE /\ notify = "none" /\ cancels = 0 /\ prompted = FALSE
  /\ silence = 0 /\ elapsed = 0 /\ result = "none"

-----------------------------------------------------------------------------
(* Building blocks.                                                        *)

Await(stage) == pc' = stage
Settle(r)    == result' = r

\* sendSessionCancel: one notification for a session, however many callers.
\* Its promise settles when the message is written or the connection closes.
SendCancel ==
  IF notify = "none"
  THEN /\ cancels' = cancels + 1
       /\ notify' = IF stopped THEN "settled" ELSE "pending"
  ELSE UNCHANGED cancelVars

\* A result reached outside the prompt: on to the finally of withConnection.
Leave(r) ==
  /\ Await("closing") /\ Settle(r)
  /\ UNCHANGED cancelVars

\* Mutant: only the caller's abort tells the agent.
CatchSilently(r) ==
  /\ Settle(r)
  /\ IF aborted
     THEN SendCancel /\ Await("cancelling")
     ELSE Await("closing") /\ UNCHANGED cancelVars

\* The catch of promptSession.
Catch(r) ==
  /\ Settle(r)
  /\ IF aborted \/ r \in Cuts
     THEN SendCancel /\ Await("cancelling")
     ELSE Await("closing") /\ UNCHANGED cancelVars

\* A race lost to a rejection, wherever the client is.
Reject(r) == IF pc \in SetupStages THEN Leave(r) ELSE Catch(r)

\* The start of promptSession.
EnterPrompt ==
  IF aborted
  THEN /\ Await("cancelling") /\ Settle("cancelled") /\ SendCancel
       /\ UNCHANGED <<prompted, silence, elapsed>>
  ELSE /\ Await("prompting") /\ prompted' = TRUE /\ silence' = 0 /\ elapsed' = 0
       /\ UNCHANGED <<result, notify, cancels>>

ConfigureModel(s) ==
  IF ~WantsModel \/ (s.modelOffered /\ s.model)
  THEN EnterPrompt
  ELSE /\ IF s.modelOffered
          THEN Await("setModel") /\ UNCHANGED <<result, notify, cancels>>
          ELSE Leave("model_unavailable")
       /\ UNCHANGED <<prompted, silence, elapsed>>

\* Mutant: a session that offers no safe mode is used as it is.
ConfigureLoosely(s) ==
  IF ~NeedsSafeMode \/ ~s.safeOffered \/ s.safe
  THEN ConfigureModel(s)
  ELSE /\ Await("setMode")
       /\ UNCHANGED <<result, notify, cancels, prompted, silence, elapsed>>

\* configureSession: the safe mode first, then the model; each is set only
\* when it is not the current one.
Configure(s) ==
  IF ~NeedsSafeMode \/ (s.safeOffered /\ s.safe)
  THEN ConfigureModel(s)
  ELSE /\ IF s.safeOffered
          THEN Await("setMode") /\ UNCHANGED <<result, notify, cancels>>
          ELSE Leave("safe_mode_unavailable")
       /\ UNCHANGED <<prompted, silence, elapsed>>

-----------------------------------------------------------------------------
\* connect, then the check for an abort before initialize is sent.
Connect ==
  /\ pc = "idle"
  /\ \/ /\ Await("returned") /\ Settle("executable_missing")
        /\ UNCHANGED <<process, elapsed, notify, cancels>>
     \/ /\ process' = "running" /\ elapsed' = 0
        /\ IF aborted THEN Leave("cancelled")
           ELSE Await("initialize") /\ UNCHANGED <<result, notify, cancels>>
  /\ UNCHANGED <<call, err, stopped, kills, session, inbox, sent, said,
                 retained, tools, aborted, prompted, silence>>

\* The answer to initialize: all that inspect asks for.  oneShotPrompt runs
\* verifyInitialize before any session exists.
Initialized ==
  /\ pc = "initialize" /\ process = "running"
  /\ \/ /\ operation # "inspect"
        /\ Await("newSession") /\ elapsed' = 0 /\ UNCHANGED <<result, notify, cancels>>
     \/ operation = "inspect" /\ Leave("ok") /\ UNCHANGED elapsed
     \/ Leave("protocol_incompatible") /\ UNCHANGED elapsed
     \/ /\ operation = "oneShotPrompt" /\ Verifies
        /\ Leave("confinement_unsupported") /\ UNCHANGED elapsed
  /\ UNCHANGED <<agentVars, err, stopped, kills, retained, tools, aborted,
                 prompted, silence>>

SessionCreated ==
  /\ pc = "newSession" /\ process = "running"
  /\ \E s \in Session :
       /\ session' = s
       /\ IF operation = "discoverModels"
          THEN Leave("ok") /\ UNCHANGED <<prompted, silence, elapsed>>
          ELSE Configure(s)
  /\ UNCHANGED <<call, process, inbox, sent, said, err, stopped, kills,
                 retained, tools, aborted>>

ModeSet ==
  /\ pc = "setMode" /\ process = "running"
  /\ session' = [session EXCEPT !.safe = TRUE]
  /\ ConfigureModel(session)
  /\ UNCHANGED <<call, process, inbox, sent, said, err, stopped, kills,
                 retained, tools, aborted>>

ModelSet ==
  /\ pc = "setModel" /\ process = "running"
  /\ session' = [session EXCEPT !.model = TRUE]
  /\ EnterPrompt
  /\ UNCHANGED <<call, process, inbox, sent, said, err, stopped, kills,
                 retained, tools, aborted>>

\* The agent answers a request with an error; it may call it cancelled though
\* nobody has aborted the call.
RequestRefused ==
  /\ pc \in Racing /\ process = "running"
  /\ \E r \in Worded : Reject(r)
  /\ UNCHANGED <<agentVars, err, stopped, kills, retained, tools, aborted,
                 prompted, silence, elapsed>>

\* The connection rejects an aborted request without waiting for the agent.
AbortSettled ==
  /\ settles /\ aborted /\ pc \in Racing
  /\ Reject("cancelled")
  /\ UNCHANGED <<agentVars, err, stopped, kills, retained, tools, aborted,
                 prompted, silence, elapsed>>

\* Mutant: the limit is checked before the chunk is counted.
TooLongLate(size) == retained > OutputMax

TooLong(size) == retained + size > OutputMax

\* One turn of the prompt loop.  An empty text leaves the idle timer alone.
TakeUpdate ==
  /\ pc = "prompting" /\ inbox # <<>>
  /\ inbox' = Tail(inbox)
  /\ LET u == Head(inbox) IN
     \/ /\ u.kind = "text" /\ u.size = 0
        /\ UNCHANGED <<pc, result, notify, cancels, retained, tools, silence>>
     \/ /\ u.kind = "text" /\ u.size > 0 /\ TooLong(u.size)
        /\ retained' = 0
        /\ Catch("invalid_response")
        /\ UNCHANGED <<tools, silence>>
     \/ /\ u.kind = "text" /\ u.size > 0 /\ ~TooLong(u.size)
        /\ retained' = retained + u.size
        /\ silence' = 0
        /\ UNCHANGED <<pc, result, notify, cancels, tools>>
     \/ /\ u.kind = "tool"
        /\ tools' = tools \cup {u.id}
        /\ IF u.id \notin tools /\ Cardinality(tools') >= ToolThreshold
           THEN Catch("tool_use_limit") /\ UNCHANGED silence
           ELSE silence' = 0 /\ UNCHANGED <<pc, result, notify, cancels>>
        /\ UNCHANGED retained
     \/ /\ u.kind = "stop"
        /\ Await("answering")
        /\ UNCHANGED <<result, notify, cancels, retained, tools, silence>>
  /\ UNCHANGED <<call, process, session, sent, said, err, stopped, kills, aborted,
                 prompted, elapsed>>

\* The prompt request itself is answered.
PromptAnswered ==
  /\ pc = "answering"
  /\ Leave("ok")
  /\ UNCHANGED <<agentVars, err, stopped, kills, retained, tools, aborted,
                 prompted, silence, elapsed>>

\* Mutant: only initialize has a deadline.
InitializeFires == pc = "initialize" /\ elapsed >= SetupTimeout

IdleFires == pc \in {"prompting", "answering"} /\ silence >= IdleTimeout
HardFires == pc \in {"prompting", "answering"} /\ elapsed >= HardTimeout
SetupFires == pc \in SetupStages /\ elapsed >= SetupTimeout

TimerFires ==
  /\ SetupFires \/ IdleFires \/ HardFires
  /\ Reject("timeout")
  /\ UNCHANGED <<agentVars, err, stopped, kills, retained, tools, aborted,
                 prompted, silence, elapsed>>

\* resource.error wins a race.  Closing the connection also rejects what is
\* outstanding on it, which the client reports as an incompatible protocol.
ErrorWins ==
  /\ err /\ pc \in Racing
  /\ \E r \in {"process_exited", "protocol_incompatible"} \cup
              (IF pc = "initialize" THEN {"executable_missing"} ELSE {}) : Reject(r)
  /\ UNCHANGED <<agentVars, err, stopped, kills, retained, tools, aborted,
                 prompted, silence, elapsed>>

\* The awaited cancel of promptSession is done; its finally clears the timers.
CancelDone ==
  /\ pc = "cancelling" /\ notify = "settled"
  /\ Await("closing")
  /\ UNCHANGED <<agentVars, err, stopped, kills, retained, tools, aborted,
                 notify, cancels, prompted, silence, elapsed, result>>

\* Mutant: stop forgets that it has run.
CloseAgain ==
  /\ pc = "closing" /\ notify # "pending"
  /\ Await("returned")
  /\ stopped' = TRUE
  /\ kills' = kills + 1
  /\ UNCHANGED <<agentVars, err, retained, tools, aborted, notify, cancels,
                 prompted, silence, elapsed, result>>

\* The finally of withConnection.  stop closes the connection, which settles
\* what is written on it, and signals the process, once.
Close ==
  /\ pc = "closing" /\ notify # "pending"
  /\ Await("returned")
  /\ stopped' = TRUE
  /\ kills' = IF stopped THEN kills ELSE kills + 1
  /\ UNCHANGED <<agentVars, err, retained, tools, aborted, notify, cancels,
                 prompted, silence, elapsed, result>>

-----------------------------------------------------------------------------
(* The agent, the pipe and the caller.                                     *)

\* An update for the session; "stop" closes the turn the prompt opened.
AgentSends ==
  /\ process = "running" /\ ~stopped /\ sent < MaxUpdates
  /\ pc \in {"setMode", "setModel", "prompting"}
  /\ \A i \in DOMAIN inbox : inbox[i].kind # "stop"
  /\ \E u \in Update :
       /\ u.kind = "stop" => prompted
       /\ inbox' = Append(inbox, u)
       /\ said' = IF u.kind = "text" THEN said + u.size ELSE said
  /\ sent' = sent + 1
  /\ UNCHANGED <<call, process, session, clientVars>>

\* The process ends: its exit event runs resource.stop with a cause.
ProcessExits ==
  /\ process = "running"
  /\ process' = "exited"
  /\ stopped' = TRUE
  /\ kills' = IF stopped THEN kills ELSE kills + 1
  /\ err' = IF stopped THEN err ELSE TRUE
  /\ notify' = IF notify = "pending" THEN "settled" ELSE notify
  /\ UNCHANGED <<call, session, inbox, sent, said, pc, retained, tools, aborted,
                 cancels, prompted, silence, elapsed, result>>

\* The notification has been written to the pipe.
Written ==
  /\ StdinFlows
  /\ notify = "pending"
  /\ notify' = "settled"
  /\ UNCHANGED <<agentVars, pc, err, stopped, kills, retained, tools, aborted,
                 cancels, prompted, silence, elapsed, result>>

\* The caller's signal; the listener of promptSession sends the cancel.
Abort ==
  /\ ~aborted /\ pc # "returned"
  /\ aborted' = TRUE
  /\ IF pc \in {"prompting", "answering"} THEN SendCancel ELSE UNCHANGED cancelVars
  /\ UNCHANGED <<agentVars, pc, err, stopped, kills, retained, tools,
                 prompted, silence, elapsed, result>>

\* What a tick must not overtake: the client's own steps, due timers, and the
\* promises the constants say settle without delay.
Urgent ==
  \/ pc = "closing" /\ notify # "pending"
  \/ pc = "cancelling" /\ notify = "settled"
  \/ pc = "answering"
  \/ pc = "prompting" /\ inbox # <<>>
  \/ SetupFires \/ IdleFires \/ HardFires
  \/ err /\ pc \in Racing
  \/ StdinFlows /\ notify = "pending"
  \/ settles /\ aborted /\ pc \in Racing

AcpTick ==
  /\ pc \in Racing /\ ~Urgent
  /\ elapsed' = IF elapsed < MaxElapsed THEN elapsed + 1 ELSE elapsed
  /\ silence' = IF pc = "prompting" THEN silence + 1 ELSE silence
  /\ UNCHANGED <<agentVars, pc, err, stopped, kills, retained, tools, aborted,
                 notify, cancels, prompted, result>>

\* What the client does by itself.
ClientStep ==
  \/ TakeUpdate \/ PromptAnswered \/ TimerFires \/ ErrorWins \/ AbortSettled
  \/ CancelDone \/ Close

AgentStep ==
  \/ Initialized \/ SessionCreated \/ ModeSet \/ ModelSet \/ RequestRefused
  \/ AgentSends \/ ProcessExits \/ Written

AcpNext == Connect \/ ClientStep \/ AgentStep \/ Abort \/ AcpTick

(***************************************************************************)
(* The event loop runs what is ready, timers fire, and written bytes are   *)
(* reported; nothing is assumed of the agent.                              *)
(***************************************************************************)
AcpSpec == AcpInit /\ [][AcpNext]_acpVars
           /\ WF_acpVars(ClientStep) /\ WF_acpVars(Written) /\ WF_acpVars(AcpTick)

-----------------------------------------------------------------------------
(***************************************************************************)
(* The agent is told at most once that its session is cancelled, although  *)
(* the abort listener, the output limit and the catch all send it          *)
(* (sendSessionCancel keeps one promise for a session).  It is told while  *)
(* the prompt still runs when the caller aborts, and by the time the call  *)
(* returns when a timer or a limit cut the prompt off; what was sent has   *)
(* settled by then.                                                        *)
(***************************************************************************)
CutPromptCancelledOnce ==
  /\ cancels <= 1
  /\ aborted /\ pc \in {"prompting", "answering"} => cancels = 1
  /\ pc = "returned" => /\ notify # "pending"
                        /\ prompted /\ result \in Cuts => cancels = 1

(***************************************************************************)
(* When the call returns, whatever ended it, the connection is closed and  *)
(* the process was signalled exactly once.                                 *)
(***************************************************************************)
ReturnedMeansStopped ==
  pc = "returned" /\ process # "none" => stopped /\ kills = 1

\* A step that sends the prompt.
PromptIsConfigured ==
  prompted' /\ ~prompted => /\ NeedsSafeMode => session'.safe
                            /\ WantsModel => session'.model
                            /\ ~aborted

(***************************************************************************)
(* A prompt is only ever sent to a session in the provider's safe mode and *)
(* with the requested model (docs/spec/security-addon.md: without the safe *)
(* mode the prompt is not sent).                                           *)
(***************************************************************************)
PromptOnlyConfigured == [][PromptIsConfigured]_acpVars

(***************************************************************************)
(* A successful result holds every byte of text that the agent sent up to  *)
(* the end of its turn, within the limit, and no tool call reached the     *)
(* threshold.                                                              *)
(***************************************************************************)
OkIsComplete ==
  result = "ok" => /\ retained = said /\ retained <= OutputMax
                   /\ Cardinality(tools) < ToolThreshold

(***************************************************************************)
(* The call returns even when the agent never answers: every await before  *)
(* the prompt has the setup timer, the prompt has the hard one.            *)
(***************************************************************************)
Returns == pc \in Racing ~> pc = "returned"

(***************************************************************************)
(* semantic/acp/constants.ts:4 "Absolute wall-clock limit for one provider *)
(* prompt": a prompt always ends.                                          *)
(***************************************************************************)
PromptEnds == pc = "prompting" ~> pc = "returned"
=============================================================================
