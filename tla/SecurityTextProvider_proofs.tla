---------------------- MODULE SecurityTextProvider_proofs ----------------------
(***************************************************************************)
(* Theorems about AcpClient and about SecurityTextProvider, which is built *)
(* on it: for any operations, timers, limits, tool calls and number of     *)
(* updates, any deadline, reserve and bounds of time, whether or not the   *)
(* agent reads its input and the connection settles aborted requests.  No  *)
(* fairness is used.  The first part is about the client alone (AcpSpec);  *)
(* the second carries its invariant over to the calls of the provider      *)
(* (Spec), whose steps are steps of the client.                            *)
(***************************************************************************)
EXTENDS SecurityTextProvider, FiniteSetTheorems, TLAPS

(* The client.                                                             *)

\* One cancel at most, remembered by its promise; the awaited cancel of the
\* catch and the finally of a prompt that was cut off have one.
CancelInv ==
  /\ cancels = IF notify = "none" THEN 0 ELSE 1
  /\ pc = "cancelling" => notify # "none"
  /\ pc \in {"prompting", "answering"} /\ aborted => notify # "none"
  /\ pc \in {"closing", "returned"} /\ prompted /\ result \in Cuts => notify # "none"
  /\ pc = "returned" => notify # "pending"

\* Where the client is says how far the call has come.
PlaceInv ==
  /\ pc = "idle" => notify = "none" /\ process = "none"
  /\ pc \in Racing \cup {"idle"} => result = "none"
  /\ result = "ok" => pc \in {"closing", "returned"}
  /\ prompted => pc \notin SetupStages \cup {"idle"}
  /\ pc = "setMode" => NeedsSafeMode
  /\ pc = "setModel" => WantsModel /\ (NeedsSafeMode => session.safe)

StopInv ==
  /\ kills = IF stopped THEN 1 ELSE 0
  /\ pc = "returned" /\ process # "none" => stopped

\* The bytes of text among the updates that wait: each text has one or none.
TextAt(box) == {i \in DOMAIN box : box[i].kind = "text" /\ box[i].size = 1}
Bytes(box)  == Cardinality(TextAt(box))
SizeOf(u)   == IF u.kind = "text" THEN u.size ELSE 0

\* Nothing is said before there is a session; then what was said is what was
\* retained and what waits; a stop is the last update of the turn.
TextInv ==
  /\ said <= sent
  /\ pc \in {"idle", "initialize", "newSession"} =>
       said = 0 /\ retained = 0 /\ inbox = <<>>
  /\ pc \in {"setMode", "setModel", "prompting", "answering"} =>
       said = retained + Bytes(inbox)
  /\ pc = "answering" => inbox = <<>>
  /\ \A i \in DOMAIN inbox : inbox[i].kind = "stop" => i = Len(inbox)
  /\ IsFiniteSet(tools)
  /\ pc \in Racing \cup {"idle"} => Cardinality(tools) < ToolThreshold
  /\ result = "ok" => retained = said /\ Cardinality(tools) < ToolThreshold

IInv == AcpTypeOK /\ CancelInv /\ PlaceInv /\ StopInv /\ TextInv

-----------------------------------------------------------------------------
(* Bytes of a queue of updates.                                            *)

LEMMA TextAtFinite ==
  ASSUME NEW box \in Seq(Update)
  PROVE  IsFiniteSet(TextAt(box)) /\ Bytes(box) \in Nat
<1>1. DOMAIN box = 1 .. Len(box) /\ Len(box) \in Nat
  OBVIOUS
<1>2. IsFiniteSet(1 .. Len(box))
  BY <1>1, FS_Interval
<1>3. TextAt(box) \subseteq 1 .. Len(box)
  BY <1>1 DEF TextAt
<1>4. IsFiniteSet(TextAt(box))
  BY <1>2, <1>3, FS_Subset
<1> QED BY <1>4, FS_CardinalityType DEF Bytes

LEMMA BytesEmpty == Bytes(<<>>) = 0
<1>1. TextAt(<<>>) = {}
  BY DEF TextAt
<1> QED BY <1>1, FS_EmptySet DEF Bytes

LEMMA UpdateShape ==
  ASSUME NEW u \in Update
  PROVE  /\ u.kind \in {"text", "tool", "stop"}
         /\ u.kind = "text" => u.size \in 0 .. 1
         /\ u.kind = "tool" => u.id \in ToolId
         /\ SizeOf(u) \in 0 .. 1
<1>1. CASE u \in {[kind |-> "text", size |-> s] : s \in 0 .. 1}
  BY <1>1 DEF SizeOf
<1>2. CASE u \in {[kind |-> "tool", id |-> t] : t \in ToolId}
  BY <1>2 DEF SizeOf
<1>3. CASE u \in {[kind |-> "stop"]}
  BY <1>3 DEF SizeOf
<1> QED BY <1>1, <1>2, <1>3 DEF Update

LEMMA BytesAppend ==
  ASSUME NEW box \in Seq(Update), NEW u \in Update
  PROVE  Bytes(Append(box, u)) = Bytes(box) + SizeOf(u)
<1> DEFINE n == Len(box) + 1
<1>1. /\ Len(box) \in Nat
      /\ DOMAIN box = 1 .. Len(box)
      /\ DOMAIN Append(box, u) = 1 .. n
      /\ Append(box, u)[n] = u
      /\ \A i \in 1 .. Len(box) : Append(box, u)[i] = box[i]
  OBVIOUS
<1>2. CASE u.kind = "text" /\ u.size = 1
  <2>1. TextAt(Append(box, u)) = TextAt(box) \cup {n} /\ n \notin TextAt(box)
    BY <1>1, <1>2 DEF TextAt
  <2>2. Bytes(Append(box, u)) = Bytes(box) + 1
    BY <2>1, TextAtFinite, FS_AddElement DEF Bytes
  <2> QED BY <2>2, <1>2 DEF SizeOf
<1>3. CASE ~(u.kind = "text" /\ u.size = 1)
  <2>1. TextAt(Append(box, u)) = TextAt(box)
    BY <1>1, <1>3 DEF TextAt
  <2>2. SizeOf(u) = 0
    BY <1>3, UpdateShape DEF SizeOf
  <2> QED BY <2>1, <2>2, TextAtFinite DEF Bytes
<1> QED BY <1>2, <1>3

LEMMA BytesTail ==
  ASSUME NEW box \in Seq(Update), box # <<>>
  PROVE  Bytes(box) = Bytes(Tail(box)) + SizeOf(Head(box))
<1> DEFINE S == TextAt(box)
           T == TextAt(Tail(box))
           f == [i \in T |-> i + 1]
<1>1. /\ Len(box) \in Nat \ {0}
      /\ DOMAIN box = 1 .. Len(box)
      /\ DOMAIN Tail(box) = 1 .. Len(box) - 1
      /\ \A i \in 1 .. Len(box) - 1 : Tail(box)[i] = box[i + 1]
      /\ Head(box) = box[1]
      /\ Tail(box) \in Seq(Update) /\ Head(box) \in Update
  OBVIOUS
<1>2. T \subseteq Nat /\ S \subseteq Nat
  BY <1>1 DEF TextAt
<1>3. \A i \in T : i + 1 \in S \ {1}
  BY <1>1 DEF TextAt
<1>4. \A k \in S \ {1} : k - 1 \in T
  BY <1>1 DEF TextAt
<1>5. f \in Bijection(T, S \ {1})
  <2>1. f \in [T -> S \ {1}]
    BY <1>3
  <2>2. \A a, b \in T : f[a] = f[b] => a = b
    BY <1>2
  <2>3. \A k \in S \ {1} : k - 1 \in T /\ f[k - 1] = k
    BY <1>2, <1>4
  <2> QED BY <2>1, <2>2, <2>3 DEF Bijection, Injection, Surjection, IsInjective
<1>6. IsFiniteSet(T) /\ IsFiniteSet(S) /\ Bytes(box) \in Nat /\ Bytes(Tail(box)) \in Nat
  BY <1>1, TextAtFinite
<1>7. Cardinality(S \ {1}) = Cardinality(T)
  <2> DEFINE U == S \ {1}
  <2>1. ExistsBijection(T, U) /\ IsFiniteSet(T)
    BY <1>5, <1>6 DEF ExistsBijection
  <2> HIDE DEF U, T
  <2>2. Cardinality(U) = Cardinality(T)
    BY <2>1, FS_Bijection
  <2> QED BY <2>2 DEF U
<1>8. /\ Bytes(box) = Cardinality(S) /\ Bytes(Tail(box)) = Cardinality(T)
      /\ Cardinality(S) \in Nat
  BY <1>6 DEF Bytes
<1>9. CASE Head(box).kind = "text" /\ Head(box).size = 1
  <2>1. 1 \in S /\ SizeOf(Head(box)) = 1
    BY <1>1, <1>9 DEF TextAt, SizeOf
  <2> HIDE DEF S, T
  <2>2. Cardinality(S \ {1}) = Cardinality(S) - 1
    BY <2>1, <1>6, FS_RemoveElement
  <2> QED BY <2>1, <2>2, <1>7, <1>8
<1>10. CASE ~(Head(box).kind = "text" /\ Head(box).size = 1)
  <2>1. S \ {1} = S
    BY <1>1, <1>10 DEF TextAt
  <2>2. SizeOf(Head(box)) = 0
    BY <1>1, <1>10, UpdateShape DEF SizeOf
  <2> HIDE DEF S, T
  <2>3. Cardinality(S) = Cardinality(T)
    BY ONLY <2>1, <1>7, Zenon
  <2> QED BY <2>2, <2>3, <1>8
<1> QED BY <1>9, <1>10
-----------------------------------------------------------------------------
(* What the client's own steps leave.                                      *)

Rest     == <<call, process, inbox, sent, said, err, stopped, kills, retained,
              tools, aborted>>
Progress == <<prompted, silence, elapsed>>

\* The ends of EnterPrompt and of the steps of configureSession.
Prompts  == /\ ~aborted /\ pc' = "prompting" /\ prompted' = TRUE
            /\ silence' = 0 /\ elapsed' = 0
            /\ UNCHANGED <<result, notify, cancels>>
GivesUp  == /\ aborted /\ pc' = "cancelling" /\ result' = "cancelled"
            /\ SendCancel /\ UNCHANGED Progress
Sets(stage) == pc' = stage /\ UNCHANGED <<result, notify, cancels, Progress>>
Lacks    == /\ pc' = "closing"
            /\ result' \in {"model_unavailable", "safe_mode_unavailable"}
            /\ UNCHANGED <<notify, cancels, Progress>>

LEMMA EnterPromptEnds == EnterPrompt => Prompts \/ GivesUp
BY DEF EnterPrompt, Prompts, GivesUp, Await, Settle, Progress

LEMMA ConfigureModelEnds ==
  ASSUME NEW s, ConfigureModel(s)
  PROVE  Prompts \/ GivesUp \/ (Sets("setModel") /\ WantsModel) \/ Lacks
<1>1. CASE ~WantsModel \/ (s.modelOffered /\ s.model)
  BY <1>1, EnterPromptEnds DEF ConfigureModel
<1>2. CASE ~(~WantsModel \/ (s.modelOffered /\ s.model))
  BY <1>2 DEF ConfigureModel, Await, Leave, Settle, Sets, Lacks, Progress, cancelVars
<1> QED BY <1>1, <1>2

LEMMA ConfigureEnds ==
  ASSUME NEW s, Configure(s)
  PROVE  \/ Prompts \/ GivesUp \/ Lacks
         \/ Sets("setMode") /\ NeedsSafeMode
         \/ Sets("setModel") /\ WantsModel /\ (NeedsSafeMode => s.safe)
<1>1. CASE ~NeedsSafeMode \/ (s.safeOffered /\ s.safe)
  BY <1>1, ConfigureModelEnds DEF Configure
<1>2. CASE ~(~NeedsSafeMode \/ (s.safeOffered /\ s.safe))
  BY <1>2 DEF Configure, Await, Leave, Settle, Sets, Lacks, Progress, cancelVars
<1> QED BY <1>1, <1>2

\* A prompt is sent at most once after whatever ends a step of the set-up.
LEMMA ConfiguredKeeps ==
  ASSUME IInv, pc \in {"newSession", "setMode", "setModel"},
         session' \in Session, UNCHANGED Rest,
         \/ Prompts \/ GivesUp \/ Lacks
         \/ Sets("setMode") /\ NeedsSafeMode
         \/ Sets("setModel") /\ WantsModel /\ (NeedsSafeMode => session'.safe)
  PROVE  IInv'
<1> USE DEF IInv, Rest, Progress, call
<1>1. AcpTypeOK'
  <2>1. /\ pc' \in {"prompting", "cancelling", "setMode", "setModel", "closing"}
        /\ cancels' \in Nat /\ notify' \in {"none", "pending", "settled"}
    BY DEF AcpTypeOK, Prompts, GivesUp, Sets, Lacks, SendCancel, cancelVars
  <2>2. prompted' \in BOOLEAN /\ result' \in Reasons \cup {"none", "ok"}
    BY DEF AcpTypeOK, Prompts, GivesUp, Sets, Lacks, Reasons
  <2>3. silence' \in 0 .. IdleTimeout /\ elapsed' \in 0 .. MaxElapsed
    BY AcpAssumption DEF AcpTypeOK, Prompts, GivesUp, Sets, Lacks, MaxElapsed
  <2>4. {err', stopped', aborted'} \subseteq BOOLEAN
    BY DEF AcpTypeOK
  <2> QED BY <2>1, <2>2, <2>3, <2>4 DEF AcpTypeOK, Racing, SetupStages
<1>2. CancelInv'
  BY DEF AcpTypeOK, CancelInv, PlaceInv, Prompts, GivesUp, Sets, Lacks, SendCancel, cancelVars,
        Racing, SetupStages, Cuts
<1>3. PlaceInv'
  BY DEF AcpTypeOK, PlaceInv, Prompts, GivesUp, Sets, Lacks, Racing, SetupStages
<1>4. StopInv'
  BY DEF StopInv, Prompts, GivesUp, Sets, Lacks
<1>5. TextInv'
  <2>1. said = retained + Bytes(inbox)
    BY BytesEmpty DEF TextInv, AcpTypeOK
  <2>2. Bytes(inbox') = Bytes(inbox)
    OBVIOUS
  <2>3. Cardinality(tools) < ToolThreshold
    BY DEF TextInv, Racing, SetupStages
  <2>4. result' # "ok" /\ pc' \in {"prompting", "cancelling", "setMode", "setModel", "closing"}
    BY DEF PlaceInv, Prompts, GivesUp, Sets, Lacks, Racing, SetupStages
  <2> QED BY <2>1, <2>2, <2>3, <2>4 DEF TextInv, Racing, SetupStages
<1> QED BY <1>1, <1>2, <1>3, <1>4, <1>5

\* A race lost: whoever rejected it, the agent is told when the prompt is cut.
LEMMA RejectKeeps ==
  ASSUME IInv, pc \in Racing, NEW r \in Reasons, Reject(r),
         UNCHANGED <<call, process, session, sent, said, err, stopped, kills,
                     aborted, prompted, silence, elapsed>>,
         retained' \in 0 .. OutputMax, tools' \subseteq ToolId, IsFiniteSet(tools'),
         inbox' \in Seq(Update),
         \A i \in DOMAIN inbox' : inbox'[i].kind = "stop" => i = Len(inbox')
  PROVE  IInv'
<1> USE DEF IInv, call
<1>1. /\ result' = r /\ r # "ok" /\ r # "none"
      /\ \/ pc \in SetupStages /\ pc' = "closing" /\ UNCHANGED cancelVars
         \/ pc \notin SetupStages /\ pc' = "cancelling" /\ SendCancel
         \/ /\ pc \notin SetupStages /\ ~aborted /\ r \notin Cuts
            /\ pc' = "closing" /\ UNCHANGED cancelVars
  BY DEF Reject, Leave, Catch, Await, Settle, Reasons, Cuts, Refusals
<1>2. AcpTypeOK'
  <2>1. cancels' \in Nat /\ notify' \in {"none", "pending", "settled"}
    BY <1>1 DEF AcpTypeOK, SendCancel, cancelVars
  <2>2. {err', stopped', aborted', prompted'} \subseteq BOOLEAN
    BY DEF AcpTypeOK
  <2> QED BY <1>1, <2>1, <2>2 DEF AcpTypeOK
<1>3. CancelInv'
  BY <1>1 DEF AcpTypeOK, CancelInv, PlaceInv, SendCancel, cancelVars, Racing, SetupStages
<1>4. PlaceInv'
  BY <1>1 DEF AcpTypeOK, PlaceInv, Racing, SetupStages
<1>5. StopInv'
  BY <1>1 DEF StopInv
<1>6. TextInv'
  BY <1>1 DEF TextInv, Racing, SetupStages
<1> QED BY <1>2, <1>3, <1>4, <1>5, <1>6

LEMMA InitIInv == AcpInit => IInv
<1> SUFFICES ASSUME AcpInit PROVE IInv
  OBVIOUS
<1> USE DEF AcpInit
<1>1. session \in Session
  BY DEF Session, Seen
<1>2. AcpTypeOK
  <2>1. {err, stopped, aborted, prompted} \subseteq BOOLEAN
    OBVIOUS
  <2>2. /\ said \in 0 .. MaxUpdates /\ sent \in 0 .. MaxUpdates
        /\ retained \in 0 .. OutputMax
        /\ silence \in 0 .. IdleTimeout /\ elapsed \in 0 .. MaxElapsed
    BY AcpAssumption DEF MaxElapsed
  <2>3. inbox \in Seq(Update) /\ kills \in Nat /\ cancels \in Nat
    OBVIOUS
  <2> QED BY <1>1, <2>1, <2>2, <2>3 DEF AcpTypeOK
<1>3. CancelInv /\ PlaceInv /\ StopInv
  BY DEF CancelInv, PlaceInv, StopInv, Racing, SetupStages, Cuts
<1>4. TextInv
  BY AcpAssumption, FS_EmptySet DEF TextInv, Racing, SetupStages
<1> QED BY <1>2, <1>3, <1>4 DEF IInv

LEMMA ConnectKeeps == IInv /\ Connect => IInv'
<1> SUFFICES ASSUME IInv, Connect PROVE IInv'
  OBVIOUS
<1> USE DEF IInv, Connect, call
<1>1. \/ /\ pc' = "returned" /\ result' = "executable_missing"
         /\ UNCHANGED <<process, elapsed, notify, cancels>>
      \/ /\ process' = "running" /\ elapsed' = 0 /\ pc' = "closing" /\ aborted
         /\ result' = "cancelled" /\ UNCHANGED <<notify, cancels>>
      \/ /\ process' = "running" /\ elapsed' = 0 /\ pc' = "initialize"
         /\ UNCHANGED <<result, notify, cancels>>
  BY DEF Await, Settle, Leave, cancelVars
<1>2. AcpTypeOK'
  <2>1. {err', stopped', aborted', prompted'} \subseteq BOOLEAN
    BY DEF AcpTypeOK
  <2>2. elapsed' \in 0 .. MaxElapsed
    BY <1>1, AcpAssumption DEF AcpTypeOK, MaxElapsed
  <2> QED BY <1>1, <2>1, <2>2 DEF AcpTypeOK, Racing, SetupStages, Reasons
<1>3. CancelInv' /\ PlaceInv'
  BY <1>1 DEF CancelInv, PlaceInv, Racing, SetupStages, Cuts
<1>4. StopInv'
  BY <1>1 DEF StopInv, PlaceInv
<1>5. TextInv'
  BY <1>1 DEF TextInv, Racing, SetupStages
<1> QED BY <1>2, <1>3, <1>4, <1>5

LEMMA SetSeen ==
  ASSUME NEW s \in Session
  PROVE  /\ NeedsSafeMode => /\ [s EXCEPT !.safe = TRUE] \in Session
                             /\ [s EXCEPT !.safe = TRUE].safe
         /\ WantsModel => [s EXCEPT !.model = TRUE] \in Session
<1>1. /\ s.safeOffered \in Seen(NeedsSafeMode) /\ s.safe \in Seen(NeedsSafeMode)
      /\ s.modelOffered \in Seen(WantsModel) /\ s.model \in Seen(WantsModel)
  BY DEF Session
<1>2. /\ NeedsSafeMode => TRUE \in Seen(NeedsSafeMode)
      /\ WantsModel => TRUE \in Seen(WantsModel)
  BY DEF Seen
<1> QED BY <1>1, <1>2 DEF Session

LEMMA InitializedKeeps == IInv /\ Initialized => IInv'
<1> SUFFICES ASSUME IInv, Initialized PROVE IInv'
  OBVIOUS
<1> USE DEF IInv, Initialized, agentVars, call
<1>1. /\ UNCHANGED <<notify, cancels>>
      /\ \/ pc' = "newSession" /\ elapsed' = 0 /\ UNCHANGED result
         \/ /\ pc' = "closing" /\ UNCHANGED elapsed
            /\ result' \in {"ok", "protocol_incompatible", "confinement_unsupported"}
  BY DEF Await, Settle, Leave, cancelVars
<1>2. AcpTypeOK'
  <2>1. {err', stopped', aborted', prompted'} \subseteq BOOLEAN
    BY DEF AcpTypeOK
  <2>2. elapsed' \in 0 .. MaxElapsed
    BY <1>1, AcpAssumption DEF AcpTypeOK, MaxElapsed
  <2>3. pc' \in {"newSession", "closing"}
    BY <1>1
  <2>4. result \in Reasons \cup {"none", "ok"}
    BY DEF AcpTypeOK
  <2>5. result' \in Reasons \cup {"none", "ok"}
    BY ONLY <1>1, <2>4 DEF Reasons, Refusals
  <2> QED BY <1>1, <2>1, <2>2, <2>3, <2>5 DEF AcpTypeOK, Racing, SetupStages
<1>3. CancelInv' /\ PlaceInv'
  BY <1>1 DEF CancelInv, PlaceInv, Racing, SetupStages, Cuts
<1>4. StopInv'
  BY <1>1 DEF StopInv
<1>5. TextInv'
  BY <1>1 DEF TextInv, Racing, SetupStages
<1> QED BY <1>2, <1>3, <1>4, <1>5

LEMMA SessionKeeps ==
  ASSUME IInv, SessionCreated \/ ModeSet \/ ModelSet
  PROVE  IInv'
<1> USE DEF IInv
<1>1. CASE SessionCreated
  <2>1. PICK s \in Session :
          /\ session' = s
          /\ IF operation = "discoverModels"
             THEN Leave("ok") /\ UNCHANGED Progress
             ELSE Configure(s)
    BY <1>1 DEF SessionCreated, Progress
  <2>2. CASE operation = "discoverModels"
    <3>1. /\ pc = "newSession" /\ pc' = "closing" /\ result' = "ok"
          /\ UNCHANGED <<notify, cancels, prompted, silence, elapsed, call, process,
                  inbox, sent, said, err, stopped, kills, retained, tools, aborted>>
      BY <1>1, <2>1, <2>2 DEF SessionCreated, Leave, Await, Settle, cancelVars, Progress
    <3>2. AcpTypeOK'
      <4>1. {err', stopped', aborted', prompted'} \subseteq BOOLEAN
        BY <3>1 DEF AcpTypeOK
      <4> QED BY <3>1, <4>1, <2>1 DEF AcpTypeOK, call
    <3>3. CancelInv' /\ PlaceInv'
      BY <3>1 DEF CancelInv, PlaceInv, Racing, SetupStages, Cuts
    <3>4. StopInv' /\ TextInv'
      BY <3>1 DEF StopInv, TextInv, Racing, SetupStages
    <3> QED BY <3>2, <3>3, <3>4
  <2>3. CASE operation # "discoverModels"
    <3>1. UNCHANGED Rest /\ pc = "newSession"
      BY <1>1 DEF SessionCreated, Rest
    <3> QED BY <2>1, <2>3, <3>1, ConfigureEnds, ConfiguredKeeps
  <2> QED BY <2>2, <2>3
<1>2. CASE ModeSet
  <2>1. UNCHANGED Rest /\ pc = "setMode" /\ ConfigureModel(session)
    BY <1>2 DEF ModeSet, Rest
  <2>2. session' \in Session /\ session'.safe
    BY <2>1, <1>2, SetSeen DEF ModeSet, AcpTypeOK, PlaceInv
  <2> QED BY <2>1, <2>2, ConfigureModelEnds, ConfiguredKeeps
<1>3. CASE ModelSet
  <2>1. UNCHANGED Rest /\ pc = "setModel" /\ EnterPrompt
    BY <1>3 DEF ModelSet, Rest
  <2>2. session' \in Session
    BY <2>1, <1>3, SetSeen DEF ModelSet, AcpTypeOK, PlaceInv
  <2> QED BY <2>1, <2>2, EnterPromptEnds, ConfiguredKeeps
<1> QED BY <1>1, <1>2, <1>3

\* Every way a race is lost.
LEMMA RejectingKeeps ==
  ASSUME IInv, RequestRefused \/ AbortSettled \/ TimerFires \/ ErrorWins
  PROVE  IInv'
<1>1. /\ pc \in Racing
      /\ UNCHANGED <<agentVars, err, stopped, kills, retained, tools, aborted,
                     prompted, silence, elapsed>>
  BY DEF RequestRefused, AbortSettled, TimerFires, ErrorWins, SetupFires, IdleFires,
         HardFires, Racing
<1>2. \E r \in Reasons : Reject(r)
  <2>1. CASE RequestRefused
    BY <2>1 DEF RequestRefused, Worded
  <2>2. CASE AbortSettled
    BY <2>2 DEF AbortSettled, Reasons
  <2>3. CASE TimerFires
    BY <2>3 DEF TimerFires, Reasons, Cuts
  <2>4. CASE ErrorWins
    BY <2>4 DEF ErrorWins, Reasons, Refusals
  <2> QED BY <2>1, <2>2, <2>3, <2>4
<1>3. /\ UNCHANGED <<call, process, session, inbox, sent, said, err, stopped, kills,
                     retained, tools, aborted, prompted, silence, elapsed>>
  BY <1>1 DEF agentVars
<1>4. /\ retained' \in 0 .. OutputMax /\ tools' \subseteq ToolId /\ IsFiniteSet(tools')
      /\ inbox' \in Seq(Update)
      /\ \A i \in DOMAIN inbox' : inbox'[i].kind = "stop" => i = Len(inbox')
  BY <1>3 DEF IInv, AcpTypeOK, TextInv
<1> QED BY <1>1, <1>2, <1>3, <1>4, RejectKeeps

\* One update of the prompt loop takes its text from what waits to what is
\* retained, or cuts the prompt.
LEMMA TakeUpdateKeeps == IInv /\ TakeUpdate => IInv'
<1> SUFFICES ASSUME IInv, TakeUpdate PROVE IInv'
  OBVIOUS
<1> USE DEF IInv
<1> DEFINE u == Head(inbox)
<1>1. /\ pc = "prompting" /\ inbox # <<>> /\ inbox \in Seq(Update) /\ inbox' = Tail(inbox)
      /\ UNCHANGED <<call, process, session, sent, said, err, stopped, kills, aborted,
                     prompted, elapsed>>
  BY DEF TakeUpdate, AcpTypeOK
<1>2. /\ u \in Update /\ Tail(inbox) \in Seq(Update) /\ Len(inbox) \in Nat \ {0}
      /\ DOMAIN inbox = 1 .. Len(inbox) /\ u = inbox[1]
      /\ DOMAIN Tail(inbox) = 1 .. Len(inbox) - 1 /\ Len(Tail(inbox)) = Len(inbox) - 1
      /\ \A i \in 1 .. Len(inbox) - 1 : Tail(inbox)[i] = inbox[i + 1]
  BY <1>1
<1>3. /\ said = retained + Bytes(inbox)
      /\ Bytes(inbox) = Bytes(Tail(inbox)) + SizeOf(u)
      /\ Bytes(Tail(inbox)) \in Nat
  BY <1>1, <1>2, BytesTail, TextAtFinite DEF TextInv
<1>4. \A i \in DOMAIN inbox' : inbox'[i].kind = "stop" => i = Len(inbox')
  <2> SUFFICES ASSUME NEW i \in 1 .. Len(inbox) - 1, Tail(inbox)[i].kind = "stop"
               PROVE  i = Len(inbox) - 1
    BY <1>1, <1>2
  <2>1. i + 1 \in DOMAIN inbox /\ inbox[i + 1].kind = "stop"
    BY <1>2
  <2>2. i + 1 = Len(inbox)
    BY <2>1 DEF TextInv
  <2>3. Len(inbox) \in Nat /\ i \in Int
    BY <1>2
  <2> QED BY <2>2, <2>3
<1>5. u.kind = "text" => u.size \in 0 .. 1 /\ SizeOf(u) = u.size
  BY <1>2, UpdateShape DEF SizeOf
<1>6. u.kind # "text" => SizeOf(u) = 0
  BY DEF SizeOf
<1>7. IsFiniteSet(tools) /\ Cardinality(tools) < ToolThreshold
  BY <1>1 DEF TextInv, Racing
<1>8. {err', stopped', aborted', prompted'} \subseteq BOOLEAN /\ result = "none"
  BY <1>1 DEF AcpTypeOK, PlaceInv, Racing
<1> HIDE DEF u
<1>9. ASSUME Catch("invalid_response") \/ Catch("tool_use_limit"), silence' = silence,
             retained' \in 0 .. OutputMax, tools' \subseteq ToolId, IsFiniteSet(tools')
      PROVE  IInv'
  <2>1. PICK r \in Cuts : Catch(r)
    BY <1>9 DEF Cuts
  <2>2. r \in Reasons /\ r # "cancelled" /\ Reject(r) /\ pc \in Racing
    BY <1>1, <2>1 DEF Reasons, Cuts, Reject, SetupStages, Racing
  <2> QED BY <1>1, <1>2, <1>4, <1>9, <2>2, RejectKeeps
<1>10. ASSUME UNCHANGED <<result, notify, cancels>>, silence' \in 0 .. IdleTimeout,
              \/ pc' = "prompting"
              \/ pc' = "answering" /\ inbox' = <<>>,
              retained' \in 0 .. OutputMax, retained' = retained + SizeOf(u),
              tools' \subseteq ToolId, IsFiniteSet(tools'),
              Cardinality(tools') < ToolThreshold
       PROVE  IInv'
  <2>1. AcpTypeOK'
    BY <1>1, <1>2, <1>8, <1>10 DEF AcpTypeOK, Racing, call
  <2>2. CancelInv' /\ PlaceInv' /\ StopInv'
    BY <1>1, <1>10 DEF CancelInv, PlaceInv, StopInv, Racing, SetupStages
  <2>3. said' = retained' + Bytes(inbox')
    <3>1. Bytes(inbox') = Bytes(Tail(inbox)) /\ said' = said
      BY <1>1
    <3>2. retained \in Nat /\ SizeOf(u) \in Nat
      BY <1>2, UpdateShape, AcpAssumption DEF AcpTypeOK
    <3> QED BY <3>1, <3>2, <1>3, <1>10
  <2>4. TextInv'
    BY <1>1, <1>4, <1>8, <1>10, <2>3 DEF TextInv, Racing
  <2> QED BY <2>1, <2>2, <2>4
<1>11. retained \in 0 .. OutputMax /\ silence \in 0 .. IdleTimeout /\ tools \subseteq ToolId
  BY DEF AcpTypeOK
<1>12. CASE u.kind = "text" /\ u.size = 0
  <2>1. UNCHANGED <<pc, result, notify, cancels, retained, tools, silence>>
    BY <1>12 DEF TakeUpdate, u
  <2> QED BY <1>1, <1>5, <1>7, <1>10, <1>11, <1>12, <2>1
<1>13. CASE u.kind = "text" /\ u.size > 0 /\ TooLong(u.size)
  <2>1. Catch("invalid_response") /\ retained' = 0 /\ UNCHANGED <<tools, silence>>
    BY <1>13 DEF TakeUpdate, u
  <2> QED BY <1>7, <1>9, <1>11, <2>1, AcpAssumption
<1>14. CASE u.kind = "text" /\ u.size > 0 /\ ~TooLong(u.size)
  <2>1. /\ retained' = retained + u.size /\ silence' = 0
        /\ UNCHANGED <<pc, result, notify, cancels, tools>>
    BY <1>14 DEF TakeUpdate, u
  <2>2. retained' \in 0 .. OutputMax /\ silence' \in 0 .. IdleTimeout
    BY <1>5, <1>11, <1>14, <2>1, AcpAssumption DEF TooLong
  <2> QED BY <1>1, <1>5, <1>7, <1>10, <1>11, <1>14, <2>1, <2>2
<1>15. CASE u.kind = "tool"
  <2>1. /\ tools' = tools \cup {u.id} /\ retained' = retained
        /\ \/ /\ u.id \notin tools /\ Cardinality(tools') >= ToolThreshold
              /\ Catch("tool_use_limit") /\ silence' = silence
           \/ /\ ~(u.id \notin tools /\ Cardinality(tools') >= ToolThreshold)
              /\ silence' = 0 /\ UNCHANGED <<pc, result, notify, cancels>>
    BY <1>15 DEF TakeUpdate, u
  <2>2. tools' \subseteq ToolId /\ IsFiniteSet(tools') /\ Cardinality(tools') \in Nat
    BY <1>2, <1>7, <1>11, <1>15, <2>1, UpdateShape, FS_AddElement, FS_CardinalityType
  <2>3. CASE Catch("tool_use_limit") /\ silence' = silence
    BY <1>9, <1>11, <2>1, <2>2, <2>3
  <2>4. CASE /\ ~(u.id \notin tools /\ Cardinality(tools') >= ToolThreshold)
             /\ silence' = 0 /\ UNCHANGED <<pc, result, notify, cancels>>
    <3>1. Cardinality(tools') < ToolThreshold
      <4>1. CASE u.id \in tools
        BY <4>1, <1>7, <2>1, tools' = tools
      <4>2. CASE ~(Cardinality(tools') >= ToolThreshold)
        BY <4>2, <2>2, AcpAssumption
      <4> QED BY <2>4, <4>1, <4>2
    <3>2. silence' \in 0 .. IdleTimeout
      BY <2>4, AcpAssumption
    <3> QED BY <1>1, <1>6, <1>10, <1>11, <1>15, <2>1, <2>2, <2>4, <3>1, <3>2
  <2> QED BY <2>1, <2>3, <2>4
<1>16. CASE u.kind = "stop"
  <2>1. pc' = "answering" /\ UNCHANGED <<result, notify, cancels, retained, tools, silence>>
    BY <1>16 DEF TakeUpdate, Await, u
  <2>2. inbox' = <<>>
    <3>1. Len(inbox) = 1
      BY <1>2, <1>16 DEF TextInv
    <3> QED BY <1>1, <1>2, <3>1
  <2> QED BY <1>6, <1>7, <1>10, <1>11, <1>16, <2>1, <2>2
<1> QED BY <1>2, <1>5, <1>12, <1>13, <1>14, <1>15, <1>16, UpdateShape

LEMMA PromptAnsweredKeeps == IInv /\ PromptAnswered => IInv'
<1> SUFFICES ASSUME IInv, PromptAnswered PROVE IInv'
  OBVIOUS
<1> USE DEF IInv, agentVars, call
<1>1. /\ pc = "answering" /\ pc' = "closing" /\ result' = "ok"
      /\ UNCHANGED <<agentVars, err, stopped, kills, retained, tools, aborted, notify,
                     cancels, prompted, silence, elapsed>>
  BY DEF PromptAnswered, Leave, Await, Settle, cancelVars
<1>2. said = retained
  BY <1>1, BytesEmpty, AcpAssumption DEF TextInv, AcpTypeOK
<1>3. AcpTypeOK'
  <2>1. {err', stopped', aborted', prompted'} \subseteq BOOLEAN
    BY <1>1 DEF AcpTypeOK
  <2> QED BY <1>1, <2>1 DEF AcpTypeOK
<1>4. CancelInv' /\ PlaceInv' /\ StopInv'
  BY <1>1 DEF CancelInv, PlaceInv, StopInv, Racing, SetupStages, Cuts
<1>5. TextInv'
  BY <1>1, <1>2 DEF TextInv, Racing, SetupStages
<1> QED BY <1>3, <1>4, <1>5

LEMMA FinallyKeeps ==
  ASSUME IInv, CancelDone \/ Close
  PROVE  IInv'
<1> USE DEF IInv, agentVars, call
<1>1. /\ UNCHANGED <<agentVars, err, retained, tools, aborted, notify, cancels,
                     prompted, silence, elapsed, result>>
      /\ \/ /\ pc = "cancelling" /\ notify = "settled" /\ pc' = "closing"
            /\ UNCHANGED <<stopped, kills>>
         \/ /\ pc = "closing" /\ notify # "pending" /\ pc' = "returned"
            /\ stopped' = TRUE /\ kills' = IF stopped THEN kills ELSE kills + 1
  BY DEF CancelDone, Close, Await
<1>2. AcpTypeOK'
  <2>1. {err', stopped', aborted', prompted'} \subseteq BOOLEAN
    BY <1>1 DEF AcpTypeOK
  <2>2. kills' \in Nat
    BY <1>1 DEF AcpTypeOK
  <2> QED BY <1>1, <2>1, <2>2 DEF AcpTypeOK
<1>3. CancelInv'
  BY <1>1 DEF CancelInv, PlaceInv
<1>4. PlaceInv' /\ StopInv'
  BY <1>1 DEF PlaceInv, StopInv, Racing, SetupStages
<1>5. TextInv'
  BY <1>1 DEF TextInv, Racing, SetupStages
<1> QED BY <1>2, <1>3, <1>4, <1>5

LEMMA AgentSendsKeeps == IInv /\ AgentSends => IInv'
<1> SUFFICES ASSUME IInv, AgentSends PROVE IInv'
  OBVIOUS
<1>1. /\ pc \in {"setMode", "setModel", "prompting"} /\ sent < MaxUpdates
      /\ \A i \in DOMAIN inbox : inbox[i].kind # "stop"
      /\ sent' = sent + 1 /\ UNCHANGED <<call, process, session, clientVars>>
  BY DEF AgentSends
<1>2. PICK u \in Update :
        /\ inbox' = Append(inbox, u)
        /\ said' = IF u.kind = "text" THEN said + u.size ELSE said
  BY DEF AgentSends
<1>3. inbox \in Seq(Update) /\ sent \in Nat /\ said \in Nat /\ retained \in Nat
      /\ said <= sent /\ said = retained + Bytes(inbox)
  BY <1>1, AcpAssumption DEF IInv, AcpTypeOK, TextInv
<1>4. /\ SizeOf(u) \in 0 .. 1 /\ said' = said + SizeOf(u)
      /\ Bytes(inbox') = Bytes(inbox) + SizeOf(u) /\ Bytes(inbox) \in Nat
  <2>1. said' = said + SizeOf(u)
    BY <1>2, <1>3 DEF SizeOf
  <2> QED BY <2>1, <1>2, <1>3, UpdateShape, BytesAppend, TextAtFinite
<1>5. said' \in 0 .. MaxUpdates /\ sent' \in 0 .. MaxUpdates /\ said' <= sent'
      /\ said' = retained + Bytes(inbox')
  BY <1>1, <1>3, <1>4, AcpAssumption
<1>6. \A i \in DOMAIN inbox' : inbox'[i].kind = "stop" => i = Len(inbox')
  BY <1>1, <1>2, <1>3
<1>7. inbox' \in Seq(Update)
  BY <1>2, <1>3
<1> USE DEF IInv, clientVars, call
<1>8. AcpTypeOK'
  <2>1. {err', stopped', aborted', prompted'} \subseteq BOOLEAN
    BY <1>1 DEF AcpTypeOK
  <2> QED BY <1>1, <1>5, <1>7, <2>1 DEF AcpTypeOK
<1>9. CancelInv' /\ PlaceInv' /\ StopInv'
  BY <1>1 DEF CancelInv, PlaceInv, StopInv, Racing, SetupStages
<1>10. TextInv'
  BY <1>1, <1>5, <1>6 DEF TextInv, PlaceInv, Racing, SetupStages
<1> QED BY <1>8, <1>9, <1>10

LEMMA ProcessExitsKeeps == IInv /\ ProcessExits => IInv'
<1> SUFFICES ASSUME IInv, ProcessExits PROVE IInv'
  OBVIOUS
<1> USE DEF IInv, ProcessExits, call
<1>1. AcpTypeOK'
  <2>1. {err', stopped', aborted', prompted'} \subseteq BOOLEAN
    BY DEF AcpTypeOK
  <2>2. kills' \in Nat
    BY DEF AcpTypeOK
  <2> QED BY <2>1, <2>2 DEF AcpTypeOK
<1>2. CancelInv' /\ PlaceInv' /\ StopInv'
  BY DEF CancelInv, PlaceInv, StopInv
<1>3. TextInv'
  BY DEF TextInv
<1> QED BY <1>1, <1>2, <1>3

LEMMA WrittenKeeps == IInv /\ Written => IInv'
<1> SUFFICES ASSUME IInv, Written PROVE IInv'
  OBVIOUS
<1> USE DEF IInv, Written, agentVars, call
<1>1. AcpTypeOK'
  <2>1. {err', stopped', aborted', prompted'} \subseteq BOOLEAN
    BY DEF AcpTypeOK
  <2> QED BY <2>1 DEF AcpTypeOK
<1>2. CancelInv' /\ PlaceInv' /\ StopInv'
  BY DEF CancelInv, PlaceInv, StopInv
<1>3. TextInv'
  BY DEF TextInv
<1> QED BY <1>1, <1>2, <1>3

LEMMA AbortKeeps == IInv /\ Abort => IInv'
<1> SUFFICES ASSUME IInv, Abort PROVE IInv'
  OBVIOUS
<1> USE DEF IInv, Abort, agentVars, call
<1>1. \/ pc \in {"prompting", "answering"} /\ SendCancel
      \/ UNCHANGED <<notify, cancels>>
  BY DEF cancelVars
<1>2. cancels' \in Nat /\ notify' \in {"none", "pending", "settled"}
  BY <1>1 DEF AcpTypeOK, SendCancel, cancelVars
<1>3. AcpTypeOK'
  <2>1. {err', stopped', aborted', prompted'} \subseteq BOOLEAN
    BY DEF AcpTypeOK
  <2> QED BY <1>2, <2>1 DEF AcpTypeOK
<1>4. CancelInv' /\ PlaceInv' /\ StopInv'
  BY <1>1 DEF CancelInv, PlaceInv, StopInv, SendCancel, cancelVars
<1>5. TextInv'
  BY DEF TextInv
<1> QED BY <1>3, <1>4, <1>5

LEMMA AcpTickKeeps == IInv /\ AcpTick => IInv'
<1> SUFFICES ASSUME IInv, AcpTick PROVE IInv'
  OBVIOUS
<1> USE DEF IInv, AcpTick, agentVars, call
<1>1. elapsed' \in 0 .. MaxElapsed
  BY AcpAssumption DEF AcpTypeOK, MaxElapsed
<1>2. silence' \in 0 .. IdleTimeout
  BY AcpAssumption DEF AcpTypeOK, Urgent, IdleFires
<1>3. AcpTypeOK'
  <2>1. {err', stopped', aborted', prompted'} \subseteq BOOLEAN
    BY DEF AcpTypeOK
  <2> QED BY <1>1, <1>2, <2>1 DEF AcpTypeOK
<1>4. CancelInv' /\ PlaceInv' /\ StopInv'
  BY DEF CancelInv, PlaceInv, StopInv
<1>5. TextInv'
  BY DEF TextInv
<1> QED BY <1>3, <1>4, <1>5

LEMMA StepIInv == IInv /\ [AcpNext]_acpVars => IInv'
<1> SUFFICES ASSUME IInv, [AcpNext]_acpVars PROVE IInv'
  OBVIOUS
<1>1. CASE Connect
  BY <1>1, ConnectKeeps
<1>2. CASE ClientStep
  BY <1>2, TakeUpdateKeeps, PromptAnsweredKeeps, RejectingKeeps, FinallyKeeps DEF ClientStep
<1>3. CASE AgentStep
  BY <1>3, InitializedKeeps, SessionKeeps, RejectingKeeps, AgentSendsKeeps,
     ProcessExitsKeeps, WrittenKeeps DEF AgentStep
<1>4. CASE Abort \/ AcpTick
  BY <1>4, AbortKeeps, AcpTickKeeps
<1>5. CASE UNCHANGED acpVars
  BY <1>5 DEF acpVars, agentVars, clientVars, call, IInv, AcpTypeOK, CancelInv, PlaceInv,
     StopInv, TextInv
<1> QED BY <1>1, <1>2, <1>3, <1>4, <1>5 DEF AcpNext

-----------------------------------------------------------------------------
(***************************************************************************)
(* IInv is an invariant, and with it the types.                            *)
(***************************************************************************)
THEOREM Invariance == AcpSpec => []IInv
BY InitIInv, StepIInv, PTL DEF AcpSpec

(***************************************************************************)
(* Every variable has its type.                                            *)
(***************************************************************************)
THEOREM TypeCorrect == AcpSpec => []AcpTypeOK
<1>1. IInv => AcpTypeOK
  BY DEF IInv
<1> QED BY <1>1, Invariance, PTL

(***************************************************************************)
(* The agent is told at most once that its prompt is cancelled: at once if *)
(* the caller aborts, and before the call returns if the client cut the    *)
(* prompt off (sendSessionCancel, the catch of promptSession).             *)
(***************************************************************************)
THEOREM CancelledOnce == AcpSpec => []CutPromptCancelledOnce
<1>1. IInv => CutPromptCancelledOnce
  <2> SUFFICES ASSUME IInv PROVE CutPromptCancelledOnce
    OBVIOUS
  <2>1. cancels = (IF notify = "none" THEN 0 ELSE 1)
    BY DEF IInv, CancelInv
  <2> QED BY <2>1 DEF IInv, CancelInv, CutPromptCancelledOnce
<1> QED BY <1>1, Invariance, PTL

(***************************************************************************)
(* Whatever ended the call, when it returns the connection is closed and   *)
(* the process was signalled once (withConnection's finally, stop).        *)
(***************************************************************************)
THEOREM StoppedOnce == AcpSpec => []ReturnedMeansStopped
<1>1. IInv => ReturnedMeansStopped
  BY DEF IInv, StopInv, ReturnedMeansStopped
<1> QED BY <1>1, Invariance, PTL

(***************************************************************************)
(* A successful result is the whole text of the turn, within its limits.   *)
(***************************************************************************)
THEOREM CompleteResult == AcpSpec => []OkIsComplete
<1>1. IInv => OkIsComplete
  BY AcpAssumption DEF IInv, AcpTypeOK, TextInv, OkIsComplete
<1> QED BY <1>1, Invariance, PTL

\* Where a step of the set-up enters the prompt, the session is the wanted one.
LEMMA PromptsConfigured ==
  ASSUME NEW s, prompted' # prompted
  PROVE  /\ ConfigureModel(s) => ~aborted /\ (WantsModel => s.model)
         /\ Configure(s) => ~aborted /\ (WantsModel => s.model) /\ (NeedsSafeMode => s.safe)
<1>1. EnterPrompt => ~aborted
  BY DEF EnterPrompt
<1>2. ConfigureModel(s) => ~aborted /\ (WantsModel => s.model)
  BY <1>1 DEF ConfigureModel
<1> QED BY <1>2 DEF Configure

(***************************************************************************)
(* A prompt is sent only to a session in the provider's safe mode and with *)
(* the requested model, and never once the caller has aborted              *)
(* (configureSession, promptSession).                                      *)
(***************************************************************************)
THEOREM Configured == AcpSpec => PromptOnlyConfigured
<1>1. IInv /\ [AcpNext]_acpVars => [PromptIsConfigured]_acpVars
  <2> SUFFICES ASSUME IInv, [AcpNext]_acpVars, prompted' # prompted
               PROVE  PromptIsConfigured
    BY DEF PromptIsConfigured
  <2>1. SessionCreated \/ ModeSet \/ ModelSet
    BY DEF AcpNext, ClientStep, AgentStep, Connect, Initialized, RequestRefused,
       AbortSettled, TakeUpdate, PromptAnswered, TimerFires, ErrorWins, CancelDone, Close,
       AgentSends, ProcessExits, Written, Abort, AcpTick, acpVars, clientVars
  <2>2. CASE SessionCreated
    <3>1. PICK s \in Session : session' = s /\ Configure(s)
      BY <2>2 DEF SessionCreated
    <3> QED BY <3>1, PromptsConfigured DEF PromptIsConfigured
  <2>3. CASE ModeSet
    <3>1. /\ ~aborted /\ (WantsModel => session.model) /\ pc = "setMode"
          /\ session' = [session EXCEPT !.safe = TRUE]
      BY <2>3, PromptsConfigured DEF ModeSet
    <3>2. NeedsSafeMode /\ session \in Session
      BY <3>1 DEF IInv, PlaceInv, AcpTypeOK
    <3>3. session'.safe /\ session'.model = session.model
      BY <3>1, <3>2 DEF Session
    <3> QED BY <3>1, <3>3 DEF PromptIsConfigured
  <2>4. CASE ModelSet
    <3>1. ~aborted /\ pc = "setModel" /\ session' = [session EXCEPT !.model = TRUE]
      BY <2>4 DEF ModelSet, EnterPrompt
    <3>2. (NeedsSafeMode => session.safe) /\ session \in Session
      BY <3>1 DEF IInv, PlaceInv, AcpTypeOK
    <3>3. session'.model /\ session'.safe = session.safe
      BY <3>1, <3>2 DEF Session
    <3> QED BY <3>1, <3>2, <3>3 DEF PromptIsConfigured
  <2> QED BY <2>1, <2>2, <2>3, <2>4
<1> QED BY <1>1, Invariance, PTL DEF AcpSpec, PromptOnlyConfigured

-----------------------------------------------------------------------------
(* The calls of the provider.                                              *)

Preparing == {"idle", "resolving", "mkdtemp"}
Holding   == {"client", "terminating", "termWait", "killWait", "removing"}

\* Before the timer there is no process and no directory; after it there is a
\* directory until the call is done.
DirInv ==
  /\ wpc \in Preparing =>
       fireAt = -1 /\ process = "none" /\ pc = "idle" /\ cwd = "none" /\ ~deadlineFired
  /\ wpc \in Preparing => clock <= PrepDelay
  /\ wpc \in Preparing \cup {"client", "terminating"} => waited = 0
  /\ wpc \in {"resolving", "mkdtemp"} => Budget > 0
  /\ wpc \in Holding => fireAt # -1 /\ cwd = "made"
  /\ wpc = "client" => pc # "idle"
  /\ wpc = "done" => fireAt = -1 \/ cwd = "removed" \/ answer = "thrown"
  /\ wpc = "killWait" => killed
  /\ wpc = "removing" \/ cwd = "removed" => process # "running" \/ killed

\* How far the clock can be past the time of the deadline timer.
TimeInv ==
  fireAt # -1 /\ settles =>
    /\ wpc \in {"client", "terminating"} => clock <= fireAt
    /\ wpc = "termWait" => clock <= fireAt + waited
    /\ wpc = "killWait" => clock <= fireAt + Grace + waited
    /\ wpc \in {"removing", "done"} => clock <= fireAt + Grace + Grace
    /\ wpc = "client" /\ deadlineFired => aborted \/ pc = "returned"

CallInv == IInv /\ TypeOK /\ DirInv /\ TimeInv

-----------------------------------------------------------------------------
LEMMA GraceType == Grace \in Nat \ {0}
BY SecurityAssumption DEF Grace

LEMMA GraceTwice == Reserve >= 2 => Grace + Grace <= Reserve
BY SecurityAssumption DEF Grace

(***************************************************************************)
(* The call does to the client only what the client, its agent, its caller *)
(* and its clock do by themselves: the composition implements AcpClient.   *)
(***************************************************************************)
LEMMA StepIsClientStep == [Next]_vars => [AcpNext]_acpVars
<1> SUFFICES ASSUME [Next]_vars PROVE [AcpNext]_acpVars
  OBVIOUS
<1>1. CASE Complete
  BY <1>1 DEF Complete
<1>2. CASE CallStep
  <2>1. CASE Resolve \/ PrepareThrows \/ ClientReturned \/ Terminate \/ TermWaited
             \/ KillWaited \/ RemoveDir
    BY <2>1 DEF Resolve, PrepareThrows, ClientReturned, Terminate, TermWaited, KillWaited,
       RemoveDir
  <2>2. CASE MakeDir
    BY <2>2 DEF MakeDir, AcpNext
  <2>3. CASE DeadlineFires
    BY <2>3 DEF DeadlineFires, AbortClient, AcpNext
  <2> QED BY <1>2, <2>1, <2>2, <2>3 DEF CallStep
<1>3. CASE ClientRuns
  BY <1>3 DEF ClientRuns, AcpNext
<1>4. CASE CallerAborts
  BY <1>4 DEF CallerAborts, AbortClient, AcpNext
<1>5. CASE LateExit
  BY <1>5 DEF LateExit, AcpNext, AgentStep
<1>6. CASE Tick
  BY <1>6 DEF Tick, AcpNext
<1>7. CASE UNCHANGED vars
  BY <1>7 DEF vars
<1> QED BY <1>1, <1>2, <1>3, <1>4, <1>5, <1>6, <1>7 DEF Next

(***************************************************************************)
(* Every behaviour of the call is a behaviour of the client, so what holds *)
(* of the client holds inside the call.                                    *)
(***************************************************************************)
THEOREM ImplementsClient == Spec => AcpInit /\ [][AcpNext]_acpVars
<1>1. Init => AcpInit
  BY DEF Init
<1> QED BY <1>1, StepIsClientStep, PTL DEF Spec

-----------------------------------------------------------------------------
LEMMA InitCallInv == Init => CallInv
<1> SUFFICES ASSUME Init PROVE CallInv
  OBVIOUS
<1> USE DEF Init
<1>1. IInv
  BY InitIInv
<1>2. TypeOK
  <2>1. {callerAborted, deadlineFired, killed} \subseteq BOOLEAN
    OBVIOUS
  <2>2. waited \in 0 .. Grace /\ clock \in 0 .. MaxClock
    BY GraceType, SecurityAssumption
  <2> QED BY <1>1, <2>1, <2>2 DEF IInv, TypeOK, Answers
<1>3. DirInv
  BY SecurityAssumption DEF DirInv, Preparing, Holding, AcpInit
<1>4. TimeInv
  BY DEF TimeInv
<1> QED BY <1>1, <1>2, <1>3, <1>4 DEF CallInv

LEMMA TimeTypes ==
  ASSUME TypeOK
  PROVE  clock \in Nat /\ fireAt \in Int /\ waited \in Nat /\ waited <= Grace
BY GraceType, SecurityAssumption DEF TypeOK, Budget

\* Steps that neither run the client nor pass time.
LEMMA QuietKeeps ==
  ASSUME CallInv, AcpTypeOK',
         Complete \/ Resolve \/ PrepareThrows \/ ClientReturned \/ Terminate
         \/ TermWaited \/ KillWaited \/ RemoveDir
  PROVE  TypeOK' /\ DirInv' /\ TimeInv'
<1> USE DEF CallInv
<1>1. /\ UNCHANGED <<pc, process, settles, aborted, clock, fireAt, callerAborted, deadlineFired>>
      /\ answer' \in Answers
      /\ \/ /\ wpc \in {"idle", "resolving"} /\ wpc' = "done" /\ cwd' = cwd
         \/ wpc = "idle" /\ Budget > 0 /\ wpc' = "resolving" /\ cwd' = cwd
         \/ wpc = "resolving" /\ wpc' = "mkdtemp" /\ cwd' = cwd
         \/ /\ wpc \in {"resolving", "mkdtemp"} /\ wpc' = "done"
            /\ cwd' \in {"none", "made"}
         \/ wpc = "client" /\ pc = "returned" /\ wpc' = "terminating" /\ cwd' = cwd
         \/ wpc = "terminating" /\ wpc' = "termWait" /\ cwd' = cwd
         \/ /\ wpc \in {"terminating", "termWait"} /\ process # "running"
            /\ wpc' = "removing" /\ cwd' = cwd
         \/ wpc = "termWait" /\ wpc' = "killWait" /\ cwd' = cwd
         \/ wpc = "killWait" /\ wpc' = "removing" /\ cwd' = cwd
         \/ /\ wpc = "removing" /\ wpc' = "done"
            /\ cwd' = "removed" \/ (answer' = "thrown" /\ cwd' = cwd)
      /\ \/ UNCHANGED <<waited, killed>>
         \/ wpc = "termWait" /\ wpc' = "killWait" /\ killed' = TRUE /\ waited' = 0
      /\ wpc' = "killWait" => killed' /\ waited' = 0
  <2>1. CASE Complete \/ Resolve \/ PrepareThrows
    BY <2>1, SecurityAssumption DEF Complete, Resolve, PrepareThrows, TypeOK, Answers, Reasons,
       Budget, acpVars, agentVars, clientVars, call
  <2>2. CASE ClientReturned \/ Terminate
    BY <2>2 DEF ClientReturned, Terminate, TypeOK, AcpTypeOK, Answers, acpVars, agentVars,
       clientVars, call
  <2>3. CASE TermWaited \/ KillWaited \/ RemoveDir
    BY <2>3 DEF TermWaited, KillWaited, RemoveDir, TypeOK, Answers, acpVars, agentVars,
       clientVars, call
  <2> QED BY <2>1, <2>2, <2>3
<1>2. TypeOK'
  <2>1. {callerAborted', deadlineFired', killed'} \subseteq BOOLEAN
    BY <1>1 DEF TypeOK
  <2>2. waited' \in 0 .. Grace
    BY <1>1, GraceType DEF TypeOK
  <2> QED BY <1>1, <2>1, <2>2 DEF TypeOK
<1>3. DirInv'
  BY <1>1 DEF DirInv, Preparing, Holding
<1>4. TimeInv'
  BY <1>1, GraceType, TimeTypes DEF TimeInv, DirInv, Preparing
<1> QED BY <1>2, <1>3, <1>4

LEMMA MakeDirKeeps ==
  ASSUME CallInv, AcpTypeOK', MakeDir
  PROVE  TypeOK' /\ DirInv' /\ TimeInv'
<1> USE DEF CallInv, MakeDir
<1>1. Connect => pc' # "idle" /\ settles' = settles
  BY DEF Connect, Leave, Await, call
<1>2. fireAt' = clock + Budget /\ Budget \in Nat \ {0} /\ clock \in 0 .. PrepDelay
  BY SecurityAssumption DEF DirInv, Preparing, TypeOK, Budget
<1>3. fireAt' \in Budget .. Budget + PrepDelay /\ fireAt' # -1
  BY <1>2, SecurityAssumption
<1>4. TypeOK'
  <2>1. {callerAborted', deadlineFired', killed'} \subseteq BOOLEAN
    BY DEF TypeOK
  <2> QED BY <1>3, <2>1 DEF TypeOK, Answers, Reasons
<1>5. DirInv'
  BY <1>1, <1>3 DEF DirInv, Preparing, Holding, acpVars, agentVars
<1>6. TimeInv'
  BY <1>2 DEF TimeInv, DirInv, Preparing
<1> QED BY <1>4, <1>5, <1>6

\* Steps of the client and its agent, and the death of the process.
LEMMA ClientKeeps ==
  ASSUME CallInv, AcpTypeOK', ClientRuns \/ LateExit
  PROVE  TypeOK' /\ DirInv' /\ TimeInv'
<1> USE DEF CallInv
<1>1. UNCHANGED callVars /\ (process' = process \/ process' # "running") /\ settles' = settles
  BY DEF ClientRuns, LateExit, ClientStep, AgentStep, TakeUpdate, PromptAnswered, TimerFires,
     ErrorWins, AbortSettled, CancelDone, Close, Initialized, SessionCreated, ModeSet, ModelSet,
     RequestRefused, AgentSends, ProcessExits, Written, agentVars, call
<1>2. ASSUME wpc = "client"
      PROVE  pc' # "idle" /\ aborted' = aborted /\ (pc = "returned" => pc' = "returned")
  <2>1. pc # "idle" /\ (ClientStep \/ AgentStep)
    BY <1>2 DEF DirInv, ClientRuns, LateExit
  <2>2. aborted' = aborted
    BY <2>1 DEF ClientStep, AgentStep, TakeUpdate, PromptAnswered, TimerFires, ErrorWins,
       AbortSettled, CancelDone, Close, Initialized, SessionCreated, ModeSet, ModelSet,
       RequestRefused, AgentSends, ProcessExits, Written, clientVars
  <2>3. CASE PromptAnswered \/ CancelDone \/ Close \/ Initialized
    BY <2>2, <2>3 DEF PromptAnswered, CancelDone, Close, Initialized, Leave, Await
  <2>4. CASE TakeUpdate
    BY <2>1, <2>2, <2>4 DEF TakeUpdate, Catch, Await
  <2>5. CASE TimerFires \/ ErrorWins \/ AbortSettled \/ RequestRefused
    <3>1. pc \in Racing /\ \E r : Reject(r)
      BY <2>5 DEF TimerFires, ErrorWins, AbortSettled, RequestRefused, SetupFires, IdleFires,
         HardFires, Racing
    <3> QED BY <2>2, <3>1 DEF Reject, Leave, Catch, Await, Racing, SetupStages
  <2>6. CASE SessionCreated \/ ModeSet \/ ModelSet
    <3>1. /\ pc \in {"newSession", "setMode", "setModel"}
          /\ Leave("ok") \/ EnterPrompt \/ (\E s \in Session : Configure(s))
             \/ ConfigureModel(session)
      BY <2>6 DEF SessionCreated, ModeSet, ModelSet
    <3>2. pc' # "idle"
      BY <3>1, EnterPromptEnds, ConfigureEnds, ConfigureModelEnds
         DEF Leave, Await, Prompts, GivesUp, Sets, Lacks
    <3> QED BY <2>2, <3>1, <3>2
  <2>7. CASE AgentSends \/ ProcessExits \/ Written
    BY <2>1, <2>2, <2>7 DEF AgentSends, ProcessExits, Written, clientVars
  <2> QED BY <2>1, <2>3, <2>4, <2>5, <2>6, <2>7 DEF ClientStep, AgentStep
<1>3. wpc # "client" => UNCHANGED <<pc, aborted>>
  BY DEF ClientRuns, LateExit, ProcessExits
<1>4. TypeOK'
  BY <1>1 DEF TypeOK, callVars
<1>5. DirInv'
  <2>1. wpc \notin Preparing
    BY DEF ClientRuns, LateExit, ProcessExits, DirInv, Preparing
  <2> QED BY <1>1, <1>2, <1>3, <2>1 DEF DirInv, Preparing, Holding, callVars
<1>6. TimeInv'
  BY <1>1, <1>2 DEF TimeInv, callVars
<1> QED BY <1>4, <1>5, <1>6

LEMMA AbortsKeep ==
  ASSUME CallInv, AcpTypeOK', CallerAborts \/ DeadlineFires
  PROVE  TypeOK' /\ DirInv' /\ TimeInv'
<1> USE DEF CallInv, CallerAborts, DeadlineFires, DeadlineDue
<1>1. AbortClient => /\ UNCHANGED <<pc, process, settles>>
                     /\ aborted' \/ pc' = "returned"
                     /\ aborted => aborted'
  BY DEF AbortClient, Abort, agentVars, call, acpVars, clientVars
<1>2. UNCHANGED <<pc, process, settles>> /\ (aborted => aborted')
  BY <1>1 DEF acpVars, agentVars, call, clientVars
<1>3. TypeOK'
  BY DEF TypeOK
<1>4. DirInv'
  BY <1>2 DEF DirInv, Preparing, Holding
<1>5. TimeInv'
  BY <1>1, <1>2 DEF TimeInv
<1> QED BY <1>3, <1>4, <1>5

LEMMA TickKeeps ==
  ASSUME CallInv, AcpTypeOK', Tick
  PROVE  TypeOK' /\ DirInv' /\ TimeInv'
<1> USE DEF CallInv, Tick
<1>1. clock' \in 0 .. MaxClock
  BY SecurityAssumption DEF TypeOK
<1>2. waited' \in 0 .. Grace
  BY GraceType DEF TypeOK
<1>3. UNCHANGED <<pc, process, settles, aborted>>
  BY DEF AcpTick, acpVars, agentVars, call, clientVars
<1>4. TypeOK'
  BY <1>1, <1>2 DEF TypeOK
<1>5. DirInv'
  BY <1>3, SecurityAssumption DEF DirInv, Preparing, Holding, TypeOK
<1>6. TimeInv'
  <2>1. CASE wpc \in {"resolving", "mkdtemp"}
    BY <2>1 DEF TimeInv, DirInv, Preparing
  <2>2. CASE wpc = "client"
    <3>1. pc \in Racing /\ ~(settles /\ aborted)
      BY <2>2 DEF AcpTick, Urgent
    <3>2. fireAt # -1 /\ settles => ~deadlineFired /\ clock < fireAt
      BY <2>2, <3>1 DEF TimeInv, DeadlineDue, Racing, SetupStages, TypeOK
    <3> QED BY <2>2, <3>2, <1>3 DEF TimeInv, TypeOK
  <2>3. CASE wpc \in {"termWait", "killWait"}
    BY <2>3, <1>3, GraceType, SecurityAssumption DEF TimeInv, TypeOK
  <2> QED BY <2>1, <2>2, <2>3
<1> QED BY <1>4, <1>5, <1>6

LEMMA StepCallInv == CallInv /\ [Next]_vars => CallInv'
<1> SUFFICES ASSUME CallInv, [Next]_vars PROVE CallInv'
  OBVIOUS
<1>1. IInv'
  BY StepIsClientStep, StepIInv DEF CallInv
<1>2. AcpTypeOK'
  BY <1>1 DEF IInv
<1>3. TypeOK' /\ DirInv' /\ TimeInv'
  <2>1. CASE UNCHANGED vars
    BY <2>1 DEF CallInv, TypeOK, DirInv, TimeInv, vars, callVars, acpVars, agentVars,
       clientVars, call, AcpTypeOK
  <2> QED BY <1>2, <2>1, QuietKeeps, MakeDirKeeps, ClientKeeps, AbortsKeep, TickKeeps
       DEF Next, CallStep
<1> QED BY <1>1, <1>3 DEF CallInv

THEOREM CallInvariance == Spec => []CallInv
BY InitCallInv, StepCallInv, PTL DEF Spec

-----------------------------------------------------------------------------
(***************************************************************************)
(* The directory of a call goes only when its process has exited or was    *)
(* sent SIGKILL, and a call whose timer was set leaves none behind unless  *)
(* it rejects (terminate and the finally of complete).                     *)
(***************************************************************************)
THEOREM DirectoryRemovedLast == Spec => []DirectoryOutlivesProcess
<1>1. CallInv => DirectoryOutlivesProcess
  BY DEF CallInv, DirInv, DirectoryOutlivesProcess
<1> QED BY <1>1, CallInvariance, PTL

(***************************************************************************)
(* With a reserve of at least two ticks, one for SIGTERM and one for       *)
(* SIGKILL, a call ends within the reserve after its timer was due, for    *)
(* any agent, when aborted requests settle by themselves.                  *)
(***************************************************************************)
THEOREM WithinReserve == ASSUME Reserve >= 2 PROVE Spec => []FinishesInReserve
<1>1. CallInv => FinishesInReserve
  <2> SUFFICES ASSUME CallInv, wpc = "done", settles, fireAt # -1
               PROVE  clock <= fireAt + Reserve
    BY DEF FinishesInReserve
  <2>1. clock <= fireAt + Grace + Grace
    BY DEF CallInv, TimeInv
  <2> QED BY <2>1, GraceTwice, GraceType, TimeTypes, SecurityAssumption DEF CallInv
<1> QED BY <1>1, CallInvariance, PTL

(***************************************************************************)
(* A call whose caller has aborted does not start the provider, however    *)
(* late in the preparation the abort comes (REG-2026-029).                 *)
(***************************************************************************)
THEOREM NeverSpawnsCancelled == Spec => CancelledNeverSpawns
<1> DEFINE Spawn == process = "none" /\ process' = "running" => ~callerAborted
<1>1. CallInv /\ [Next]_vars => [Spawn]_vars
  <2> SUFFICES ASSUME [Next]_vars, process = "none", process' = "running"
               PROVE  ~callerAborted
    OBVIOUS
  <2>1. MakeDir
    <3>1. ~(ClientRuns \/ LateExit)
      BY DEF ClientRuns, LateExit, ClientStep, AgentStep, TakeUpdate, PromptAnswered, TimerFires,
         ErrorWins, AbortSettled, CancelDone, Close, Initialized, SessionCreated, ModeSet,
         ModelSet, RequestRefused, AgentSends, ProcessExits, Written, agentVars
    <3>2. ~(CallerAborts \/ DeadlineFires \/ Tick)
      BY DEF CallerAborts, DeadlineFires, AbortClient, Abort, Tick, AcpTick, acpVars, agentVars
    <3>3. ~(Complete \/ Resolve \/ PrepareThrows \/ ClientReturned \/ Terminate \/ TermWaited
            \/ KillWaited \/ RemoveDir \/ UNCHANGED vars)
      BY DEF Complete, Resolve, PrepareThrows, ClientReturned, Terminate, TermWaited, KillWaited,
         RemoveDir, vars, acpVars, agentVars
    <3> QED BY <3>1, <3>2, <3>3 DEF Next, CallStep
  <2> QED BY <2>1 DEF MakeDir, acpVars, agentVars
<1> QED BY <1>1, CallInvariance, PTL DEF Spec, CancelledNeverSpawns
=============================================================================
