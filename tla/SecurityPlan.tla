----------------------------- MODULE SecurityPlan -----------------------------
(***************************************************************************)
(* What the security add-on sends.  buildSecurityPlan goes through the     *)
(* units of code in the order of their priority and places each, with the  *)
(* code related to it, into the first of a few requests that has room:     *)
(* five limits apply at once, and a unit that does not fit with its        *)
(* context is tried without.  validateSecurityResponse then decides for    *)
(* each request which of its units were evaluated.  The texts are their    *)
(* sizes; the filter's verdict on a unit is an input.                      *)
(***************************************************************************)
EXTENDS Integers, Sequences, FiniteSets, FiniteSetsExt

CONSTANTS
  Unit, Path,
  Job,             \* the analysed sources and changes of a run
  Policy,          \* the limits of a run
  HeadBytes(_),    \* of request i: its bytes without units and snippets
  ContextBytes,    \* bytes of a snippet id in the line of a unit
  LimitationBytes, \* bytes of a limitation in the line of a unit
  UnitsPerBatch,   \* SECURITY_UNITS_PER_BATCH
  NoAnswer, Failed

Verdict    == {"sent", "masked", "dropped"}
Limitation == {"secret-masked", "related-context-not-sent",
               "related-context-filtered", "related-context-omitted"}
Reason     == {"filtered", "budget-exhausted", "prompt-too-large", "source-too-large"}

\* primary: the units to examine, by falling priority; related: for each unit,
\* at most eight others; line, block: bytes of its line and of its snippet;
\* allowed: what the send scope lets out.
JobType == [primary: Seq(Unit), path: [Unit -> Path], related: [Unit -> SUBSET Unit],
            line: [Unit -> Nat], block: [Unit -> Nat], verdict: [Unit -> Verdict],
            allowed: SUBSET Unit, oversized: Nat, needsBase: BOOLEAN,
            changes: {"none", "complete", "partial", "unavailable"}]
PolicyType == [maxBatches: Nat, maxPromptBytes: Nat, maxTotalPromptBytes: Nat, maxFiles: Nat]

ASSUME PlanAssumption ==
  /\ Job \subseteq JobType /\ Policy \subseteq PolicyType
  /\ \A j \in Job : /\ \A m, n \in DOMAIN j.primary : j.primary[m] = j.primary[n] => m = n
                    /\ \A u \in Unit : u \notin j.related[u]
  /\ \A pol \in Policy : \A i \in 1 .. pol.maxBatches + 1 : HeadBytes(i) \in Nat
  /\ ContextBytes \in Nat /\ LimitationBytes \in Nat
  /\ UnitsPerBatch \in Nat \ {0}
  /\ IsFiniteSet(Unit) /\ IsFiniteSet(Path)

VARIABLES
  job, policy,  \* the inputs
  pc,
  next,         \* place in job.primary
  batches,      \* the requests planned
  sentPaths,
  incomplete,   \* incompleteByReason
  reasons,
  answers       \* what came of each request

inputs == <<job, policy>>
vars   == <<inputs, pc, next, batches, sentPaths, incomplete, reasons, answers>>

Placed == [unit: Unit, limitations: SUBSET Limitation]
Batch  == [units: SUBSET Placed, snippets: SUBSET Unit]
Result == [evaluated: SUBSET Unit, incomplete: SUBSET Unit]
Start  == [units |-> {}, snippets |-> {}]

TypeOK ==
  /\ job \in Job /\ policy \in Policy
  /\ pc \in {"begin", "units", "planned"} /\ next \in 1 .. Len(job.primary) + 1
  /\ batches \in Seq(Batch)
  /\ \A i \in DOMAIN batches : Cardinality(batches[i].units) \in 1 .. UnitsPerBatch
  /\ sentPaths \subseteq Path
  /\ incomplete \in [Reason -> Nat]
  /\ reasons \subseteq {"base-required", "change-context", "budget-insufficient"}
  /\ answers \in [DOMAIN batches -> Result \cup {NoAnswer, Failed}]

-----------------------------------------------------------------------------
(* Sizes of texts.                                                         *)

\* securityUnitLine, in a prompt with these snippets.
UnitLine(j, p, sent) ==
  j.line[p.unit] + ContextBytes * Cardinality(j.related[p.unit] \cap sent)
                 + LimitationBytes * Cardinality(p.limitations)

Blocks(j, S) == SumFunctionOnSet(j.block, S)

Lines(j, b) == SumFunction([p \in b.units |-> UnitLine(j, p, b.snippets)])

\* buildSecurityPrompt.
PromptBytes(j, i, b) == HeadBytes(i) + Lines(j, b) + Blocks(j, b.snippets)

\* Mutant: a snippet that the request already has is counted again.
EstimateAgain(i, b, p, S) ==
  PromptBytes(job, i, b) + UnitLine(job, p, S) + Blocks(job, S)

\* The lines of the units that are there are taken as they are.
Estimate(i, b, p, S) ==
  PromptBytes(job, i, b) + UnitLine(job, p, S) + Blocks(job, S \ b.snippets)

-----------------------------------------------------------------------------
(* tryPlace: unit p with the snippets S.                                   *)

BatchAt(i)    == IF i \in DOMAIN batches THEN batches[i] ELSE Start
With(b, p, S) == [units |-> b.units \cup {p}, snippets |-> b.snippets \cup S]

\* Mutant: a request is offered a unit although it has enough.
AnyCandidates ==
  DOMAIN batches
  \cup (IF Len(batches) < policy.maxBatches THEN {Len(batches) + 1} ELSE {})

Candidates ==
  {i \in DOMAIN batches : Cardinality(batches[i].units) < UnitsPerBatch}
  \cup (IF Len(batches) < policy.maxBatches THEN {Len(batches) + 1} ELSE {})

AllBytes == [i \in DOMAIN batches |-> PromptBytes(job, i, batches[i])]

\* Mutant: only the requests before the one considered are counted.
EarlierBytes(i) == SumFunctionOnSet(AllBytes, {j \in DOMAIN batches : j < i})

OtherBytes(i) == SumFunctionOnSet(AllBytes, DOMAIN batches \ {i})

Room(i, bytes) ==
  bytes <= policy.maxPromptBytes /\ OtherBytes(i) + bytes <= policy.maxTotalPromptBytes

\* Mutant: the paths of the context do not count.
OwnPath(p, S) == sentPaths \cup {job.path[p.unit]}

Paths(p, S) == sentPaths \cup {job.path[s] : s \in S}

Fitting(p, S) ==
  IF Cardinality(Paths(p, S)) > policy.maxFiles THEN {}
  ELSE {i \in Candidates : /\ Room(i, Estimate(i, BatchAt(i), p, S))
                           /\ Room(i, PromptBytes(job, i, With(BatchAt(i), p, S)))}

\* Into the first request with room.
Place(p, S) == \E first \in Fitting(p, S) :
  /\ \A i \in Fitting(p, S) : first <= i
  /\ batches' = [i \in DOMAIN batches \cup {first} |->
                   IF i = first THEN With(BatchAt(i), p, S) ELSE batches[i]]
  /\ answers' = [i \in DOMAIN batches \cup {first} |-> NoAnswer]
  /\ sentPaths' = Paths(p, S)
  /\ next' = next + 1
  /\ UNCHANGED <<inputs, pc, incomplete, reasons>>

-----------------------------------------------------------------------------
(* The loop over the units.                                                *)

unit == job.primary[next]

Sendable(u) == job.verdict[u] # "dropped"
Context(u)  == {r \in job.related[u] \cap job.allowed : Sendable(r)}

\* What is wrong with unit u before it is tried.
Limits(u) ==
  (IF job.verdict[u] = "masked" THEN {"secret-masked"} ELSE {})
  \cup (IF job.related[u] \subseteq job.allowed THEN {} ELSE {"related-context-not-sent"})
  \cup (IF \A r \in job.related[u] \cap job.allowed : Sendable(r)
        THEN {} ELSE {"related-context-filtered"})

Whole(u) == [unit |-> u, limitations |-> Limits(u)]

\* Mutant: the unit does not say that its context was left out.
AloneSilently(u) == [unit |-> u, limitations |-> Limits(u)]

Alone(u) == [unit |-> u, limitations |-> Limits(u) \cup {"related-context-omitted"}]

IsFull ==
  /\ Len(batches) >= policy.maxBatches
  /\ \A i \in DOMAIN batches : Cardinality(batches[i].units) >= UnitsPerBatch

FitsAlone(u) ==
  HeadBytes(1) + job.line[u] + job.block[u] <= policy.maxPromptBytes

Count(reason) ==
  /\ incomplete' = [incomplete EXCEPT ![reason] = @ + 1]
  /\ next' = next + 1
  /\ UNCHANGED <<inputs, pc, batches, sentPaths, reasons, answers>>

Looking == pc = "units" /\ next <= Len(job.primary)

\* Mutant: the units that are left over are not counted.
SkipRest ==
  /\ Looking /\ IsFull
  /\ next' = next + 1
  /\ UNCHANGED <<inputs, pc, batches, sentPaths, incomplete, reasons, answers>>

SkipFull == Looking /\ IsFull /\ Count("budget-exhausted")

SkipFiltered == Looking /\ ~IsFull /\ ~Sendable(unit) /\ Count("filtered")

PlaceWhole ==
  /\ Looking /\ ~IsFull /\ Sendable(unit)
  /\ Place(Whole(unit), {unit} \cup Context(unit))

PlaceAlone ==
  /\ Looking /\ ~IsFull /\ Sendable(unit)
  /\ Fitting(Whole(unit), {unit} \cup Context(unit)) = {}
  /\ Context(unit) # {}
  /\ Place(Alone(unit), {unit})

Reject ==
  /\ Looking /\ ~IsFull /\ Sendable(unit)
  /\ Fitting(Whole(unit), {unit} \cup Context(unit)) = {}
  /\ Context(unit) = {} \/ Fitting(Alone(unit), {unit}) = {}
  /\ Count(IF FitsAlone(unit) THEN "budget-exhausted" ELSE "prompt-too-large")

-----------------------------------------------------------------------------
Init ==
  /\ job \in Job /\ policy \in Policy
  /\ pc = "begin" /\ next = 1
  /\ batches = <<>> /\ answers = <<>> /\ sentPaths = {} /\ reasons = {}
  /\ incomplete = [r \in Reason |-> 0]

\* A scope of changes needs changes.
Begin ==
  /\ pc = "begin"
  /\ IF job.changes = "none" /\ job.needsBase
     THEN pc' = "planned" /\ reasons' = {"base-required"}
     ELSE /\ pc' = "units"
          /\ reasons' = IF job.changes \in {"none", "complete"} THEN {} ELSE {"change-context"}
  /\ UNCHANGED <<inputs, next, batches, sentPaths, incomplete, answers>>

Finish ==
  /\ pc = "units" /\ next > Len(job.primary)
  /\ pc' = "planned"
  /\ incomplete' = [incomplete EXCEPT !["source-too-large"] = @ + job.oversized]
  /\ reasons' = reasons \cup
       IF batches = <<>> /\ incomplete["prompt-too-large"] + incomplete["budget-exhausted"] > 0
       THEN {"budget-insufficient"} ELSE {}
  /\ UNCHANGED <<inputs, next, batches, sentPaths, answers>>

\* validateSecurityResponse.  said: the units listed as evaluated, the others being
\* left out or listed as in want of context; invalid: the units with a finding that
\* does not refer to sent code, that the schema refuses, or that contradicts their
\* status; stray: is there a finding about no unit of the request?
\* The answer to another request, or one that lists a unit that was not sent or
\* lists one twice, throws.
Answer(i) ==
  /\ pc = "planned" /\ answers[i] = NoAnswer
  /\ LET sent == {p.unit : p \in batches[i].units} IN
     \E said, invalid \in SUBSET sent, stray \in BOOLEAN, matches \in BOOLEAN :
       answers' = [answers EXCEPT ![i] =
         IF ~matches THEN Failed
         ELSE LET evaluated == IF stray THEN {} ELSE said \ invalid
              IN [evaluated |-> evaluated, incomplete |-> sent \ evaluated]]
  /\ UNCHANGED <<inputs, pc, next, batches, sentPaths, incomplete, reasons>>

PlanStep ==
  \/ Begin \/ SkipFull \/ SkipFiltered \/ PlaceWhole \/ PlaceAlone \/ Reject \/ Finish

Next == PlanStep \/ \E i \in DOMAIN batches : Answer(i)

Spec == Init /\ [][Next]_vars

-----------------------------------------------------------------------------
Selected == UNION {{p.unit : p \in batches[i].units} : i \in DOMAIN batches}

(***************************************************************************)
(* docs/spec/security-addon.md, the limits of a plan: the number of        *)
(* requests, the bytes of each, and the number of different files in all.  *)
(* A file is sent if a snippet of it is in some request.                   *)
(***************************************************************************)
RequestsWithinPolicy ==
  /\ Len(batches) <= policy.maxBatches
  /\ \A i \in DOMAIN batches : PromptBytes(job, i, batches[i]) <= policy.maxPromptBytes
  /\ LET files == {job.path[s] : s \in UNION {batches[i].snippets : i \in DOMAIN batches}}
     IN Cardinality(files) <= policy.maxFiles

(***************************************************************************)
(* The bytes of all requests together, snippets sent again included, stay  *)
(* within maxTotalPromptBytes although every unit that joins a request     *)
(* makes the lines of others longer.                                       *)
(***************************************************************************)
TotalWithinPolicy == batches # <<>> => SumFunction(AllBytes) <= policy.maxTotalPromptBytes

(***************************************************************************)
(* plan.ts: "Lower bound: existing unit lines can only grow when shared    *)
(* context arrives, so rejecting here is safe."  A request refused by the  *)
(* estimate would not have had room for the unit.                          *)
(***************************************************************************)
EarlyRejectIsSafe ==
  Looking => \A i \in Candidates :
    \A try \in {<<Whole(unit), {unit} \cup Context(unit)>>, <<Alone(unit), {unit}>>} :
      Room(i, PromptBytes(job, i, With(BatchAt(i), try[1], try[2]))) =>
        Room(i, Estimate(i, BatchAt(i), try[1], try[2]))

(***************************************************************************)
(* The coverage adds up: every unit that was looked at is in one request   *)
(* or counted once as incomplete, and the answer to a request says of each *)
(* of its units whether it was evaluated.                                  *)
(***************************************************************************)
CoverageAddsUp ==
  /\ Cardinality(Selected) + incomplete["filtered"] + incomplete["budget-exhausted"]
       + incomplete["prompt-too-large"] = next - 1
  /\ \A i, j \in DOMAIN batches : \A p \in batches[i].units, q \in batches[j].units :
       p.unit = q.unit => i = j /\ p = q
  /\ \A i \in DOMAIN batches : answers[i] \notin {NoAnswer, Failed} =>
       /\ answers[i].evaluated \cap answers[i].incomplete = {}
       /\ answers[i].evaluated \cup answers[i].incomplete = {p.unit : p \in batches[i].units}

(***************************************************************************)
(* A unit is sent with its own code and all code related to it, or says    *)
(* which of it is missing and why: confidence is capped by that.           *)
(***************************************************************************)
ContextSentOrDeclared ==
  \A i \in DOMAIN batches : \A p \in batches[i].units :
    /\ p.unit \in batches[i].snippets
    /\ \A r \in job.related[p.unit] \ batches[i].snippets :
         \/ "related-context-omitted" \in p.limitations
         \/ "related-context-not-sent" \in p.limitations /\ r \notin job.allowed
         \/ "related-context-filtered" \in p.limitations /\ ~Sendable(r)
=============================================================================
