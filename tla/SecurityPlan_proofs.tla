-------------------------- MODULE SecurityPlan_proofs --------------------------
(***************************************************************************)
(* Proofs about SecurityPlan for every source, every limit and every size  *)
(* of a text.  For the limits of one request it is enough that a request   *)
(* is measured, as a whole, before it is changed; the lower bound and the  *)
(* bytes of all requests need the laws of sums (SumLemmas).                *)
(***************************************************************************)
EXTENDS SecurityPlan, SumLemmas

Units(i) == {p.unit : p \in batches[i].units}

\* The units in requests are behind the place in job.primary.
Behind == \A i \in DOMAIN batches : \A p \in batches[i].units :
            \E m \in 1 .. next - 1 : p.unit = job.primary[m]

UnitsFinite == \A i \in DOMAIN batches : IsFiniteSet(batches[i].units)

FilesCounted ==
  /\ \A i \in DOMAIN batches : \A s \in batches[i].snippets : job.path[s] \in sentPaths
  /\ Cardinality(sentPaths) <= policy.maxFiles

BytesMeasured ==
  \A i \in DOMAIN batches : PromptBytes(job, i, batches[i]) <= policy.maxPromptBytes

Once == \A i, j \in DOMAIN batches : \A p \in batches[i].units, q \in batches[j].units :
          p.unit = q.unit => i = j /\ p = q

Answered == \A i \in DOMAIN batches : answers[i] \notin {NoAnswer, Failed} =>
  /\ answers[i].evaluated \cap answers[i].incomplete = {}
  /\ answers[i].evaluated \cup answers[i].incomplete = Units(i)

Counted == Cardinality(Selected) + incomplete["filtered"] + incomplete["budget-exhausted"]
             + incomplete["prompt-too-large"] = next - 1

IInv ==
  /\ TypeOK /\ Behind /\ UnitsFinite /\ Once
  /\ Len(batches) <= policy.maxBatches /\ FilesCounted /\ BytesMeasured
  /\ Answered /\ Counted

-----------------------------------------------------------------------------
\* The inputs have the types the assumption states.
LEMMA Inputs ==
  ASSUME job \in Job, policy \in Policy
  PROVE  /\ job \in JobType /\ policy \in PolicyType
         /\ \A m, n \in DOMAIN job.primary : job.primary[m] = job.primary[n] => m = n
BY PlanAssumption

\* The parts of a request.
LEMMA BatchParts ==
  ASSUME batches \in Seq(Batch), NEW i \in DOMAIN batches
  PROVE  /\ batches[i] \in Batch
         /\ batches[i].units \in SUBSET Placed /\ batches[i].snippets \in SUBSET Unit
         /\ Units(i) \in SUBSET Unit
<1>1. batches[i] \in Batch  OBVIOUS
<1>2. batches[i].units \in SUBSET Placed /\ batches[i].snippets \in SUBSET Unit
  BY <1>1 DEF Batch
<1>3. \A p \in Placed : p.unit \in Unit  BY DEF Placed
<1>4. QED  BY <1>1, <1>2, <1>3 DEF Units

\* A set of units is finite.
LEMMA SelectedFinite ==
  ASSUME TypeOK
  PROVE  Selected \in SUBSET Unit /\ IsFiniteSet(Selected)
<1>1. Selected \in SUBSET Unit
  BY BatchParts DEF TypeOK, Selected, Units
<1>2. QED  BY <1>1, PlanAssumption, FS_Subset

LEMMA Start0 == Init => IInv
<1> SUFFICES ASSUME Init PROVE IInv  OBVIOUS
<1>1. /\ job \in JobType /\ policy \in PolicyType  BY Inputs DEF Init
<1>2. batches = <<>> /\ DOMAIN batches = {} /\ Len(batches) = 0 /\ batches \in Seq(Batch)
  BY DEF Init
<1>3. TypeOK
  BY <1>1, <1>2 DEF Init, TypeOK, Reason, JobType
<1>4. Selected = {}  BY <1>2 DEF Selected
<1>5. Counted
  BY <1>4, FS_EmptySet DEF Init, Counted, Reason
<1>6. FilesCounted
  BY <1>1, <1>2, FS_EmptySet DEF Init, FilesCounted, PolicyType
<1>7. QED
  BY <1>1, <1>2, <1>3, <1>5, <1>6
     DEF IInv, Behind, UnitsFinite, Once, BytesMeasured, Answered, PolicyType
-----------------------------------------------------------------------------
(***************************************************************************)
(* tryPlace puts a unit that is nowhere yet, with its snippets, into one   *)
(* request, the last of which may be new; nothing else changes.            *)
(***************************************************************************)
LEMMA PlaceShape ==
  ASSUME TypeOK, NEW p \in Placed, NEW S \in SUBSET Unit, NEW f \in Fitting(p, S),
         batches' = [i \in DOMAIN batches \cup {f} |->
                       IF i = f THEN With(BatchAt(i), p, S) ELSE batches[i]]
  PROVE  /\ f \in 1 .. Len(batches) + 1 /\ Len(batches) \in Nat
         /\ DOMAIN batches = 1 .. Len(batches)
         /\ f \in DOMAIN batches \/ f = Len(batches) + 1
         /\ f \in DOMAIN batches =>
              Len(batches') = Len(batches) /\ Cardinality(batches[f].units) < UnitsPerBatch
         /\ f = Len(batches) + 1 =>
              Len(batches') = Len(batches) + 1 /\ Len(batches) < policy.maxBatches
         /\ DOMAIN batches' = DOMAIN batches \cup {f}
         /\ \A i \in DOMAIN batches \ {f} : batches'[i] = batches[i]
         /\ batches'[f] = With(BatchAt(f), p, S)
         /\ Room(f, PromptBytes(job, f, batches'[f]))
         /\ Paths(p, S) \in SUBSET Path /\ Cardinality(Paths(p, S)) <= policy.maxFiles
<1>1. Len(batches) \in Nat /\ DOMAIN batches = 1 .. Len(batches)  BY DEF TypeOK
<1>2. /\ f \in Candidates
      /\ Paths(p, S) \in SUBSET Path /\ Cardinality(Paths(p, S)) <= policy.maxFiles
      /\ Room(f, PromptBytes(job, f, With(BatchAt(f), p, S)))
  <2>1. /\ Paths(p, S) \in SUBSET Path
        /\ Cardinality(Paths(p, S)) \in Nat /\ policy.maxFiles \in Nat
    <3>1. Paths(p, S) \in SUBSET Path
      BY Inputs DEF TypeOK, Paths, JobType
    <3>2. QED  BY <3>1, Inputs, PlanAssumption, FS_Subset, FS_CardinalityType DEF TypeOK, PolicyType
  <2>2. QED  BY <2>1 DEF Fitting
<1>3. \/ f \in DOMAIN batches /\ Cardinality(batches[f].units) < UnitsPerBatch
      \/ f = Len(batches) + 1 /\ Len(batches) < policy.maxBatches
  BY <1>2 DEF Candidates
<1>4. DOMAIN batches' = DOMAIN batches \cup {f}  OBVIOUS
<1>5. f \in DOMAIN batches => DOMAIN batches' = 1 .. Len(batches)
  BY <1>1, <1>4
<1>6. f = Len(batches) + 1 => DOMAIN batches' = 1 .. Len(batches) + 1
  BY <1>1, <1>4
<1>7. f \in DOMAIN batches => Len(batches') = Len(batches)
  BY <1>1, <1>5
<1>8. f = Len(batches) + 1 => Len(batches') = Len(batches) + 1
  BY <1>1, <1>6
<1>9. f = Len(batches) + 1 => f \notin DOMAIN batches
  BY <1>1
<1>10. /\ \A i \in DOMAIN batches \ {f} : batches'[i] = batches[i]
       /\ batches'[f] = With(BatchAt(f), p, S)
  OBVIOUS
<1>11. QED
  BY <1>1, <1>2, <1>3, <1>4, <1>7, <1>8, <1>9, <1>10

\* Where the unit at the place in job.primary has not been put yet.
LEMMA NewUnit ==
  ASSUME TypeOK, Behind, Looking
  PROVE  /\ unit \in Unit /\ unit \notin Selected
         /\ \A i \in DOMAIN batches : \A q \in batches[i].units : q.unit # unit
<1>1. /\ next \in 1 .. Len(job.primary) /\ job.primary \in Seq(Unit)
      /\ \A m, n \in DOMAIN job.primary : job.primary[m] = job.primary[n] => m = n
  BY Inputs DEF TypeOK, Looking, JobType
<1>2. unit \in Unit  BY <1>1 DEF unit
<1>3. ASSUME NEW i \in DOMAIN batches, NEW q \in batches[i].units PROVE q.unit # unit
  <2>1. PICK m \in 1 .. next - 1 : q.unit = job.primary[m]  BY DEF Behind
  <2>2. m \in DOMAIN job.primary /\ next \in DOMAIN job.primary /\ m # next  BY <1>1
  <2>3. QED  BY <1>1, <2>1, <2>2 DEF unit
<1>4. QED  BY <1>2, <1>3 DEF Selected

LEMMA PlaceKeeps ==
  ASSUME IInv, Looking, NEW p \in Placed, NEW S \in SUBSET Unit,
         p.unit = unit, Place(p, S)
  PROVE  IInv'
<1>1. PICK f \in Fitting(p, S) :
        /\ batches' = [i \in DOMAIN batches \cup {f} |->
                         IF i = f THEN With(BatchAt(i), p, S) ELSE batches[i]]
        /\ answers' = [i \in DOMAIN batches \cup {f} |-> NoAnswer]
  BY DEF Place
<1>2. /\ sentPaths' = Paths(p, S) /\ next' = next + 1
      /\ job' = job /\ policy' = policy /\ pc' = pc
      /\ incomplete' = incomplete /\ reasons' = reasons
  BY DEF Place, inputs
<1>3. TypeOK /\ policy \in PolicyType /\ job \in JobType  BY Inputs DEF IInv, TypeOK
<1>4. /\ f \in 1 .. Len(batches) + 1 /\ Len(batches) \in Nat
      /\ DOMAIN batches = 1 .. Len(batches)
      /\ f \in DOMAIN batches \/ f = Len(batches) + 1
      /\ f \in DOMAIN batches =>
           Len(batches') = Len(batches) /\ Cardinality(batches[f].units) < UnitsPerBatch
      /\ f = Len(batches) + 1 =>
           Len(batches') = Len(batches) + 1 /\ Len(batches) < policy.maxBatches
      /\ DOMAIN batches' = DOMAIN batches \cup {f}
      /\ \A i \in DOMAIN batches \ {f} : batches'[i] = batches[i]
      /\ batches'[f] = With(BatchAt(f), p, S)
      /\ Room(f, PromptBytes(job, f, batches'[f]))
      /\ Paths(p, S) \in SUBSET Path /\ Cardinality(Paths(p, S)) <= policy.maxFiles
  BY <1>1, <1>3, PlaceShape
<1>5. /\ unit \in Unit /\ unit \notin Selected
      /\ \A i \in DOMAIN batches : \A q \in batches[i].units : q.unit # unit
  BY NewUnit DEF IInv
<1> DEFINE b == BatchAt(f)
<1>6. /\ b.units \in SUBSET Placed /\ b.snippets \in SUBSET Unit
      /\ IsFiniteSet(b.units) /\ p \notin b.units
      /\ Cardinality(b.units) \in Nat /\ Cardinality(b.units) < UnitsPerBatch
  <2>1. CASE f \in DOMAIN batches
    <3>1. b = batches[f]  BY <2>1 DEF BatchAt
    <3>2. b.units \in SUBSET Placed /\ b.snippets \in SUBSET Unit
      BY <1>3, <2>1, <3>1, BatchParts DEF TypeOK
    <3>3. IsFiniteSet(b.units) /\ p \notin b.units
      BY <1>5, <2>1, <3>1 DEF IInv, UnitsFinite
    <3>4. QED  BY <1>4, <2>1, <3>1, <3>2, <3>3, FS_CardinalityType
  <2>2. CASE f = Len(batches) + 1
    <3>0. f \notin DOMAIN batches
      <4>1. Len(batches) \in Nat /\ DOMAIN batches = 1 .. Len(batches)  BY <1>4
      <4>2. QED  BY <2>2, <4>1
    <3>1. b = [units |-> {}, snippets |-> {}]  BY <3>0 DEF BatchAt, Start
    <3>2. b.units = {} /\ b.snippets = {}  BY <3>1
    <3>3. QED  BY <3>2, FS_EmptySet, PlanAssumption
  <2>3. QED  BY <1>4, <2>1, <2>2
<1>7. /\ batches'[f].units = b.units \cup {p} /\ batches'[f].snippets = b.snippets \cup S
      /\ batches'[f] \in Batch
      /\ IsFiniteSet(batches'[f].units)
      /\ Cardinality(batches'[f].units) \in 1 .. UnitsPerBatch
  <2>1. batches'[f] = [units |-> b.units \cup {p}, snippets |-> b.snippets \cup S]
    BY <1>4 DEF With
  <2>2. Cardinality(b.units \cup {p}) = Cardinality(b.units) + 1 /\ IsFiniteSet(b.units \cup {p})
    BY <1>6, FS_AddElement
  <2>3. b.units \cup {p} \in SUBSET Placed /\ b.snippets \cup S \in SUBSET Unit  BY <1>6
  <2>4. QED  BY <1>6, <2>1, <2>2, <2>3, PlanAssumption DEF Batch
<1>8. \A i \in DOMAIN batches' : i # f => i \in DOMAIN batches /\ batches'[i] = batches[i]
  BY <1>4
<1>9. (f \in DOMAIN batches => b = batches[f]) /\ (f \notin DOMAIN batches => b.units = {} /\ b.snippets = {})
  BY DEF BatchAt, Start
<1>10. batches' \in Seq(Batch)
  <2>1. \A i \in DOMAIN batches' : batches'[i] \in Batch
    BY <1>3, <1>7, <1>8, BatchParts DEF TypeOK
  <2>2. DOMAIN batches' = 1 .. Len(batches) \/ DOMAIN batches' = 1 .. Len(batches) + 1
    BY <1>4
  <2>3. batches' = [i \in DOMAIN batches' |-> batches'[i]]  BY <1>1
  <2>4. QED  BY <1>4, <2>1, <2>2, <2>3
<1>11. TypeOK'
  <2>1. \A i \in DOMAIN batches' : Cardinality(batches'[i].units) \in 1 .. UnitsPerBatch
    BY <1>3, <1>7, <1>8 DEF TypeOK
  <2>2. next' \in 1 .. Len(job'.primary) + 1
    BY <1>2, <1>3 DEF TypeOK, Looking, JobType
  <2>3. answers' \in [DOMAIN batches' -> Result \cup {NoAnswer, Failed}]
    BY <1>1, <1>4
  <2>4. sentPaths' \subseteq Path
    BY <1>2, <1>4
  <2>5. /\ job' \in Job /\ policy' \in Policy
        /\ pc' \in {"begin", "units", "planned"}
        /\ incomplete' \in [Reason -> Nat]
        /\ reasons' \subseteq {"base-required", "change-context", "budget-insufficient"}
    BY <1>2, <1>3 DEF TypeOK
  <2>6. QED  BY <1>10, <2>1, <2>2, <2>3, <2>4, <2>5 DEF TypeOK
<1>12. Behind'
  <2>1. ASSUME NEW i \in DOMAIN batches', NEW q \in batches'[i].units
        PROVE  \E m \in 1 .. next' - 1 : q.unit = job'.primary[m]
    <3>1. CASE q = p
      <4>1. next \in 1 .. next' - 1  BY <1>2, <1>3 DEF TypeOK, Looking, JobType
      <4>2. QED  BY <1>2, <3>1, <4>1 DEF unit
    <3>2. CASE q # p
      <4>1. i \in DOMAIN batches /\ q \in batches[i].units
        BY <1>7, <1>8, <1>9, <3>2
      <4>2. PICK m \in 1 .. next - 1 : q.unit = job.primary[m]
        BY <4>1 DEF IInv, Behind
      <4>3. m \in 1 .. next' - 1  BY <1>2, <1>3 DEF TypeOK, JobType
      <4>4. QED  BY <1>2, <4>2, <4>3
    <3>3. QED  BY <3>1, <3>2
  <2>2. QED  BY <2>1 DEF Behind
<1>13. UnitsFinite'
  BY <1>7, <1>8 DEF IInv, UnitsFinite
<1>14. Once'
  <2>1. ASSUME NEW i \in DOMAIN batches', NEW j \in DOMAIN batches',
               NEW q \in batches'[i].units, NEW r \in batches'[j].units, q.unit = r.unit
        PROVE  i = j /\ q = r
    <3>1. \A k \in DOMAIN batches' : \A s \in batches'[k].units :
            \/ k = f /\ s = p
            \/ k \in DOMAIN batches /\ s \in batches[k].units /\ s.unit # unit
      BY <1>5, <1>7, <1>8, <1>9
    <3>2. QED  BY <2>1, <3>1 DEF IInv, Once
  <2>2. QED  BY <2>1 DEF Once
<1>15. Len(batches') <= policy'.maxBatches
  <2>1. Len(batches) <= policy.maxBatches /\ policy.maxBatches \in Nat
    BY <1>3 DEF IInv, PolicyType
  <2>2. Len(batches') <= policy.maxBatches
    <3>1. /\ Len(batches) \in Nat
          /\ \/ Len(batches') = Len(batches)
             \/ Len(batches') = Len(batches) + 1 /\ Len(batches) < policy.maxBatches
      BY <1>4
    <3>2. QED  BY <2>1, <3>1
  <2>3. QED  BY <1>2, <2>2
<1>16. FilesCounted'
  <2>1. ASSUME NEW i \in DOMAIN batches', NEW s \in batches'[i].snippets
        PROVE  job'.path[s] \in sentPaths'
    <3>1. CASE i \in DOMAIN batches /\ s \in batches[i].snippets
      BY <1>2, <3>1 DEF IInv, FilesCounted, Paths
    <3>2. CASE s \in S
      BY <1>2, <3>2 DEF Paths
    <3>3. QED  BY <1>7, <1>8, <1>9, <3>1, <3>2
  <2>2. QED  BY <1>2, <1>4, <2>1 DEF FilesCounted
<1>17. BytesMeasured'
  <2>1. ASSUME NEW i \in DOMAIN batches'
        PROVE  PromptBytes(job, i, batches'[i]) <= policy.maxPromptBytes
    <3>1. CASE i = f  BY <1>4, <3>1 DEF Room
    <3>2. CASE i # f  BY <1>8, <3>2 DEF IInv, BytesMeasured
    <3>3. QED  BY <3>1, <3>2
  <2>2. QED  BY <1>2, <2>1 DEF BytesMeasured
<1>18. Answered'
  BY <1>1, <1>4 DEF Answered
<1>19. Counted'
  <2>1. Selected' = Selected \cup {unit}
    <3>1. ASSUME NEW u \in Selected' PROVE u \in Selected \cup {unit}
      <4>1. PICK i \in DOMAIN batches' : u \in {q.unit : q \in batches'[i].units}
        BY <3>1 DEF Selected
      <4>2. CASE i = f /\ i \notin DOMAIN batches  BY <1>7, <1>9, <4>1, <4>2
      <4>3. CASE i \in DOMAIN batches
        <5>1. {q.unit : q \in batches'[i].units} \subseteq {q.unit : q \in batches[i].units} \cup {unit}
          BY <1>7, <1>8, <1>9, <4>1, <4>3
        <5>2. QED  BY <4>1, <4>3, <5>1 DEF Selected
      <4>4. QED  BY <1>4, <4>2, <4>3
    <3>2. ASSUME NEW u \in Selected \cup {unit} PROVE u \in Selected'
      <4>1. CASE u = unit
        <5>1. unit \in {q.unit : q \in batches'[f].units} /\ f \in DOMAIN batches'
          BY <1>4, <1>7
        <5>2. QED  BY <4>1, <5>1 DEF Selected
      <4>2. CASE u # unit
        <5>1. PICK i \in DOMAIN batches : u \in {q.unit : q \in batches[i].units}
          BY <3>2, <4>2 DEF Selected
        <5>2. u \in {q.unit : q \in batches'[i].units} /\ i \in DOMAIN batches'
          BY <1>4, <1>7, <1>9, <5>1
        <5>3. QED  BY <5>2 DEF Selected
      <4>3. QED  BY <4>1, <4>2
    <3>3. QED  BY <3>1, <3>2
  <2>2. IsFiniteSet(Selected)  BY <1>3, SelectedFinite
  <2>3. Cardinality(Selected') = Cardinality(Selected) + 1 /\ Cardinality(Selected) \in Nat
    BY <1>5, <2>1, <2>2, FS_AddElement, FS_CardinalityType
  <2>4. /\ incomplete["filtered"] \in Nat /\ incomplete["budget-exhausted"] \in Nat
        /\ incomplete["prompt-too-large"] \in Nat /\ next \in Nat
    BY <1>3 DEF TypeOK, Reason, JobType
  <2>5. Counted  BY DEF IInv
  <2>6. Cardinality(Selected') + incomplete["filtered"] + incomplete["budget-exhausted"]
          + incomplete["prompt-too-large"] = next' - 1
    <3> DEFINE n == Cardinality(Selected)  m == Cardinality(Selected')
               x == incomplete["filtered"]  y == incomplete["budget-exhausted"]
               z == incomplete["prompt-too-large"]  k == next'
    <3>1. n + x + y + z = next - 1  BY <2>5 DEF Counted
    <3>2. m = n + 1 /\ k = next + 1  BY <1>2, <2>3
    <3>3. n \in Nat /\ x \in Nat /\ y \in Nat /\ z \in Nat /\ next \in Nat  BY <2>3, <2>4
    <3> HIDE DEF n, m, x, y, z, k
    <3>4. m + x + y + z = k - 1  BY <3>1, <3>2, <3>3
    <3>5. QED  BY <3>4 DEF n, m, x, y, z, k
  <2>7. QED  BY <1>2, <2>6 DEF Counted
<1>20. QED
  BY <1>11, <1>12, <1>13, <1>14, <1>15, <1>16, <1>17, <1>18, <1>19 DEF IInv

-----------------------------------------------------------------------------
\* What holds of the requests holds while they and the inputs stay.
LEMMA RequestsFrame ==
  ASSUME IInv, batches' = batches, sentPaths' = sentPaths, UNCHANGED inputs,
         next' = next \/ next' = next + 1
  PROVE  /\ Behind' /\ UnitsFinite' /\ Once' /\ FilesCounted' /\ BytesMeasured'
         /\ Len(batches') <= policy'.maxBatches /\ Selected' = Selected
<1>1. job' = job /\ policy' = policy  BY DEF inputs
<1>2. Behind'
  <2>1. next \in Nat /\ (next' = next \/ next' = next + 1)
    BY Inputs DEF IInv, TypeOK, JobType
  <2>2. \A m \in 1 .. next - 1 : m \in 1 .. next' - 1  BY <2>1
  <2>3. QED  BY <1>1, <2>2 DEF IInv, Behind
<1>3. UnitsFinite' /\ Once' /\ Selected' = Selected
  BY DEF IInv, UnitsFinite, Once, Selected
<1>4. FilesCounted' /\ BytesMeasured'
  BY <1>1 DEF IInv, FilesCounted, BytesMeasured
<1>5. Len(batches') <= policy'.maxBatches
  BY <1>1 DEF IInv
<1>6. QED  BY <1>2, <1>3, <1>4, <1>5

\* A unit that is not placed is counted once.
LEMMA CountKeeps ==
  ASSUME IInv, Looking, Count("filtered") \/ Count("budget-exhausted") \/ Count("prompt-too-large")
  PROVE  IInv'
<1>1. PICK reason \in {"filtered", "budget-exhausted", "prompt-too-large"} :
        /\ incomplete' = [incomplete EXCEPT ![reason] = @ + 1] /\ next' = next + 1
        /\ UNCHANGED <<inputs, pc, batches, sentPaths, reasons, answers>>
  BY DEF Count
<1>2. TypeOK /\ job \in JobType /\ job' = job /\ policy' = policy
  BY <1>1, Inputs DEF IInv, TypeOK, inputs
<1>3. /\ Behind' /\ UnitsFinite' /\ Once' /\ FilesCounted' /\ BytesMeasured'
      /\ Len(batches') <= policy'.maxBatches /\ Selected' = Selected
  BY <1>1, RequestsFrame
<1>4. incomplete \in [Reason -> Nat] /\ incomplete' \in [Reason -> Nat]
  BY <1>1, <1>2 DEF TypeOK, Reason
<1>5. next \in Nat /\ next \in 1 .. Len(job.primary) /\ next' = next + 1
  BY <1>1, <1>2 DEF TypeOK, Looking, JobType
<1>6. TypeOK'
  <2>1. next' \in 1 .. Len(job'.primary) + 1  BY <1>2, <1>5 DEF JobType
  <2>2. QED  BY <1>1, <1>2, <1>4, <2>1 DEF TypeOK
<1>7. Answered'
  BY <1>1 DEF IInv, Answered, Units
<1>8. Counted'
  <2> DEFINE n == Cardinality(Selected)
             x == incomplete["filtered"]  y == incomplete["budget-exhausted"]
             z == incomplete["prompt-too-large"]
             u == incomplete'["filtered"]  v == incomplete'["budget-exhausted"]
             w == incomplete'["prompt-too-large"]  k == next'
  <2>1. n + x + y + z = next - 1  BY DEF IInv, Counted
  <2>2. /\ x \in Nat /\ y \in Nat /\ z \in Nat
        /\ \/ u = x + 1 /\ v = y /\ w = z
           \/ u = x /\ v = y + 1 /\ w = z
           \/ u = x /\ v = y /\ w = z + 1
    <3>1. CASE reason = "filtered"  BY <1>1, <1>4, <3>1 DEF Reason
    <3>2. CASE reason = "budget-exhausted"  BY <1>1, <1>4, <3>2 DEF Reason
    <3>3. CASE reason = "prompt-too-large"  BY <1>1, <1>4, <3>3 DEF Reason
    <3>4. QED  BY <3>1, <3>2, <3>3
  <2>3. n \in Nat
    BY <1>2, SelectedFinite, FS_CardinalityType
  <2>4. next \in Nat /\ k = next + 1  BY <1>5
  <2> HIDE DEF n, x, y, z, u, v, w, k
  <2>5. n + u + v + w = k - 1  BY <2>1, <2>2, <2>3, <2>4
  <2>6. QED  BY <1>3, <2>5 DEF n, u, v, w, k, Counted
<1>9. QED  BY <1>3, <1>6, <1>7, <1>8 DEF IInv

LEMMA BeginKeeps == ASSUME IInv, Begin PROVE IInv'
<1>1. /\ UNCHANGED <<inputs, next, batches, sentPaths, incomplete, answers>>
      /\ pc' \in {"begin", "units", "planned"}
      /\ reasons' \subseteq {"base-required", "change-context", "budget-insufficient"}
  BY DEF Begin
<1>2. /\ Behind' /\ UnitsFinite' /\ Once' /\ FilesCounted' /\ BytesMeasured'
      /\ Len(batches') <= policy'.maxBatches /\ Selected' = Selected
  BY <1>1, RequestsFrame
<1>3. TypeOK'  BY <1>1 DEF IInv, TypeOK, inputs
<1>4. Answered' /\ Counted'  BY <1>1, <1>2 DEF IInv, Answered, Units, Counted
<1>5. QED  BY <1>2, <1>3, <1>4 DEF IInv

LEMMA FinishKeeps == ASSUME IInv, Finish PROVE IInv'
<1>1. /\ UNCHANGED <<inputs, next, batches, sentPaths, answers>>
      /\ incomplete' = [incomplete EXCEPT !["source-too-large"] = @ + job.oversized]
      /\ pc' = "planned"
      /\ reasons' \subseteq reasons \cup {"budget-insufficient"}
  BY DEF Finish
<1>2. TypeOK /\ job \in JobType  BY Inputs DEF IInv, TypeOK
<1>3. /\ Behind' /\ UnitsFinite' /\ Once' /\ FilesCounted' /\ BytesMeasured'
      /\ Len(batches') <= policy'.maxBatches /\ Selected' = Selected
  BY <1>1, RequestsFrame
<1>4. /\ incomplete' \in [Reason -> Nat]
      /\ incomplete'["filtered"] = incomplete["filtered"]
      /\ incomplete'["budget-exhausted"] = incomplete["budget-exhausted"]
      /\ incomplete'["prompt-too-large"] = incomplete["prompt-too-large"]
  <2>1. job.oversized \in Nat /\ incomplete \in [Reason -> Nat]  BY <1>2 DEF TypeOK, JobType
  <2>2. QED  BY <1>1, <2>1 DEF Reason
<1>5. TypeOK'  BY <1>1, <1>2, <1>4 DEF TypeOK, inputs
<1>6. Answered' /\ Counted'  BY <1>1, <1>3, <1>4 DEF IInv, Answered, Units, Counted
<1>7. QED  BY <1>3, <1>5, <1>6 DEF IInv

LEMMA AnswerKeeps == ASSUME IInv, NEW i \in DOMAIN batches, Answer(i) PROVE IInv'
<1>1. UNCHANGED <<inputs, pc, next, batches, sentPaths, incomplete, reasons>>
  BY DEF Answer
<1>2. PICK said \in SUBSET Units(i), invalid \in SUBSET Units(i), stray \in BOOLEAN, matches \in BOOLEAN :
        answers' = [answers EXCEPT ![i] =
          IF ~matches THEN Failed
          ELSE LET evaluated == IF stray THEN {} ELSE said \ invalid
               IN [evaluated |-> evaluated, incomplete |-> Units(i) \ evaluated]]
  BY DEF Answer, Units
<1>3. TypeOK /\ batches \in Seq(Batch)  BY DEF IInv, TypeOK
<1>4. Units(i) \in SUBSET Unit  BY <1>3, BatchParts
<1>5. PICK E \in SUBSET Units(i) :
        \/ answers' = [answers EXCEPT ![i] = Failed]
        \/ answers' = [answers EXCEPT ![i] = [evaluated |-> E, incomplete |-> Units(i) \ E]]
  <2>1. CASE ~matches  BY <1>2, <2>1
  <2>2. CASE matches /\ stray
    <3>1. answers' = [answers EXCEPT ![i] = [evaluated |-> {}, incomplete |-> Units(i) \ {}]]
      BY <1>2, <2>2
    <3>2. QED  BY <3>1
  <2>3. CASE matches /\ ~stray
    <3>1. answers' = [answers EXCEPT ![i] =
            [evaluated |-> said \ invalid, incomplete |-> Units(i) \ (said \ invalid)]]
      BY <1>2, <2>3
    <3>2. said \ invalid \in SUBSET Units(i)  OBVIOUS
    <3>3. QED  BY <3>1, <3>2
  <2>4. QED  BY <2>1, <2>2, <2>3
<1>6. answers' \in [DOMAIN batches' -> Result \cup {NoAnswer, Failed}]
  <2>1. [evaluated |-> E, incomplete |-> Units(i) \ E] \in Result
    BY <1>4 DEF Result
  <2>2. QED  BY <1>1, <1>3, <1>5, <2>1 DEF TypeOK
<1>7. TypeOK'  BY <1>1, <1>3, <1>6 DEF TypeOK, inputs
<1>8. Answered'
  <2>1. ASSUME NEW k \in DOMAIN batches, answers'[k] \notin {NoAnswer, Failed}
        PROVE  /\ answers'[k].evaluated \cap answers'[k].incomplete = {}
               /\ answers'[k].evaluated \cup answers'[k].incomplete = Units(k)
    <3>1. CASE k = i
      <4>1. answers'[k] = [evaluated |-> E, incomplete |-> Units(i) \ E]
        BY <1>3, <1>5, <2>1, <3>1 DEF TypeOK
      <4>2. answers'[k].evaluated = E /\ answers'[k].incomplete = Units(i) \ E  BY <4>1
      <4>3. QED  BY <3>1, <4>2
    <3>2. CASE k # i
      <4>1. answers'[k] = answers[k]  BY <1>3, <1>5, <3>2 DEF TypeOK
      <4>2. QED  BY <2>1, <4>1 DEF IInv, Answered
    <3>3. QED  BY <3>1, <3>2
  <2>2. \A k : Units(k)' = Units(k)  BY <1>1 DEF Units
  <2>3. QED  BY <1>1, <2>1, <2>2 DEF Answered
<1>9. /\ Behind' /\ UnitsFinite' /\ Once' /\ FilesCounted' /\ BytesMeasured'
      /\ Len(batches') <= policy'.maxBatches /\ Selected' = Selected
  BY <1>1, RequestsFrame
<1>10. Counted'  BY <1>1, <1>9 DEF IInv, Counted
<1>11. QED  BY <1>7, <1>8, <1>9, <1>10 DEF IInv

-----------------------------------------------------------------------------
\* The units the loop tries to place, and the snippets it tries them with.
LEMMA Tried ==
  ASSUME IInv, Looking
  PROVE  /\ Whole(unit) \in Placed /\ Whole(unit).unit = unit
         /\ Whole(unit).limitations = Limits(unit)
         /\ Alone(unit) \in Placed /\ Alone(unit).unit = unit
         /\ "related-context-omitted" \in Alone(unit).limitations
         /\ {unit} \cup Context(unit) \in SUBSET Unit /\ {unit} \in SUBSET Unit
<1>1. unit \in Unit /\ job \in JobType  BY NewUnit, Inputs DEF IInv, TypeOK
<1>2. Context(unit) \in SUBSET Unit  BY <1>1 DEF Context, JobType
<1>3. Limits(unit) \in SUBSET Limitation  BY DEF Limits, Limitation
<1>4. Limits(unit) \cup {"related-context-omitted"} \in SUBSET Limitation
  BY <1>3 DEF Limitation
<1>5. QED  BY <1>1, <1>2, <1>3, <1>4 DEF Whole, Alone, Placed

LEMMA StutterKeeps == ASSUME IInv, UNCHANGED vars PROVE IInv'
<1>1. /\ Behind' /\ UnitsFinite' /\ Once' /\ FilesCounted' /\ BytesMeasured'
      /\ Len(batches') <= policy'.maxBatches /\ Selected' = Selected
  BY RequestsFrame DEF vars
<1>2. TypeOK' /\ Answered' /\ Counted'
  BY <1>1 DEF vars, inputs, IInv, TypeOK, Answered, Units, Counted
<1>3. QED  BY <1>1, <1>2 DEF IInv

LEMMA StepKeeps == IInv /\ [Next]_vars => IInv'
<1> SUFFICES ASSUME IInv, [Next]_vars PROVE IInv'
  OBVIOUS
<1>1. CASE Begin  BY <1>1, BeginKeeps
<1>2. CASE SkipFull  BY <1>2, CountKeeps DEF SkipFull
<1>3. CASE SkipFiltered  BY <1>3, CountKeeps DEF SkipFiltered
<1>4. CASE PlaceWhole
  <2>1. Looking /\ Place(Whole(unit), {unit} \cup Context(unit))  BY <1>4 DEF PlaceWhole
  <2>2. QED  BY <2>1, Tried, PlaceKeeps
<1>5. CASE PlaceAlone
  <2>1. Looking /\ Place(Alone(unit), {unit})  BY <1>5 DEF PlaceAlone
  <2>2. QED  BY <2>1, Tried, PlaceKeeps
<1>6. CASE Reject
  <2>1. Looking /\ (Count("budget-exhausted") \/ Count("prompt-too-large"))  BY <1>6 DEF Reject
  <2>2. QED  BY <2>1, CountKeeps
<1>7. CASE Finish  BY <1>7, FinishKeeps
<1>8. CASE \E i \in DOMAIN batches : Answer(i)  BY <1>8, AnswerKeeps
<1>9. CASE UNCHANGED vars  BY <1>9, StutterKeeps
<1>10. QED  BY <1>1, <1>2, <1>3, <1>4, <1>5, <1>6, <1>7, <1>8, <1>9 DEF Next, PlanStep

(***************************************************************************)
(* What buildSecurityPlan makes is well formed: no request is empty or     *)
(* holds more than UnitsPerBatch units.                                    *)
(***************************************************************************)
THEOREM TypeCorrect == Spec => []TypeOK
<1>1. IInv => TypeOK  BY DEF IInv
<1>2. QED  BY <1>1, Start0, StepKeeps, PTL DEF Spec

(***************************************************************************)
(* The requests stay within the limits on their number and on the bytes of *)
(* each; the files of all snippets sent stay within maxFiles.  The limit   *)
(* on files is checked against sentPaths, so that set has to hold every    *)
(* file of a snippet.                                                      *)
(***************************************************************************)
THEOREM Limited == Spec => []RequestsWithinPolicy
<1>1. ASSUME IInv PROVE RequestsWithinPolicy
  <2> DEFINE files == {job.path[s] : s \in UNION {batches[i].snippets : i \in DOMAIN batches}}
  <2>1. files \subseteq sentPaths  BY <1>1 DEF IInv, FilesCounted
  <2>2. IsFiniteSet(sentPaths)
    BY <1>1, PlanAssumption, FS_Subset DEF IInv, TypeOK
  <2>3. /\ Cardinality(files) <= Cardinality(sentPaths)
        /\ Cardinality(files) \in Nat /\ Cardinality(sentPaths) \in Nat
    BY <2>1, <2>2, FS_Subset, FS_CardinalityType
  <2>4. Cardinality(sentPaths) <= policy.maxFiles /\ policy.maxFiles \in Nat
    BY <1>1, Inputs DEF IInv, FilesCounted, TypeOK, PolicyType
  <2> HIDE DEF files
  <2>5. Cardinality(files) <= policy.maxFiles  BY <2>3, <2>4
  <2>6. QED  BY <1>1, <2>5 DEF RequestsWithinPolicy, IInv, BytesMeasured, files
<1>2. QED  BY <1>1, Start0, StepKeeps, PTL DEF Spec

(***************************************************************************)
(* No unit is lost or sent twice, and the answers divide the units of      *)
(* their requests.                                                         *)
(***************************************************************************)
THEOREM AddsUp == Spec => []CoverageAddsUp
<1>1. IInv => CoverageAddsUp  BY DEF IInv, CoverageAddsUp, Counted, Once, Answered, Units
<1>2. QED  BY <1>1, Start0, StepKeeps, PTL DEF Spec

(***************************************************************************)
(* A placement keeps what the units of a request say of their context: the *)
(* snippets of a request only become more.                                 *)
(***************************************************************************)
LEMMA PlaceDeclares ==
  ASSUME IInv, Looking, ContextSentOrDeclared, NEW p \in Placed, NEW S \in SUBSET Unit,
         p.unit = unit, p.unit \in S, Place(p, S),
         \A r \in job.related[p.unit] \ S :
           \/ "related-context-omitted" \in p.limitations
           \/ "related-context-not-sent" \in p.limitations /\ r \notin job.allowed
           \/ "related-context-filtered" \in p.limitations /\ ~Sendable(r)
  PROVE  ContextSentOrDeclared'
<1>1. PICK f \in Fitting(p, S) :
        batches' = [i \in DOMAIN batches \cup {f} |->
                     IF i = f THEN With(BatchAt(i), p, S) ELSE batches[i]]
  BY DEF Place
<1>2. job' = job  BY DEF Place, inputs
<1>3. /\ f \in DOMAIN batches => BatchAt(f) = batches[f]
      /\ f \notin DOMAIN batches => BatchAt(f).units = {}
  BY DEF BatchAt, Start
<1>4. /\ batches'[f].units = BatchAt(f).units \cup {p}
      /\ batches'[f].snippets = BatchAt(f).snippets \cup S
  BY <1>1 DEF With
<1>5. \A i \in DOMAIN batches' : i # f => i \in DOMAIN batches /\ batches'[i] = batches[i]
  BY <1>1
<1>6. ASSUME NEW i \in DOMAIN batches', NEW q \in batches'[i].units
      PROVE  /\ q.unit \in batches'[i].snippets
             /\ \A r \in job.related[q.unit] \ batches'[i].snippets :
                  \/ "related-context-omitted" \in q.limitations
                  \/ "related-context-not-sent" \in q.limitations /\ r \notin job.allowed
                  \/ "related-context-filtered" \in q.limitations /\ ~Sendable(r)
  <2>1. CASE i = f /\ q = p  BY <1>4, <2>1
  <2>2. CASE ~(i = f /\ q = p)
    <3>1. /\ i \in DOMAIN batches /\ q \in batches[i].units
          /\ batches[i].snippets \subseteq batches'[i].snippets
      BY <1>3, <1>4, <1>5, <2>2
    <3>2. QED  BY <3>1 DEF ContextSentOrDeclared
  <2>3. QED  BY <2>1, <2>2
<1>7. QED  BY <1>2, <1>6 DEF ContextSentOrDeclared, Sendable

(***************************************************************************)
(* A unit is sent with all of its context or says what is missing,         *)
(* whatever is put into its request after it.                              *)
(***************************************************************************)
THEOREM ContextKnown == Spec => []ContextSentOrDeclared
<1>1. Init => ContextSentOrDeclared  BY DEF Init, ContextSentOrDeclared
<1>2. ASSUME IInv, ContextSentOrDeclared, [Next]_vars PROVE ContextSentOrDeclared'
  <2>1. CASE PlaceWhole
    <3>1. Looking /\ Place(Whole(unit), {unit} \cup Context(unit))  BY <2>1 DEF PlaceWhole
    <3>2. \A r \in job.related[unit] \ ({unit} \cup Context(unit)) :
            \/ "related-context-not-sent" \in Limits(unit) /\ r \notin job.allowed
            \/ "related-context-filtered" \in Limits(unit) /\ ~Sendable(r)
      BY DEF Context, Limits
    <3>3. QED  BY <1>2, <3>1, <3>2, Tried, PlaceDeclares
  <2>2. CASE PlaceAlone
    <3>1. Looking /\ Place(Alone(unit), {unit})  BY <2>2 DEF PlaceAlone
    <3>2. QED  BY <1>2, <3>1, Tried, PlaceDeclares
  <2>3. CASE UNCHANGED <<inputs, batches>>
    BY <1>2, <2>3 DEF ContextSentOrDeclared, Sendable, inputs
  <2>4. QED
    BY <1>2, <2>1, <2>2, <2>3
       DEF Next, PlanStep, Begin, SkipFull, SkipFiltered, Reject, Count, Finish, Answer, vars
<1>3. QED  BY <1>1, <1>2, Start0, StepKeeps, PTL DEF Spec

-----------------------------------------------------------------------------
(* Bytes.                                                                  *)

LEMMA TimesMonotonic ==
  ASSUME NEW a \in Nat, NEW m \in Nat, NEW n \in Nat, m <= n
  PROVE  a * m \in Nat /\ a * n \in Nat /\ a * m <= a * n
OBVIOUS

\* The line of a unit grows with the snippets of its prompt.
LEMMA LineGrows ==
  ASSUME job \in JobType, NEW p \in Placed, NEW S \in SUBSET Unit, NEW T \in SUBSET S
  PROVE  /\ UnitLine(job, p, T) \in Nat /\ UnitLine(job, p, S) \in Nat
         /\ UnitLine(job, p, T) <= UnitLine(job, p, S)
<1> DEFINE rel == job.related[p.unit]
           few == Cardinality(rel \cap T)
           many == Cardinality(rel \cap S)
           limits == Cardinality(p.limitations)
<1>1. p.unit \in Unit /\ rel \in SUBSET Unit /\ job.line[p.unit] \in Nat
  BY DEF JobType, Placed
<1>2. few \in Nat /\ many \in Nat /\ few <= many
  <2>1. IsFiniteSet(rel \cap S) /\ rel \cap T \subseteq rel \cap S
    BY <1>1, PlanAssumption, FS_Subset
  <2>2. IsFiniteSet(rel \cap T) /\ Cardinality(rel \cap T) <= Cardinality(rel \cap S)
    BY <2>1, FS_Subset
  <2> QED BY <2>1, <2>2, FS_CardinalityType
<1>3. limits \in Nat
  <2>1. IsFiniteSet(Limitation)
    <3> DEFINE A == {} \cup {"secret-masked"}
               B == A \cup {"related-context-not-sent"}
               C == B \cup {"related-context-filtered"}
    <3>1. IsFiniteSet({})
      BY FS_EmptySet
    <3>2. IsFiniteSet(A)
      BY <3>1, FS_AddElement
    <3>3. IsFiniteSet(B)
      <4> HIDE DEF A
      <4> QED BY <3>2, FS_AddElement
    <3>4. IsFiniteSet(C)
      <4> HIDE DEF B
      <4> QED BY <3>3, FS_AddElement
    <3>5. Limitation = C \cup {"related-context-omitted"}
      BY DEF Limitation
    <3> HIDE DEF C
    <3> QED BY <3>4, <3>5, FS_AddElement
  <2>2. IsFiniteSet(p.limitations)
    BY <2>1, FS_Subset DEF Placed
  <2> QED BY <2>2, FS_CardinalityType
<1>4. ContextBytes * few \in Nat /\ ContextBytes * many \in Nat
      /\ ContextBytes * few <= ContextBytes * many
  BY <1>2, PlanAssumption, TimesMonotonic
<1>5. LimitationBytes * limits \in Nat
  BY <1>3, PlanAssumption, TimesMonotonic
<1>6. /\ UnitLine(job, p, T) = job.line[p.unit] + ContextBytes * few + LimitationBytes * limits
      /\ UnitLine(job, p, S) = job.line[p.unit] + ContextBytes * many + LimitationBytes * limits
  BY DEF UnitLine
<1> HIDE DEF few, many, limits
<1> QED BY <1>1, <1>4, <1>5, <1>6

\* A request with finitely many units, in the place where it may be.
IsRequest(i, b) ==
  /\ b.units \in SUBSET Placed /\ IsFiniteSet(b.units) /\ b.snippets \in SUBSET Unit
  /\ i \in 1 .. policy.maxBatches + 1

LEMMA BytesType ==
  ASSUME job \in Job, policy \in Policy, NEW i, NEW b, IsRequest(i, b)
  PROVE  /\ Lines(job, b) \in Nat /\ HeadBytes(i) \in Nat
         /\ \A S \in SUBSET Unit : IsFiniteSet(S) /\ Blocks(job, S) \in Nat
         /\ PromptBytes(job, i, b) \in Nat
<1>1. job \in JobType /\ policy \in PolicyType
  BY Inputs
<1> DEFINE f == [p \in b.units |-> UnitLine(job, p, b.snippets)]
<1>2. \A p \in b.units : f[p] \in Nat
  BY <1>1, LineGrows DEF IsRequest
<1>3. Lines(job, b) \in Nat
  <2>1. DOMAIN f = b.units
    OBVIOUS
  <2>2. Lines(job, b) = SumFunctionOnSet(f, b.units)
    BY <2>1 DEF Lines, SumFunction
  <2> HIDE DEF f
  <2> QED BY <1>2, <2>2, SumType DEF IsRequest
<1>4. ASSUME NEW S \in SUBSET Unit PROVE IsFiniteSet(S) /\ Blocks(job, S) \in Nat
  <2>1. IsFiniteSet(S) /\ \A s \in S : job.block[s] \in Nat
    BY <1>1, PlanAssumption, FS_Subset DEF JobType
  <2> QED BY <2>1, SumType DEF Blocks
<1>5. HeadBytes(i) \in Nat
  BY PlanAssumption DEF IsRequest
<1>6. Blocks(job, b.snippets) \in Nat
  BY <1>4 DEF IsRequest
<1> QED BY <1>3, <1>4, <1>5, <1>6 DEF PromptBytes

\* What tryPlace makes of a request is one, with a unit more.
LEMMA WithIsRequest ==
  ASSUME IInv, Looking, NEW p \in Placed, p.unit = unit, NEW S \in SUBSET Unit,
         NEW i \in Candidates
  PROVE  /\ IsRequest(i, BatchAt(i)) /\ IsRequest(i, With(BatchAt(i), p, S))
         /\ p \notin BatchAt(i).units
<1>1. /\ TypeOK /\ Len(batches) \in Nat /\ DOMAIN batches = 1 .. Len(batches)
      /\ policy.maxBatches \in Nat /\ Len(batches) <= policy.maxBatches
  BY Inputs DEF IInv, TypeOK, PolicyType
<1>2. i \in 1 .. policy.maxBatches + 1 /\ (i \in DOMAIN batches \/ i = Len(batches) + 1)
  BY <1>1 DEF Candidates
<1>3. /\ BatchAt(i).units \in SUBSET Placed /\ BatchAt(i).snippets \in SUBSET Unit
      /\ IsFiniteSet(BatchAt(i).units) /\ p \notin BatchAt(i).units
  <2>1. CASE i \in DOMAIN batches
    <3>1. \A q \in batches[i].units : q.unit # unit
      BY <2>1, NewUnit DEF IInv
    <3> QED BY <1>1, <2>1, <3>1, BatchParts DEF BatchAt, IInv, UnitsFinite, TypeOK
  <2>2. CASE i \notin DOMAIN batches
    <3>1. BatchAt(i).units = {} /\ BatchAt(i).snippets = {}
      BY <2>2 DEF BatchAt, Start
    <3> QED BY <3>1, FS_EmptySet
  <2> QED BY <2>1, <2>2
<1>4. IsFiniteSet(BatchAt(i).units \cup {p})
  BY <1>3, FS_AddElement
<1> QED BY <1>2, <1>3, <1>4 DEF IsRequest, With

\* The estimate is a lower bound: the lines that are there grow with the new
\* snippets, and nothing else is counted differently.
LEMMA EstimateIsLow ==
  ASSUME IInv, Looking, NEW p \in Placed, p.unit = unit, NEW S \in SUBSET Unit,
         NEW i \in Candidates
  PROVE  /\ Estimate(i, BatchAt(i), p, S) \in Nat
         /\ PromptBytes(job, i, With(BatchAt(i), p, S)) \in Nat
         /\ Estimate(i, BatchAt(i), p, S) <= PromptBytes(job, i, With(BatchAt(i), p, S))
<1> DEFINE b == BatchAt(i)
           c == With(b, p, S)
           sent == b.snippets \cup S
           f == [q \in b.units |-> UnitLine(job, q, b.snippets)]
           g == [q \in c.units |-> UnitLine(job, q, c.snippets)]
<1>1. job \in Job /\ policy \in Policy /\ job \in JobType
  BY Inputs DEF IInv, TypeOK
<1>2. IsRequest(i, b) /\ IsRequest(i, c) /\ p \notin b.units
  BY WithIsRequest
<1>3. c.units = b.units \cup {p} /\ c.snippets = sent
  BY DEF With
<1>4. /\ b.units \in SUBSET Placed /\ IsFiniteSet(b.units)
      /\ b.snippets \in SUBSET Unit /\ sent \in SUBSET Unit
  BY <1>2 DEF IsRequest
<1> HIDE DEF b, c, sent
<1>5. /\ UnitLine(job, p, S) \in Nat /\ UnitLine(job, p, sent) \in Nat
      /\ UnitLine(job, p, S) <= UnitLine(job, p, sent)
  BY <1>1, <1>4, LineGrows DEF sent
<1>6. Lines(job, c) = UnitLine(job, p, sent) + SumFunctionOnSet(g, b.units)
      /\ SumFunctionOnSet(g, b.units) \in Nat
  <2>1. \A q \in b.units \cup {p} : g[q] \in Nat
    BY <1>1, <1>3, <1>4, LineGrows
  <2>2. DOMAIN g = b.units \cup {p} /\ g[p] = UnitLine(job, p, sent)
    BY <1>3
  <2>3. Lines(job, c) = SumFunctionOnSet(g, b.units \cup {p})
    BY <2>2 DEF Lines, SumFunction
  <2>6. /\ IsFiniteSet(b.units) /\ p \notin b.units
         /\ \A q \in b.units \cup {p} : g[q] \in Int
    BY <1>2, <1>4, <2>1
  <2> HIDE DEF g
  <2>4. SumFunctionOnSet(g, b.units \cup {p}) = g[p] + SumFunctionOnSet(g, b.units)
    BY <2>6, SumAdd
  <2>5. SumFunctionOnSet(g, b.units) \in Nat
    BY <1>4, <2>1, SumType
  <2> QED BY <2>2, <2>3, <2>4, <2>5
<1>7. Lines(job, b) <= SumFunctionOnSet(g, b.units)
  <2>1. \A q \in b.units : f[q] \in Int /\ g[q] \in Int /\ f[q] <= g[q]
    BY <1>1, <1>3, <1>4, LineGrows DEF sent
  <2>2. Lines(job, b) = SumFunctionOnSet(f, b.units)
    BY DEF Lines, SumFunction
  <2> HIDE DEF f, g
  <2> QED BY <1>4, <2>1, <2>2, SumMonotonic
<1>8. Blocks(job, sent) = Blocks(job, b.snippets) + Blocks(job, S \ b.snippets)
  <2>1. /\ IsFiniteSet(b.snippets) /\ IsFiniteSet(S \ b.snippets)
        /\ b.snippets \cup (S \ b.snippets) = sent /\ b.snippets \cap (S \ b.snippets) = {}
        /\ \A s \in b.snippets \cup (S \ b.snippets) : job.block[s] \in Int
    BY <1>1, <1>4, PlanAssumption, FS_Subset DEF sent, JobType
  <2> QED BY <2>1, SumUnion DEF Blocks
<1>9. /\ Lines(job, b) \in Nat /\ HeadBytes(i) \in Nat
      /\ PromptBytes(job, i, b) \in Nat /\ PromptBytes(job, i, c) \in Nat
      /\ \A T \in SUBSET Unit : Blocks(job, T) \in Nat
  BY <1>1, <1>2, BytesType
<1>10. /\ Blocks(job, b.snippets) \in Nat /\ Blocks(job, S \ b.snippets) \in Nat
       /\ Blocks(job, sent) \in Nat
  BY <1>4, <1>9
<1>11. /\ Estimate(i, b, p, S) = HeadBytes(i) + Lines(job, b) + Blocks(job, b.snippets)
            + UnitLine(job, p, S) + Blocks(job, S \ b.snippets)
       /\ PromptBytes(job, i, c) = HeadBytes(i) + Lines(job, c) + Blocks(job, sent)
  BY <1>3 DEF Estimate, PromptBytes
<1>12. Estimate(i, b, p, S) \in Nat /\ Estimate(i, b, p, S) <= PromptBytes(job, i, c)
  BY <1>5, <1>6, <1>7, <1>8, <1>9, <1>10, <1>11
<1> QED BY <1>9, <1>12 DEF b, c

\* The requests that are there are measured, each and together.
Measured ==
  /\ IsFiniteSet(DOMAIN batches) /\ DOMAIN AllBytes = DOMAIN batches
  /\ \A i \in DOMAIN batches : /\ AllBytes[i] = PromptBytes(job, i, batches[i])
                               /\ AllBytes[i] \in Nat
  /\ \A i : OtherBytes(i) \in Nat

LEMMA BytesOfAll == IInv => Measured
<1> SUFFICES ASSUME IInv PROVE Measured
  OBVIOUS
<1>1. /\ job \in Job /\ policy \in Policy /\ policy.maxBatches \in Nat
      /\ Len(batches) \in Nat /\ DOMAIN batches = 1 .. Len(batches)
      /\ Len(batches) <= policy.maxBatches /\ batches \in Seq(Batch)
  BY Inputs DEF IInv, TypeOK, PolicyType
<1>2. IsFiniteSet(DOMAIN batches)
  BY <1>1, FS_Interval
<1>3. ASSUME NEW i \in DOMAIN batches PROVE PromptBytes(job, i, batches[i]) \in Nat
  <2>1. i \in 1 .. policy.maxBatches + 1
    BY <1>1
  <2>2. IsRequest(i, batches[i])
    BY <1>1, <2>1, BatchParts DEF IInv, UnitsFinite, IsRequest
  <2> QED BY <1>1, <2>2, BytesType
<1>4. DOMAIN AllBytes = DOMAIN batches
      /\ \A i \in DOMAIN batches : AllBytes[i] = PromptBytes(job, i, batches[i])
  BY DEF AllBytes
<1>5. \A i \in DOMAIN batches : AllBytes[i] \in Nat
  BY <1>3, <1>4
<1>6. ASSUME NEW i PROVE OtherBytes(i) \in Nat
  <2>1. IsFiniteSet(DOMAIN batches \ {i})
    BY <1>2, FS_Subset
  <2>2. \A x \in DOMAIN batches \ {i} : AllBytes[x] \in Nat
    BY <1>5
  <2> QED BY <2>1, <2>2, SumType DEF OtherBytes
<1> QED BY <1>2, <1>4, <1>5, <1>6 DEF Measured

(***************************************************************************)
(* A request that the lower bound refuses would have been refused by the   *)
(* measured bytes too: the early answer loses no place for a unit.         *)
(***************************************************************************)
THEOREM EarlyIsSafe == Spec => []EarlyRejectIsSafe
<1>1. ASSUME IInv PROVE EarlyRejectIsSafe
  <2>1. ASSUME Looking, NEW i \in Candidates, NEW p \in Placed, NEW S \in SUBSET Unit,
               p.unit = unit, Room(i, PromptBytes(job, i, With(BatchAt(i), p, S)))
        PROVE  Room(i, Estimate(i, BatchAt(i), p, S))
    <3>1. OtherBytes(i) \in Nat
      BY <1>1, BytesOfAll DEF Measured
    <3>2. policy.maxPromptBytes \in Nat /\ policy.maxTotalPromptBytes \in Nat
      BY <1>1, Inputs DEF IInv, TypeOK, PolicyType
    <3>3. /\ Estimate(i, BatchAt(i), p, S) \in Nat
          /\ PromptBytes(job, i, With(BatchAt(i), p, S)) \in Nat
          /\ Estimate(i, BatchAt(i), p, S) <= PromptBytes(job, i, With(BatchAt(i), p, S))
      BY <1>1, <2>1, EstimateIsLow
    <3> QED BY <2>1, <3>1, <3>2, <3>3 DEF Room
  <2>2. ASSUME Looking
        PROVE  /\ Whole(unit) \in Placed /\ Whole(unit).unit = unit
               /\ {unit} \cup Context(unit) \in SUBSET Unit
               /\ Alone(unit) \in Placed /\ Alone(unit).unit = unit
               /\ {unit} \in SUBSET Unit
    BY <1>1, <2>2, Tried
  <2> QED BY <2>1, <2>2 DEF EarlyRejectIsSafe
<1>2. QED  BY <1>1, Start0, StepKeeps, PTL DEF Spec

\* A placement is measured with the bytes of the other requests.
LEMMA PlaceTotal ==
  ASSUME IInv, IInv', Looking, UNCHANGED inputs, NEW p \in Placed, NEW S \in SUBSET Unit,
         Place(p, S)
  PROVE  TotalWithinPolicy'
<1>1. PICK f \in Fitting(p, S) :
        batches' = [i \in DOMAIN batches \cup {f} |->
                      IF i = f THEN With(BatchAt(i), p, S) ELSE batches[i]]
  BY DEF Place
<1>2. TypeOK /\ job' = job /\ policy' = policy
  BY DEF IInv, inputs
<1>3. /\ DOMAIN batches' = DOMAIN batches \cup {f}
      /\ \A i \in DOMAIN batches \ {f} : batches'[i] = batches[i]
      /\ Room(f, PromptBytes(job, f, batches'[f]))
  BY <1>1, <1>2, PlaceShape
<1> DEFINE new == AllBytes'
           rest == DOMAIN batches \ {f}
<1>4. /\ IsFiniteSet(DOMAIN batches') /\ DOMAIN new = DOMAIN batches'
      /\ \A i \in DOMAIN batches' : new[i] = PromptBytes(job, i, batches'[i]) /\ new[i] \in Nat
  <2>1. Measured'
    BY BytesOfAll, PTL
  <2> QED BY <1>2, <2>1 DEF Measured
<1>5. /\ IsFiniteSet(rest)
      /\ \A i \in rest : AllBytes[i] = PromptBytes(job, i, batches[i]) /\ AllBytes[i] \in Nat
  BY BytesOfAll, FS_Subset DEF Measured
<1>6. (DOMAIN batches') \ {f} = rest /\ f \in DOMAIN batches'
  BY <1>3
<1>7. SumFunctionOnSet(new, DOMAIN batches') = new[f] + SumFunctionOnSet(new, rest)
  <2>1. \A i \in DOMAIN batches' : new[i] \in Int
    BY <1>4
  <2> HIDE DEF new, rest
  <2> QED BY <1>4, <1>6, <2>1, SumRemove
<1>8. SumFunctionOnSet(new, rest) = SumFunctionOnSet(AllBytes, rest)
  <2>1. \A i \in rest : new[i] = AllBytes[i]
    BY <1>3, <1>4, <1>5
  <2> HIDE DEF new, rest
  <2> QED BY <1>5, <2>1, SumEqual
<1>9. OtherBytes(f) = SumFunctionOnSet(AllBytes, rest)
  BY DEF OtherBytes
<1>10. OtherBytes(f) + new[f] <= policy.maxTotalPromptBytes
  BY <1>3, <1>4, <1>6 DEF Room
<1>11. OtherBytes(f) \in Nat /\ new[f] \in Nat
  BY <1>4, <1>6, BytesOfAll DEF Measured
<1>12. SumFunctionOnSet(new, DOMAIN batches') <= policy'.maxTotalPromptBytes
  <2> HIDE DEF new, rest
  <2> QED BY <1>2, <1>7, <1>8, <1>9, <1>10, <1>11
<1>13. SumFunction(new) = SumFunctionOnSet(new, DOMAIN batches')
  <2> HIDE DEF new
  <2> QED BY <1>4 DEF SumFunction
<1> QED BY <1>12, <1>13 DEF TotalWithinPolicy

(***************************************************************************)
(* The requests together never have more bytes than the policy allows in   *)
(* all.                                                                    *)
(***************************************************************************)
THEOREM TotalLimited == Spec => []TotalWithinPolicy
<1>1. Init => TotalWithinPolicy
  BY DEF Init, TotalWithinPolicy
<1>2. ASSUME IInv, IInv', TotalWithinPolicy, [Next]_vars PROVE TotalWithinPolicy'
  <2>1. CASE PlaceWhole
    <3>1. /\ Looking /\ Place(Whole(unit), {unit} \cup Context(unit)) /\ UNCHANGED inputs
      BY <2>1 DEF PlaceWhole, Place
    <3> QED BY <1>2, <3>1, Tried, PlaceTotal
  <2>2. CASE PlaceAlone
    <3>1. Looking /\ Place(Alone(unit), {unit}) /\ UNCHANGED inputs
      BY <2>2 DEF PlaceAlone, Place
    <3> QED BY <1>2, <3>1, Tried, PlaceTotal
  <2>3. CASE UNCHANGED <<inputs, batches>>
    BY <1>2, <2>3 DEF TotalWithinPolicy, AllBytes, inputs
  <2>4. QED
    BY <1>2, <2>1, <2>2, <2>3
       DEF Next, PlanStep, Begin, SkipFull, SkipFiltered, Reject, Count, Finish, Answer, vars
<1>3. QED  BY <1>1, <1>2, Start0, StepKeeps, PTL DEF Spec
=============================================================================
