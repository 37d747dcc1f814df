----------------------------- MODULE SemanticStage -----------------------------
(***************************************************************************)
(* The optional stage that asks a provider: which execution policy the     *)
(* options and the operator profile make, which files go into the prompt   *)
(* and within which budget, and what of the answer enters the report.  The *)
(* call itself is AcpClient.                                               *)
(***************************************************************************)
EXTENDS Integers, Sequences, SequencesExt, FiniteSetsExt

CONSTANTS
  TopDir,      \* the top directory of each file, or the file itself
  Lines,       \* its non-blank lines
  Bytes,       \* its section of the prompt, in bytes
  NoteBytes,   \* the line that counts the omitted files, without the number
  Radix,       \* of that number: 10, or less on a small instance
  FixedBytes,  \* the prompt without any file
  Unset, Elsewhere, Dangling

Refused == [enabled |-> FALSE, refused |-> TRUE]

\* An option left out takes the value of the profile.
Or(option, default) == IF option # Unset THEN option ELSE default

\* parseLlmExecutionPolicy; limits stands for the two --llm-max options.
ParseLlmExecutionPolicy(options, llm, dryRun) ==
  LET provider == Or(options.provider, IF llm.provider = "none" THEN Unset ELSE llm.provider)
      chosen == [provider |-> provider, exec |-> Or(options.exec, llm.exec),
                 scope |-> Or(options.scope, llm.scope),
                 limits |-> Or(options.limits, llm.limits)]
      runtime == {chosen.scope, chosen.limits} \ {Unset}
  IN IF \/ options.provider = "none"
        \/ provider = Unset /\ (chosen.exec # Unset \/ (~dryRun /\ runtime # {}))
     THEN Refused
     ELSE [enabled |-> provider # Unset, refused |-> FALSE, provider |-> provider,
           exec |-> chosen.exec, scope |-> Or(chosen.scope, "cluster-context"),
           maxFiles |-> IF chosen.limits = Unset THEN 20 ELSE chosen.limits.files,
           maxBytes |-> IF chosen.limits = Unset THEN 80000 ELSE chosen.limits.bytes]

-----------------------------------------------------------------------------
(* The prompt.                                                             *)

InScope(file, paths, scope) ==
  CASE scope = "changed" -> file \in paths
    [] scope = "cluster-context" ->
         file \in paths \/ \E e \in paths : TopDir[e] # e /\ TopDir[e] = TopDir[file]
    [] OTHER -> TRUE

InScopeOf(files, paths, scope) == {f \in files : InScope(f, paths, scope)}

\* The longest first, files of one length by path.
Before(f, g) == Lines[f] > Lines[g] \/ (Lines[f] = Lines[g] /\ f < g)
Rank(f, S)   == Cardinality({g \in S : Before(g, f)})

\* selectLlmCandidateFiles: the first maxFiles in that order.
SelectLlmCandidateFiles(files, paths, policy) ==
  LET inScope == InScopeOf(files, paths, policy.scope)
  IN [k \in 1 .. Min({Cardinality(inScope), policy.maxFiles}) |->
        CHOOSE f \in inScope : Rank(f, inScope) = k - 1]

Size(sections) == SumFunction([k \in DOMAIN sections |-> Bytes[sections[k]]])

\* The files that fit, in their order; a smaller one may still fit after one
\* that does not.
Take(in, f, limit) == IF Size(in) + Bytes[f] > limit THEN in ELSE Append(in, f)

Fitting(files, limit) ==
  LET in[k \in 0 .. Len(files)] ==
        IF k = 0 THEN <<>> ELSE Take(in[k - 1], files[k], limit)
  IN in[Len(files)]

\* The digits of the number n are the powers of the radix up to n.
Digits(n) == Cardinality({k \in 1 .. n : \E i \in 0 .. n : k = Radix ^ i})
Note(omitted) == IF omitted = 0 THEN 0 ELSE NoteBytes + Digits(omitted)

\* As if the note were added without making room for it (for a mutation).
BuildContextPacketNoted(files, limit) ==
  LET fitting == Fitting(files, limit)
      omitted == Len(files) - Len(fitting)
  IN [included |-> fitting, omitted |-> omitted,
      bytes |-> Size(fitting) + Note(omitted)]

\* buildContextPacket: what does not fit is left out, and then as much as
\* the note on the files left out needs.
BuildContextPacket(files, limit) ==
  LET fitting == Fitting(files, limit)
      Rendered(k) == Size(SubSeq(fitting, 1, k)) + Note(Len(files) - k)
      kept == Max({0} \cup {k \in 1 .. Len(fitting) : Rendered(k) <= limit})
  IN [included |-> SubSeq(fitting, 1, kept),
      omitted |-> Len(files) - kept,
      bytes |-> IF Rendered(kept) <= limit THEN Rendered(kept) ELSE 0]

NoPrompt == [included |-> <<>>, omitted |-> 0, bytes |-> 0]
\* buildBudgetedSemanticPrompt throws when the fixed part alone is too long.
FixedPartFits(policy) == FixedBytes <= policy.maxBytes

BuildBudgetedSemanticPrompt(files, paths, policy) ==
  LET packet == BuildContextPacket(SelectLlmCandidateFiles(files, paths, policy),
                                   policy.maxBytes - FixedBytes)
  IN [packet EXCEPT !.bytes = @ + FixedBytes]

-----------------------------------------------------------------------------
(* The answer: the bracketed pieces of its text, the fenced ones first and *)
(* then by where they start, each with the findings it holds if it parses. *)
(* The id of a finding is left out or a number n, for "finding:semantic:n". *)

\* parseSemanticResponse
NoArray == [parses |-> FALSE, schema |-> FALSE, findings |-> <<>>]

FirstArray(pieces) ==
  Head(Append(SelectSeq(pieces, LAMBDA piece : piece.parses), NoArray))

\* validateSemanticFindings: one finding that does not fit rejects them all.
Fits(finding, files, evidence) ==
  (finding.path # Unset => finding.path \in files) /\ finding.refs \subseteq evidence

OnAxis(findings) == SelectSeq(findings, LAMBDA x : x.axis = "semantic-ambiguity")

\* A finding without an id is named by its place.
Named(findings) == [k \in DOMAIN findings |-> [findings[k] EXCEPT !.id = Or(@, k)]]

\* What the schema of a report refuses.
Repeated(findings) ==
  \E j, k \in DOMAIN findings : j # k /\ findings[j].id = findings[k].id

Unavailable == [status |-> "unavailable", findings |-> <<>>]

\* runSemanticAnalysis, when the provider was asked and said something.
Analyzed(pieces, files, evidence) ==
  LET raw == FirstArray(pieces)
      findings == OnAxis(raw.findings)
  IN IF ~raw.schema \/ \E k \in DOMAIN findings : ~Fits(findings[k], files, evidence)
     THEN Unavailable
     ELSE [status |-> "available", findings |-> Named(findings)]
=============================================================================
