-------------------------- MODULE RunCommit_proofs --------------------------
(***************************************************************************)
(* Proofs about RunCommit for every pool of threads, every set of runs,    *)
(* signatures and historical entries, and every threshold.                 *)
(***************************************************************************)
EXTENDS RunCommit, TLAPS

----------------------------------------------------------------------------
(* The rules.                                                              *)

(* A pattern of real runs is proposed at the threshold and not before; an  *)
(* entry that is not there is never proposed.                              *)
LEMMA ProposalNeedsThreshold ==
  ASSUME NEW c \in Cases, NEW pattern \in Pattern, NEW isTrusted \in BOOLEAN,
         NEW validatedNow \in BOOLEAN,
         Decision(c.exception, c.action, pattern, isTrusted, validatedNow) \in ProposalLabels
  PROVE  /\ pattern.real => pattern.observed >= Threshold
         /\ pattern # NoPattern
<1>1. pattern.real => pattern.observed >= Threshold
  BY ThresholdAssumption DEF Decision, RealDecision, ProposalLabels, Pattern
<1>2. ASSUME pattern = NoPattern PROVE FALSE
  <2>1. LegacyDecision(pattern, validatedNow) = "KEEP_RPA_MODE"
    BY <1>2 DEF LegacyDecision, ReadyForApi, NoPattern
  <2>2. ~pattern.real
    BY <1>2 DEF NoPattern
  <2> QED
    BY <2>1, <2>2 DEF Decision, ProposalLabels
<1> QED
  BY <1>1, <1>2

LEMMA DecisionType ==
  ASSUME NEW exception, NEW action, NEW pattern, NEW isTrusted, NEW validatedNow
  PROVE  Decision(exception, action, pattern, isTrusted, validatedNow) \in Labels
BY DEF Decision, RealDecision, LegacyDecision, Labels, ProposalLabels

LEMMA IncrementedPattern ==
  ASSUME NEW pattern \in Pattern, NEW validation
  PROVE  /\ Incremented(pattern, validation) \in Pattern
         /\ Incremented(pattern, validation).real
         /\ Incremented(pattern, validation).observed = pattern.observed + 1
<1> DEFINE bump == IF validation = "passed" THEN 1 ELSE 0
<1>1. bump \in Nat
  OBVIOUS
<1>2. Incremented(pattern, validation) =
        [pattern EXCEPT !.real = TRUE,
                        !.observed = pattern.observed + 1,
                        !.passes = pattern.passes + bump]
  BY DEF Incremented
<1> HIDE DEF bump
<1>3. pattern.observed + 1 \in Nat /\ pattern.passes + bump \in Nat
  BY <1>1 DEF Pattern
<1>4. Incremented(pattern, validation) \in Pattern
  BY <1>2, <1>3 DEF Pattern
<1>5. Incremented(pattern, validation).real = TRUE
  BY <1>2 DEF Pattern
<1>6. Incremented(pattern, validation).observed = pattern.observed + 1
  BY <1>2 DEF Pattern
<1> QED
  BY <1>4, <1>5, <1>6

LEMMA BasePattern ==
  ASSUME NEW s \in Signatures
  PROVE  /\ Base(s) \in Pattern
         /\ Base(s).observed = Seed[CaseOf[s]].observed
<1>1. Seed[CaseOf[s]] \in Pattern
  BY CommitAssumptions
<1> QED
  BY <1>1 DEF Base, NormalizedSeed, Pattern

LEMMA KindOfLabel ==
  ASSUME NEW label \in ProposalLabels
  PROVE  KindOf[label] \in Kinds
BY DEF KindOf, ProposalLabels, Kinds

LEMMA NoPatternType == NoPattern \in Pattern
BY DEF NoPattern, Pattern

----------------------------------------------------------------------------
(* The inductive invariant. A thread that is about to save a pattern has   *)
(* counted no more than the commits of its signature, its own included,    *)
(* and one that files a proposal has seen the evidence the proposal needs. *)

Saving    == {"loaded", "opened"}
Filing    == {"decided", "counted", "emptied", "numbered", "filing", "filed"}
Numbering == Filing \ {"decided"}

Rested(c) ==
  Seed[c] = NoPattern => \E s \in Signatures : CaseOf[s] = c /\ commits[s] >= Threshold

CaseOfRun(r) == CaseOf[SignatureOf[r]]

Sound(w) ==
  /\ w.pc \in Saving =>
       /\ w.pattern.real
       /\ w.pattern.observed <=
            Base(SignatureOf[w.run]).observed + commits[SignatureOf[w.run]]
  /\ w.pc \in Filing => w.label \in ProposalLabels /\ Rested(CaseOfRun(w.run))
  /\ w.pc \in Numbering => w.counters[KindOf[w.label]] > 0

PatternsReal == \A s \in Signatures : Readable(patterns[s]) => patterns[s].content.real

ProposalsRested ==
  \A id \in DOMAIN proposals : Readable(proposals[id]) =>
    Rested(CaseOfRun(proposals[id].content.run))

EvidenceInv ==
  /\ CommitTypeOK
  /\ CountNeverAhead
  /\ PatternsReal
  /\ ProposalsRested
  /\ \A t \in Threads : Sound(thread[t])

LEMMA IdleIsSound ==
  /\ IdleThread \in Commit
  /\ Sound(IdleThread)
  /\ Sound(IdleThread)'
<1>1. (CHOOSE r \in Runs : TRUE) \in Runs
  BY CommitAssumptions
<1>2. NoCounters \in Counters
  BY DEF NoCounters, Counters
<1>3. IdleThread \in Commit
  BY <1>1, <1>2, NoPatternType DEF IdleThread, Commit, Steps
<1>4. IdleThread.pc = "idle"
  BY DEF IdleThread
<1> QED
  BY <1>3, <1>4 DEF Sound, Saving, Filing, Numbering

LEMMA EvidenceInit == CommitInit => EvidenceInv
<1> SUFFICES ASSUME CommitInit PROVE EvidenceInv
  OBVIOUS
<1>1. CommitTypeOK
  <2>1. patterns \in [Signatures -> File(Pattern)]
    BY NoPatternType DEF CommitInit, NoFile, File, FileStates
  <2>2. sequence \in File(Counters)
    BY DEF CommitInit, NoFile, File, FileStates, Counters, NoCounters
  <2>3. DOMAIN proposals = {}
    BY DEF CommitInit
  <2>4. decisions \in [Runs -> Decided]
    BY DEF CommitInit, Undecided, Decided
  <2>5. thread \in [Threads -> Commit]
    BY IdleIsSound DEF CommitInit
  <2> QED
    BY <2>1, <2>2, <2>3, <2>4, <2>5 DEF CommitInit, CommitTypeOK
<1>2. CountNeverAhead /\ PatternsReal
  BY DEF CommitInit, CountNeverAhead, PatternsReal, NoFile, Readable
<1>3. ProposalsRested
  BY DEF CommitInit, ProposalsRested
<1>4. \A t \in Threads : Sound(thread[t])
  BY IdleIsSound DEF CommitInit
<1> QED
  BY <1>1, <1>2, <1>3, <1>4 DEF EvidenceInv

----------------------------------------------------------------------------
(* Each step keeps it.                                                     *)

(* A file that is opened or written holds what it held, or what is written *)
(* once it can be read.                                                    *)
LEMMA FileSteps ==
  ASSUME NEW Values, NEW file \in File(Values), NEW value \in Values,
         NEW nothing \in Values
  PROVE  /\ Truncated(file) \in File(Values) /\ ~Readable(Truncated(file))
         /\ \A f \in Written(file, value, nothing) :
              f \in File(Values) /\ (Readable(f) => f.content = value)
         /\ NoFile(nothing) \in File(Values) /\ ~Readable(NoFile(nothing))
         /\ \A default \in Values : Load(file, default) \in Values
BY DEF File, FileStates, Truncated, Written, WholeFile, Readable, NoFile, Load

LEMMA CommitFields ==
  ASSUME CommitTypeOK, NEW t \in Threads
  PROVE  /\ thread[t] \in Commit
         /\ thread[t].run \in Runs
         /\ Signature(t) \in Signatures
         /\ CaseOf[Signature(t)] \in Cases
BY CommitAssumptions DEF CommitTypeOK, Commit, Signature

(* Steps that change neither the history nor the pattern files keep what   *)
(* the other threads rely on.                                              *)
LEMMA OthersStaySound ==
  ASSUME EvidenceInv, UNCHANGED commits, NEW t \in Threads, NEW w \in Commit,
         thread' = [thread EXCEPT ![t] = w], Sound(w)
  PROVE  /\ thread' \in [Threads -> Commit]
         /\ \A u \in Threads : Sound(thread[u])'
<1>1. thread \in [Threads -> Commit]
  BY DEF EvidenceInv, CommitTypeOK
<1>2. ASSUME NEW u \in Threads PROVE Sound(thread[u])'
  <2>1. thread'[u] = w \/ thread'[u] = thread[u]
    BY <1>1
  <2>2. Sound(thread[u])
    BY DEF EvidenceInv
  <2> QED
    BY <2>1, <2>2 DEF Sound, Rested
<1> QED
  BY <1>1, <1>2

LEMMA LoadPatternKeeps ==
  ASSUME EvidenceInv, NEW t \in Threads, NEW r \in Runs, LoadPattern(t, r)
  PROVE  EvidenceInv'
<1> DEFINE s == SignatureOf[r]
           w == [thread[t] EXCEPT !.pc = "loaded", !.run = r,
                   !.pattern = Incremented(Loaded(s), ValidationOf[r])]
<1>1. s \in Signatures /\ thread[t] \in Commit /\ thread \in [Threads -> Commit]
  BY CommitAssumptions DEF EvidenceInv, CommitTypeOK
<1>2. /\ thread' = [thread EXCEPT ![t] = w]
      /\ commits' = [commits EXCEPT ![s] = commits[s] + 1]
      /\ disturbed' \in BOOLEAN
      /\ UNCHANGED <<patterns, sequence, proposals, decisions, trusted>>
  BY DEF LoadPattern, EvidenceInv, CommitTypeOK
<1>3. /\ commits' \in [Signatures -> Nat]
      /\ \A u \in Signatures : commits'[u] >= commits[u]
      /\ commits'[s] = commits[s] + 1
  BY <1>1, <1>2 DEF EvidenceInv, CommitTypeOK
<1>4. /\ Loaded(s) \in Pattern
      /\ Loaded(s).observed <= Base(s).observed + commits[s]
  <2>1. patterns[s] \in File(Pattern)
    BY <1>1 DEF EvidenceInv, CommitTypeOK
  <2>2. commits[s] \in Nat /\ Base(s).observed \in Nat
    BY <1>1, BasePattern DEF EvidenceInv, CommitTypeOK, Pattern
  <2>3. CASE Readable(patterns[s])
    BY <1>1, <2>1, <2>3 DEF Loaded, Load, File, EvidenceInv, CountNeverAhead
  <2>4. CASE ~Readable(patterns[s])
    BY <1>1, <2>2, <2>4, BasePattern DEF Loaded, Load
  <2> QED
    BY <2>3, <2>4
<1>5. w \in Commit /\ w.pc = "loaded" /\ w.run = r
      /\ w.pattern.real /\ w.pattern.observed = Loaded(s).observed + 1
  BY <1>1, <1>4, IncrementedPattern DEF Commit, Steps
<1>6. \A c \in Cases : Rested(c) => Rested(c)'
  <2>1. ASSUME NEW u \in Signatures, commits[u] >= Threshold PROVE commits'[u] >= Threshold
    BY <1>3, <2>1, ThresholdAssumption DEF EvidenceInv, CommitTypeOK
  <2> QED
    BY <2>1 DEF Rested
<1>7. ASSUME NEW u \in Threads PROVE Sound(thread[u])'
  <2>1. CASE u = t
    <3>1. thread'[u] = w
      BY <1>1, <1>2, <2>1
    <3>2. w.pattern.observed <= Base(s).observed + commits'[s]
      BY <1>1, <1>3, <1>4, <1>5, BasePattern DEF EvidenceInv, CommitTypeOK, Pattern
    <3> QED
      BY <1>5, <3>1, <3>2 DEF Sound, Saving, Filing, Numbering, Base
  <2>2. CASE u # t
    <3>1. thread'[u] = thread[u] /\ Sound(thread[u]) /\ thread[u] \in Commit
      BY <1>1, <1>2, <2>2 DEF EvidenceInv
    <3> DEFINE v == SignatureOf[thread[u].run]
    <3>2. v \in Signatures /\ CaseOfRun(thread[u].run) \in Cases
      BY <3>1, CommitAssumptions DEF Commit, CaseOfRun
    <3>3. ASSUME thread[u].pc \in Saving
          PROVE  thread[u].pattern.observed <= Base(v).observed + commits'[v]
      <4>1. thread[u].pattern.observed \in Nat
        BY <3>1 DEF Commit, Pattern
      <4>2. Base(v).observed \in Nat /\ commits[v] \in Nat /\ commits'[v] \in Nat
        BY <1>3, <3>2, BasePattern DEF Pattern, EvidenceInv, CommitTypeOK
      <4>3. commits'[v] >= commits[v]
        BY <1>3, <3>2
      <4> QED
        BY <3>1, <3>3, <4>1, <4>2, <4>3 DEF Sound
    <3>4. Rested(CaseOfRun(thread[u].run)) => Rested(CaseOfRun(thread[u].run))'
      BY <1>6, <3>1, <3>2 DEF CaseOfRun, Rested
    <3> QED
      BY <3>1, <3>3, <3>4 DEF Sound, Base, CaseOfRun
  <2> QED
    BY <2>1, <2>2
<1>8. CommitTypeOK'
  BY <1>1, <1>2, <1>3, <1>5 DEF EvidenceInv, CommitTypeOK
<1>9. CountNeverAhead'
  <2> SUFFICES ASSUME NEW u \in Signatures, Readable(patterns[u])
               PROVE  patterns[u].content.observed <= Base(u).observed + commits'[u]
    BY <1>2 DEF CountNeverAhead, Base
  <2>1. patterns[u].content.observed <= Base(u).observed + commits[u]
    BY DEF EvidenceInv, CountNeverAhead
  <2>2. /\ patterns[u].content.observed \in Nat /\ Base(u).observed \in Nat
        /\ commits[u] \in Nat /\ commits'[u] \in Nat
    BY <1>3, BasePattern DEF EvidenceInv, CommitTypeOK, File, Pattern
  <2> QED
    BY <1>3, <2>1, <2>2
<1>10. PatternsReal' /\ ProposalsRested'
  <2>1. PatternsReal'
    BY <1>2 DEF EvidenceInv, PatternsReal
  <2>2. ASSUME NEW id \in DOMAIN proposals, Readable(proposals[id])
        PROVE  Rested(CaseOfRun(proposals[id].content.run))'
    <3>1. proposals[id].content.run \in Runs
      BY DEF EvidenceInv, CommitTypeOK, File, Proposal
    <3>2. CaseOfRun(proposals[id].content.run) \in Cases
      BY <3>1, CommitAssumptions DEF CaseOfRun
    <3>3. Rested(CaseOfRun(proposals[id].content.run))
      BY <2>2 DEF EvidenceInv, ProposalsRested
    <3> QED
      BY <1>2, <1>6, <3>2, <3>3 DEF CaseOfRun
  <2> QED
    BY <1>2, <2>1, <2>2 DEF ProposalsRested
<1> QED
  BY <1>7, <1>8, <1>9, <1>10 DEF EvidenceInv

LEMMA OpenPatternKeeps ==
  ASSUME EvidenceInv, NEW t \in Threads, OpenPattern(t)
  PROVE  EvidenceInv'
<1> DEFINE w == [thread[t] EXCEPT !.pc = "opened"]
           s == Signature(t)
<1>1. s \in Signatures /\ thread[t] \in Commit /\ patterns[s] \in File(Pattern)
  BY CommitFields DEF EvidenceInv, CommitTypeOK
<1>2. /\ thread' = [thread EXCEPT ![t] = w]
      /\ UNCHANGED <<sequence, proposals, decisions, trusted, commits, disturbed>>
      /\ patterns' = [patterns EXCEPT ![s] = Truncated(patterns[s])]
  BY DEF OpenPattern, Go
<1>3. w \in Commit /\ Sound(w)
  <2>1. Sound(thread[t]) /\ thread[t].pc = "loaded"
    BY DEF EvidenceInv, OpenPattern
  <2> QED
    BY <1>1, <2>1 DEF Commit, Steps, Sound, Saving, Filing, Numbering
<1>4. thread' \in [Threads -> Commit] /\ \A u \in Threads : Sound(thread[u])'
  BY <1>2, <1>3, OthersStaySound
<1>5. /\ patterns' \in [Signatures -> File(Pattern)]
      /\ \A u \in Signatures : Readable(patterns'[u]) => patterns'[u] = patterns[u]
  BY <1>1, <1>2, FileSteps, NoPatternType DEF EvidenceInv, CommitTypeOK
<1>6. CountNeverAhead' /\ PatternsReal'
  BY <1>2, <1>5 DEF EvidenceInv, CountNeverAhead, PatternsReal, Base
<1>7. ProposalsRested'
  BY <1>2 DEF EvidenceInv, ProposalsRested, Rested
<1>8. CommitTypeOK'
  BY <1>2, <1>4, <1>5 DEF EvidenceInv, CommitTypeOK
<1> QED
  BY <1>4, <1>6, <1>7, <1>8 DEF EvidenceInv

LEMMA SavePatternKeeps ==
  ASSUME EvidenceInv, NEW t \in Threads, SavePattern(t)
  PROVE  EvidenceInv'
<1> DEFINE w == [thread[t] EXCEPT !.pc = "saved"]
           s == Signature(t)
<1>1. s \in Signatures /\ thread[t] \in Commit /\ patterns[s] \in File(Pattern)
  BY CommitFields DEF EvidenceInv, CommitTypeOK
<1>2. PICK file \in Written(patterns[s], thread[t].pattern, NoPattern) :
        patterns' = [patterns EXCEPT ![s] = file]
  BY DEF SavePattern
<1>3. /\ thread' = [thread EXCEPT ![t] = w]
      /\ UNCHANGED <<sequence, proposals, decisions, trusted, commits, disturbed>>
  BY DEF SavePattern, Go
<1>4. Sound(thread[t]) /\ thread[t].pc = "opened" /\ thread[t].pattern \in Pattern
  BY <1>1 DEF EvidenceInv, SavePattern, Commit
<1>5. w \in Commit /\ Sound(w)
  BY <1>1, <1>4 DEF Commit, Steps, Sound, Saving, Filing, Numbering
<1>6. thread' \in [Threads -> Commit] /\ \A u \in Threads : Sound(thread[u])'
  BY <1>3, <1>5, OthersStaySound
<1>7. file \in File(Pattern) /\ (Readable(file) => file.content = thread[t].pattern)
  <2>1. \/ file = WholeFile(thread[t].pattern)
        \/ file = [state |-> "mixed", content |-> NoPattern]
    BY DEF Written
  <2> QED
    BY <1>4, <2>1, NoPatternType DEF WholeFile, File, FileStates, Readable
<1>8. thread[t].pattern.real /\ thread[t].pattern.observed <= Base(s).observed + commits[s]
  BY <1>4 DEF Sound, Saving, Signature
<1>9. /\ patterns' \in [Signatures -> File(Pattern)]
      /\ \A u \in Signatures : patterns'[u] = IF u = s THEN file ELSE patterns[u]
  BY <1>1, <1>2, <1>7 DEF EvidenceInv, CommitTypeOK
<1>10. CountNeverAhead'
  <2> SUFFICES ASSUME NEW u \in Signatures, Readable(patterns'[u])
               PROVE  patterns'[u].content.observed <= Base(u).observed + commits[u]
    BY <1>3 DEF CountNeverAhead, Base
  <2>1. CASE u = s
    BY <1>7, <1>8, <1>9, <2>1
  <2>2. CASE u # s
    BY <1>9, <2>2 DEF EvidenceInv, CountNeverAhead
  <2> QED
    BY <2>1, <2>2
<1>11. PatternsReal'
  <2> SUFFICES ASSUME NEW u \in Signatures, Readable(patterns'[u])
               PROVE  patterns'[u].content.real
    BY DEF PatternsReal
  <2>1. CASE u = s
    BY <1>7, <1>8, <1>9, <2>1
  <2>2. CASE u # s
    BY <1>9, <2>2 DEF EvidenceInv, PatternsReal
  <2> QED
    BY <2>1, <2>2
<1>12. ProposalsRested'
  BY <1>3 DEF EvidenceInv, ProposalsRested, Rested
<1>13. CommitTypeOK'
  BY <1>3, <1>6, <1>9 DEF EvidenceInv, CommitTypeOK
<1> QED
  BY <1>6, <1>10, <1>11, <1>12, <1>13 DEF EvidenceInv

(* The evidence the evaluator reads is a pattern no further than its       *)
(* commits, or the historical entry.                                       *)
LEMMA EvidenceIsCounted ==
  ASSUME EvidenceInv, NEW c \in Cases, NEW p \in Evidence(c)
  PROVE  /\ p \in Pattern
         /\ \/ p = Seed[c]
            \/ /\ p.real
               /\ \E s \in Signatures :
                    CaseOf[s] = c /\ p.observed <= Seed[c].observed + commits[s]
<1>1. CASE p = Seed[c]
  BY <1>1, CommitAssumptions
<1>2. CASE p # Seed[c]
  <2>1. PICK s \in Signatures :
          CaseOf[s] = c /\ Readable(patterns[s]) /\ p = patterns[s].content
    BY <1>2, CommitAssumptions DEF Evidence, RealPatterns
  <2>2. p \in Pattern
    BY <2>1 DEF EvidenceInv, CommitTypeOK, File
  <2>3. p.real
    BY <2>1 DEF EvidenceInv, PatternsReal
  <2>4. p.observed <= Seed[c].observed + commits[s]
    BY <2>1, BasePattern DEF EvidenceInv, CountNeverAhead
  <2> QED
    BY <2>1, <2>2, <2>3, <2>4
<1> QED
  BY <1>1, <1>2

LEMMA EvaluateKeeps ==
  ASSUME EvidenceInv, NEW t \in Threads, Evaluate(t)
  PROVE  EvidenceInv'
<1> DEFINE c == CaseOf[Signature(t)]
           r == thread[t].run
<1>1. /\ c \in Cases /\ thread[t] \in Commit /\ r \in Runs
      /\ thread[t].pc = "saved"
  BY CommitFields DEF EvidenceInv, Evaluate
<1>2. PICK p \in Evidence(c), validatedNow \in BOOLEAN :
        LET label == Decision(c.exception, c.action, p, trusted = c.action, validatedNow)
        IN /\ decisions' = [decisions EXCEPT ![r] = [label |-> label, proposal |-> NoId]]
           /\ \/ /\ label \in ProposalLabels
                 /\ thread' = [thread EXCEPT ![t].pc = "decided", ![t].label = label]
              \/ /\ label \notin ProposalLabels
                 /\ Answer(t)
  BY DEF Evaluate
<1> DEFINE label == Decision(c.exception, c.action, p, trusted = c.action, validatedNow)
<1>3. UNCHANGED <<patterns, sequence, proposals, trusted, commits, disturbed>>
  BY DEF Evaluate
<1>4. label \in Labels
  BY DecisionType
<1>5. decisions' \in [Runs -> Decided]
  <2>1. [label |-> label, proposal |-> NoId] \in Decided
    BY <1>4 DEF Decided
  <2>2. decisions' = [decisions EXCEPT ![r] = [label |-> label, proposal |-> NoId]]
    BY <1>2
  <2> QED
    BY <2>1, <2>2 DEF EvidenceInv, CommitTypeOK
<1>6. PICK w \in Commit : thread' = [thread EXCEPT ![t] = w] /\ Sound(w)
  <2>1. CASE label \in ProposalLabels
    <3> DEFINE v == [thread[t] EXCEPT !.pc = "decided", !.label = label]
    <3>1. thread' = [thread EXCEPT ![t] = v]
      BY <1>2, <2>1 DEF EvidenceInv, CommitTypeOK
    <3>2. v \in Commit /\ v.pc = "decided" /\ v.label = label /\ v.run = r
      BY <1>1, <1>4 DEF Commit, Steps
    <3>3. Rested(c)
      <4> SUFFICES ASSUME Seed[c] = NoPattern
                   PROVE  \E s \in Signatures : CaseOf[s] = c /\ commits[s] >= Threshold
        BY DEF Rested
      <4>1. p \in Pattern
        BY <1>1, EvidenceIsCounted
      <4>2. (p.real => p.observed >= Threshold) /\ p # NoPattern
        BY <1>1, <2>1, <4>1, ProposalNeedsThreshold
      <4>3. PICK s \in Signatures :
              p.real /\ CaseOf[s] = c /\ p.observed <= Seed[c].observed + commits[s]
        BY <1>1, <4>2, EvidenceIsCounted
      <4>4. Seed[c].observed = 0 /\ p.observed \in Nat /\ commits[s] \in Nat
        BY <4>1 DEF NoPattern, Pattern, EvidenceInv, CommitTypeOK
      <4> QED
        BY <4>2, <4>3, <4>4, ThresholdAssumption
    <3>4. Sound(v)
      BY <2>1, <3>2, <3>3 DEF Sound, Saving, Filing, Numbering, CaseOfRun, Signature
    <3> QED
      BY <3>1, <3>2, <3>4
  <2>2. CASE label \notin ProposalLabels
    BY <1>2, <2>2, IdleIsSound DEF Answer
  <2> QED
    BY <2>1, <2>2
<1>7. thread' \in [Threads -> Commit] /\ \A u \in Threads : Sound(thread[u])'
  BY <1>3, <1>6, OthersStaySound
<1>8. CommitTypeOK'
  BY <1>3, <1>5, <1>7 DEF EvidenceInv, CommitTypeOK
<1>9. CountNeverAhead' /\ PatternsReal' /\ ProposalsRested'
  BY <1>3 DEF EvidenceInv, CountNeverAhead, PatternsReal, ProposalsRested, Rested, Base
<1> QED
  BY <1>7, <1>8, <1>9 DEF EvidenceInv

(* What a thread that files a proposal holds.                              *)
LEMMA FilingFields ==
  ASSUME EvidenceInv, NEW t \in Threads, thread[t].pc \in Filing
  PROVE  /\ thread[t] \in Commit /\ thread[t].run \in Runs
         /\ thread[t].label \in ProposalLabels /\ Kind(t) \in Kinds
         /\ thread[t].counters \in Counters
         /\ Rested(CaseOfRun(thread[t].run))
         /\ thread[t].pc \in Numbering => ProposalId(t) \in ProposalIds
<1>1. thread[t] \in Commit /\ Sound(thread[t])
  BY DEF EvidenceInv, CommitTypeOK
<1>2. thread[t].label \in ProposalLabels /\ Rested(CaseOfRun(thread[t].run))
  BY <1>1 DEF Sound
<1>3. Kind(t) \in Kinds
  BY <1>2, KindOfLabel DEF Kind
<1>4. thread[t].run \in Runs /\ thread[t].counters \in Counters
  BY <1>1 DEF Commit
<1>5. ASSUME thread[t].pc \in Numbering PROVE ProposalId(t) \in ProposalIds
  <2>1. thread[t].counters[Kind(t)] \in Nat \ {0}
    BY <1>1, <1>3, <1>4, <1>5 DEF Sound, Counters, Kind
  <2> QED
    BY <1>3, <2>1 DEF ProposalId, ProposalIds
<1> QED
  BY <1>1, <1>2, <1>3, <1>4, <1>5

(* A filing step only moves the thread on and leaves the patterns alone.   *)
LEMMA FilingGoesOn ==
  ASSUME EvidenceInv, NEW t \in Threads, NEW pc \in Filing,
         thread[t].pc \in Filing, pc \in Numbering => thread[t].pc \in Numbering,
         Go(t, pc), UNCHANGED <<patterns, commits>>
  PROVE  /\ thread' \in [Threads -> Commit]
         /\ \A u \in Threads : Sound(thread[u])'
         /\ CountNeverAhead' /\ PatternsReal'
<1> DEFINE w == [thread[t] EXCEPT !.pc = pc]
<1>1. thread[t] \in Commit /\ Sound(thread[t])
  BY DEF EvidenceInv, CommitTypeOK
<1>2. w \in Commit /\ Sound(w)
  BY <1>1 DEF Commit, Steps, Sound, Saving, Filing, Numbering
<1>3. thread' = [thread EXCEPT ![t] = w]
  BY DEF Go
<1>4. thread' \in [Threads -> Commit] /\ \A u \in Threads : Sound(thread[u])'
  BY <1>2, <1>3, OthersStaySound
<1> QED
  BY <1>4 DEF EvidenceInv, CountNeverAhead, PatternsReal, Base

LEMMA ReadSequenceKeeps ==
  ASSUME EvidenceInv, NEW t \in Threads, ReadSequence(t)
  PROVE  EvidenceInv'
<1> DEFINE seen == Load(sequence, NoCounters)
           k == Kind(t)
           new == [seen EXCEPT ![k] = seen[k] + 1]
           w == [thread[t] EXCEPT !.pc = "counted", !.counters = new]
<1>1. thread[t].pc = "decided" /\ thread[t].pc \in Filing
  BY DEF ReadSequence, Filing
<1>2. thread[t] \in Commit /\ Sound(thread[t]) /\ k \in Kinds
  BY <1>1, FilingFields DEF EvidenceInv
<1>3. NoCounters \in Counters
  BY DEF NoCounters, Counters
<1>4. seen \in Counters
  BY <1>3, FileSteps DEF EvidenceInv, CommitTypeOK
<1>5. new \in Counters /\ new[k] > 0
  BY <1>2, <1>4 DEF Counters
<1>6. w \in Commit /\ w.pc = "counted" /\ w.counters = new
      /\ w.label = thread[t].label /\ w.run = thread[t].run
  BY <1>2, <1>5 DEF Commit, Steps
<1>7. Sound(w)
  BY <1>1, <1>2, <1>5, <1>6 DEF Sound, Saving, Filing, Numbering, Kind
<1>8. /\ thread' = [thread EXCEPT ![t] = w]
      /\ UNCHANGED <<patterns, sequence, proposals, decisions, trusted, commits, disturbed>>
  BY DEF ReadSequence, EvidenceInv, CommitTypeOK
<1>9. thread' \in [Threads -> Commit] /\ \A u \in Threads : Sound(thread[u])'
  BY <1>6, <1>7, <1>8, OthersStaySound
<1>10. CommitTypeOK'
  BY <1>8, <1>9 DEF EvidenceInv, CommitTypeOK
<1>11. CountNeverAhead' /\ PatternsReal' /\ ProposalsRested'
  BY <1>8 DEF EvidenceInv, CountNeverAhead, PatternsReal, ProposalsRested, Rested, Base
<1> QED
  BY <1>9, <1>10, <1>11 DEF EvidenceInv

LEMMA SequenceStepsKeep ==
  ASSUME EvidenceInv, NEW t \in Threads, OpenSequence(t) \/ SaveSequence(t)
  PROVE  EvidenceInv'
<1>1. NoCounters \in Counters
  BY DEF NoCounters, Counters
<1>2. thread[t].pc \in Numbering /\ thread[t].pc \in Filing
  BY DEF OpenSequence, SaveSequence, Filing, Numbering
<1>3. sequence' \in File(Counters)
  <2>1. thread[t].counters \in Counters /\ sequence \in File(Counters)
    BY <1>2, FilingFields DEF EvidenceInv, CommitTypeOK
  <2>2. CASE OpenSequence(t)
    BY <1>1, <2>1, <2>2, FileSteps DEF OpenSequence
  <2>3. CASE SaveSequence(t)
    BY <1>1, <2>1, <2>3, FileSteps DEF SaveSequence
  <2> QED
    BY <2>2, <2>3
<1>4. PICK pc \in Numbering : Go(t, pc)
  BY DEF OpenSequence, SaveSequence, Filing, Numbering
<1>5. UNCHANGED <<patterns, proposals, decisions, trusted, commits, disturbed>>
  BY DEF OpenSequence, SaveSequence
<1>6. /\ thread' \in [Threads -> Commit]
      /\ \A u \in Threads : Sound(thread[u])'
      /\ CountNeverAhead' /\ PatternsReal'
  BY <1>2, <1>4, <1>5, FilingGoesOn DEF Numbering
<1>7. CommitTypeOK'
  BY <1>3, <1>5, <1>6 DEF EvidenceInv, CommitTypeOK
<1>8. ProposalsRested'
  BY <1>5 DEF EvidenceInv, ProposalsRested, Rested
<1> QED
  BY <1>6, <1>7, <1>8 DEF EvidenceInv

LEMMA ProposalStepsKeep ==
  ASSUME EvidenceInv, NEW t \in Threads, OpenProposal(t) \/ FileProposal(t)
  PROVE  EvidenceInv'
<1> DEFINE id == ProposalId(t)
           value == [run |-> thread[t].run, observed |-> thread[t].pattern.observed]
<1>1. thread[t].pc \in Numbering /\ thread[t].pc \in Filing
  BY DEF OpenProposal, FileProposal, Filing, Numbering
<1>2. /\ id \in ProposalIds /\ thread[t] \in Commit /\ thread[t].run \in Runs
      /\ Rested(CaseOfRun(thread[t].run))
  BY <1>1, FilingFields
<1>3. value \in Proposal /\ NoProposal \in Proposal
  BY <1>2, CommitAssumptions DEF Proposal, NoProposal, Commit, Pattern
<1>4. ProposalFile(id) \in File(Proposal)
  BY <1>3 DEF ProposalFile, NoFile, File, FileStates, EvidenceInv, CommitTypeOK
<1>5. PICK file \in File(Proposal) :
        /\ PutProposal(id, file)
        /\ Readable(file) => file.content = value
  <2>1. CASE OpenProposal(t)
    BY <1>3, <1>4, <2>1, FileSteps DEF OpenProposal
  <2>2. CASE FileProposal(t)
    <3>1. PICK file \in Written(ProposalFile(id), value, NoProposal) : PutProposal(id, file)
      BY <2>2 DEF FileProposal
    <3>2. file \in File(Proposal) /\ (Readable(file) => file.content = value)
      BY <1>3, <1>4, <3>1 DEF File, Written, WholeFile, Readable, FileStates
    <3> QED
      BY <3>1, <3>2
  <2> QED
    BY <2>1, <2>2
<1>6. PICK pc \in Numbering : Go(t, pc)
  BY DEF OpenProposal, FileProposal, Filing, Numbering
<1>7. UNCHANGED <<patterns, sequence, decisions, trusted, commits, disturbed>>
  BY DEF OpenProposal, FileProposal
<1>8. /\ thread' \in [Threads -> Commit]
      /\ \A u \in Threads : Sound(thread[u])'
      /\ CountNeverAhead' /\ PatternsReal'
  BY <1>1, <1>6, <1>7, FilingGoesOn DEF Numbering
<1>9. /\ DOMAIN proposals' = DOMAIN proposals \cup {id}
      /\ \A i \in DOMAIN proposals' :
           proposals'[i] = IF i = id THEN file ELSE proposals[i]
  BY <1>5 DEF PutProposal
<1>10. CommitTypeOK'
  BY <1>2, <1>7, <1>8, <1>9 DEF EvidenceInv, CommitTypeOK
<1>11. ProposalsRested'
  <2> SUFFICES ASSUME NEW i \in DOMAIN proposals', Readable(proposals'[i])
               PROVE  Rested(CaseOfRun(proposals'[i].content.run))
    BY <1>7 DEF ProposalsRested, Rested
  <2>1. CASE i = id
    BY <1>2, <1>5, <1>9, <2>1
  <2>2. CASE i # id
    BY <1>9, <2>2 DEF EvidenceInv, ProposalsRested
  <2> QED
    BY <2>1, <2>2
<1> QED
  BY <1>8, <1>10, <1>11 DEF EvidenceInv

LEMMA NameProposalKeeps ==
  ASSUME EvidenceInv, NEW t \in Threads, NameProposal(t)
  PROVE  EvidenceInv'
<1>1. thread[t].pc \in Numbering /\ thread[t].pc \in Filing
  BY DEF NameProposal, Filing, Numbering
<1>2. [label |-> thread[t].label, proposal |-> ProposalId(t)] \in Decided
  BY <1>1, FilingFields DEF Decided, Labels
<1>3. /\ thread' = [thread EXCEPT ![t] = IdleThread]
      /\ UNCHANGED <<patterns, sequence, proposals, trusted, commits, disturbed>>
      /\ decisions' \in [Runs -> Decided]
  BY <1>2 DEF NameProposal, Answer, EvidenceInv, CommitTypeOK
<1>4. thread' \in [Threads -> Commit] /\ \A u \in Threads : Sound(thread[u])'
  BY <1>3, IdleIsSound, OthersStaySound
<1>5. CommitTypeOK'
  BY <1>3, <1>4 DEF EvidenceInv, CommitTypeOK
<1>6. CountNeverAhead' /\ PatternsReal' /\ ProposalsRested'
  BY <1>3 DEF EvidenceInv, CountNeverAhead, PatternsReal, ProposalsRested, Rested, Base
<1> QED
  BY <1>4, <1>5, <1>6 DEF EvidenceInv

LEMMA EvidenceStep == EvidenceInv /\ [CommitNext]_commitVars => EvidenceInv'
<1> SUFFICES ASSUME EvidenceInv, [CommitNext]_commitVars PROVE EvidenceInv'
  OBVIOUS
<1>1. ASSUME NEW action \in Actions, RegisterCapability(action) PROVE EvidenceInv'
  BY <1>1 DEF RegisterCapability, EvidenceInv, CommitTypeOK, CountNeverAhead, PatternsReal,
              ProposalsRested, Rested, Sound, Base
<1>2. CASE Restart
  <2>1. /\ \A t \in Threads : thread'[t] = IdleThread
        /\ thread' \in [Threads -> Commit] /\ disturbed' \in BOOLEAN
        /\ UNCHANGED <<patterns, sequence, proposals, decisions, trusted, commits>>
    BY <1>2, IdleIsSound DEF Restart
  <2>2. CommitTypeOK'
    BY <2>1 DEF EvidenceInv, CommitTypeOK
  <2>3. CountNeverAhead' /\ PatternsReal' /\ ProposalsRested'
    BY <2>1 DEF EvidenceInv, CountNeverAhead, PatternsReal, ProposalsRested, Rested, Base
  <2>4. \A t \in Threads : Sound(thread[t])'
    BY <2>1, IdleIsSound DEF Sound, Rested
  <2> QED
    BY <2>2, <2>3, <2>4 DEF EvidenceInv
<1>3. CASE UNCHANGED commitVars
  BY <1>3 DEF commitVars, EvidenceInv, CommitTypeOK, CountNeverAhead, PatternsReal,
              ProposalsRested, Rested, Sound, Base
<1> QED
  BY <1>1, <1>2, <1>3, LoadPatternKeeps, OpenPatternKeeps, SavePatternKeeps, EvaluateKeeps,
     ReadSequenceKeeps, SequenceStepsKeep, ProposalStepsKeep, NameProposalKeeps
     DEF CommitNext

----------------------------------------------------------------------------
(* What follows from it.                                                   *)

LEMMA EvidenceHolds == CommitSpec => []EvidenceInv
BY EvidenceInit, EvidenceStep, PTL DEF CommitSpec

(* Every file of the commit path holds what its writer puts there, however *)
(* commits race and wherever a restart cuts one off.                       *)
THEOREM CommitTypeCorrect == CommitSpec => []CommitTypeOK
<1>1. EvidenceInv => CommitTypeOK
  BY DEF EvidenceInv
<1> QED
  BY <1>1, EvidenceHolds, PTL

(* No pattern runs ahead of the commits that were made.                    *)
THEOREM CountsStayBehindCommits == CommitSpec => []CountNeverAhead
<1>1. EvidenceInv => CountNeverAhead
  BY DEF EvidenceInv
<1> QED
  BY <1>1, EvidenceHolds, PTL

(* Races and restarts never make a proposal that the threshold's number of *)
(* commits does not support.                                               *)
THEOREM NoHastyProposal == CommitSpec => []ProposalsRestOnCommits
<1>1. EvidenceInv => ProposalsRestOnCommits
  BY DEF EvidenceInv, ProposalsRested, Rested, ProposalsRestOnCommits, CaseOfRun
<1> QED
  BY <1>1, EvidenceHolds, PTL

----------------------------------------------------------------------------
(* Commits that come one at a time and are not cut off. What such commits  *)
(* leave on file is described by the step that the one busy thread has     *)
(* reached; "w" is what that thread holds, an idle one included.           *)

Id(w) == <<KindOf[w.label], w.counters[KindOf[w.label]]>>

Alone(t) == \A u \in Threads : u # t => thread[u].pc = "idle"

Counted(s) ==
  IF commits[s] = 0 THEN patterns[s].state = "absent"
  ELSE /\ Readable(patterns[s])
       /\ patterns[s].content.observed = Base(s).observed + commits[s]

(* Every pattern has counted its commits, but for the one that is being    *)
(* saved: the thread holds its new count.                                  *)
PatternsInOrder(w) ==
  \A s \in Signatures :
    IF w.pc \in Saving /\ s = SignatureOf[w.run]
    THEN /\ commits[s] > 0
         /\ w.pattern.observed = Base(s).observed + commits[s]
         /\ w.pc = "opened" => patterns[s].state = "empty"
    ELSE Counted(s)

(* No id is on file that the sequence file, or the thread that is about to *)
(* write it, has not handed out, and the one in hand is not on file yet.   *)
NumbersInOrder(w) ==
  /\ w.pc = "emptied" => sequence.state = "empty"
  /\ w.pc # "emptied" => sequence.state \in {"absent", "whole"}
  /\ w.pc \notin {"counted", "emptied"} =>
       \A id \in DOMAIN proposals : id[2] <= Load(sequence, NoCounters)[id[1]]
  /\ w.pc \in {"counted", "emptied"} =>
       \A id \in DOMAIN proposals : id[2] <= w.counters[id[1]]
  /\ w.pc \in {"counted", "emptied", "numbered"} => Id(w) \notin DOMAIN proposals
  /\ w.pc = "numbered" => Load(sequence, NoCounters) = w.counters

(* Every proposal is whole, but for the one that is being written.         *)
ProposalsInOrder(w) ==
  /\ \A id \in DOMAIN proposals :
       IF w.pc = "filing" /\ id = Id(w) THEN proposals[id].state = "empty"
       ELSE Readable(proposals[id])
  /\ w.pc = "filed" => proposals[Id(w)].content.run = w.run

InOrder(w) == PatternsInOrder(w) /\ NumbersInOrder(w) /\ ProposalsInOrder(w)

FiledFirst ==
  \A t \in Threads : thread[t].pc \in {"filing", "filed"} => ProposalId(t) \in DOMAIN proposals

OrderInv ==
  /\ EvidenceInv
  /\ FiledFirst
  /\ DecisionNamesItsProposal
  /\ ~disturbed => \E t \in Threads : Alone(t) /\ InOrder(thread[t])

LEMMA OrderInit == CommitInit => OrderInv
<1> SUFFICES ASSUME CommitInit PROVE OrderInv
  OBVIOUS
<1>1. \A t \in Threads : thread[t].pc = "idle"
  BY DEF CommitInit, IdleThread
<1>2. DOMAIN proposals = {}
  BY DEF CommitInit
<1>3. FiledFirst
  BY <1>1 DEF FiledFirst
<1>4. DecisionNamesItsProposal
  BY DEF CommitInit, DecisionNamesItsProposal, Undecided
<1>5. PICK t \in Threads : TRUE
  BY ThreadsAssumption
<1>6. Alone(t)
  BY <1>1 DEF Alone
<1>7. PatternsInOrder(thread[t])
  BY <1>1 DEF PatternsInOrder, Saving, Counted, CommitInit, NoFile
<1>8. NumbersInOrder(thread[t])
  <2>1. sequence.state = "absent"
    BY DEF CommitInit, NoFile
  <2> QED
    BY <1>1, <1>2, <2>1 DEF NumbersInOrder
<1>9. ProposalsInOrder(thread[t])
  BY <1>1, <1>2 DEF ProposalsInOrder
<1> QED
  BY EvidenceInit, <1>3, <1>4, <1>6, <1>7, <1>8, <1>9 DEF OrderInv, InOrder

(* The busy thread is the one the invariant speaks of.                     *)
LEMMA BusyThread ==
  ASSUME OrderInv, ~disturbed, NEW t \in Threads, thread[t].pc # "idle"
  PROVE  Alone(t) /\ InOrder(thread[t])
BY DEF OrderInv, Alone

LEMMA StaysAlone ==
  ASSUME OrderInv, NEW t \in Threads, NEW w, Alone(t), thread' = [thread EXCEPT ![t] = w]
  PROVE  Alone(t)' /\ thread'[t] = w
BY DEF Alone, OrderInv, EvidenceInv, CommitTypeOK

(* Each step keeps it: what it does to the files, and what that leaves the *)
(* thread with.                                                            *)
LEMMA LoadPatternInOrder ==
  ASSUME OrderInv, NEW t \in Threads, NEW r \in Runs, LoadPattern(t, r), ~disturbed'
  PROVE  Alone(t)' /\ InOrder(thread[t])'
<1> DEFINE s == SignatureOf[r]
<1> PICK w : w = [thread[t] EXCEPT !.pc = "loaded", !.run = r,
                     !.pattern = Incremented(Loaded(s), ValidationOf[r])]
  OBVIOUS
<1>1. s \in Signatures /\ thread[t] \in Commit
  BY CommitAssumptions DEF OrderInv, EvidenceInv, CommitTypeOK
<1>2. /\ thread' = [thread EXCEPT ![t] = w]
      /\ commits' = [commits EXCEPT ![s] = commits[s] + 1]
      /\ UNCHANGED <<patterns, sequence, proposals, decisions, trusted>>
      /\ ~disturbed /\ Busy = {}
  BY DEF LoadPattern
<1>3. \A u \in Threads : thread[u].pc = "idle"
  BY <1>2 DEF Busy
<1>4. Alone(t)' /\ thread'[t] = w
  BY <1>2, <1>3, StaysAlone DEF Alone
<1>5. PICK v \in Commit : v.pc = "idle" /\ InOrder(v)
  BY <1>2, <1>3 DEF OrderInv, EvidenceInv, CommitTypeOK
<1>6. \A u \in Signatures : Counted(u)
  BY <1>5 DEF InOrder, PatternsInOrder, Saving
<1>7. Loaded(s) \in Pattern
  BY <1>1, BasePattern, NoPatternType, FileSteps DEF Loaded, OrderInv, EvidenceInv, CommitTypeOK
<1>8. Loaded(s).observed = Base(s).observed + commits[s]
  <2>1. commits[s] \in Nat /\ Base(s).observed \in Nat
    BY <1>1, BasePattern DEF OrderInv, EvidenceInv, CommitTypeOK, Pattern
  <2>2. Counted(s)
    BY <1>1, <1>6
  <2>3. CASE commits[s] = 0
    BY <2>1, <2>2, <2>3 DEF Counted, Loaded, Load, Readable
  <2>4. CASE commits[s] # 0
    BY <2>2, <2>4 DEF Counted, Loaded, Load
  <2> QED
    BY <2>3, <2>4
<1>9. w.pc = "loaded" /\ w.run = r /\ w.pattern.observed = Loaded(s).observed + 1
  BY <1>1, <1>7, IncrementedPattern DEF Commit
<1>10. PatternsInOrder(w)'
  <2>1. commits'[s] = commits[s] + 1 /\ commits[s] \in Nat /\ Base(s).observed \in Nat
    BY <1>1, <1>2, BasePattern DEF OrderInv, EvidenceInv, CommitTypeOK, Pattern
  <2>2. \A u \in Signatures : u # s => commits'[u] = commits[u]
    BY <1>1, <1>2 DEF OrderInv, EvidenceInv, CommitTypeOK
  <2>3. \A u \in Signatures : u # s => Counted(u)'
    BY <1>2, <1>6, <2>2 DEF Counted, Base
  <2>4. commits'[s] > 0 /\ w.pattern.observed = Base(s).observed + commits'[s]
    BY <1>8, <1>9, <2>1
  <2> QED
    BY <1>9, <2>3, <2>4 DEF PatternsInOrder, Saving, Base
<1>11. NumbersInOrder(w)'
  BY <1>2, <1>5, <1>9 DEF InOrder, NumbersInOrder
<1>12. ProposalsInOrder(w)'
  BY <1>2, <1>5, <1>9 DEF InOrder, ProposalsInOrder
<1> QED
  BY <1>4, <1>10, <1>11, <1>12 DEF InOrder

LEMMA SavingInOrder ==
  ASSUME OrderInv, NEW t \in Threads, OpenPattern(t) \/ SavePattern(t), ~disturbed'
  PROVE  Alone(t)' /\ InOrder(thread[t])'
<1> PICK v \in Commit : v = thread[t]
  BY DEF OrderInv, EvidenceInv, CommitTypeOK
<1> DEFINE s == SignatureOf[v.run]
<1>1. v.pc \in Saving /\ ~disturbed /\ s \in Signatures /\ s = Signature(t)
  BY CommitAssumptions DEF OpenPattern, SavePattern, Saving, Commit, Signature
<1>2. Alone(t) /\ InOrder(v)
  BY <1>1, BusyThread DEF Saving
<1>3. PICK pc \in {"opened", "saved"} : Go(t, pc) /\ (pc = "opened" <=> OpenPattern(t))
  BY DEF OpenPattern, SavePattern
<1> PICK w : w = [v EXCEPT !.pc = pc]
  OBVIOUS
<1>4. Alone(t)' /\ thread'[t] = w
  BY <1>2, <1>3, StaysAlone DEF Go
<1>5. w.pc = pc /\ w.run = v.run /\ w.pattern = v.pattern
  BY DEF Commit
<1>6. UNCHANGED <<sequence, proposals, commits>>
  BY DEF OpenPattern, SavePattern
<1>7. PICK file : /\ patterns' = [patterns EXCEPT ![s] = file]
                  /\ pc = "opened" => file.state = "empty"
                  /\ pc = "saved" => file = WholeFile(v.pattern)
  <2>1. patterns[s] \in File(Pattern)
    BY <1>1 DEF OrderInv, EvidenceInv, CommitTypeOK
  <2>2. CASE OpenPattern(t)
    <3>1. Truncated(patterns[s]).state = "empty"
      BY <2>1 DEF Truncated, File
    <3> QED
      BY <1>1, <1>3, <2>2, <3>1 DEF OpenPattern
  <2>3. CASE ~OpenPattern(t)
    <3>1. SavePattern(t) /\ v.pc = "opened"
      BY <2>3 DEF SavePattern
    <3>2. patterns[s].state = "empty"
      BY <1>1, <1>2, <3>1 DEF InOrder, PatternsInOrder
    <3>3. Written(patterns[s], v.pattern, NoPattern) = {WholeFile(v.pattern)}
      BY <3>2 DEF Written
    <3> QED
      BY <1>1, <1>3, <2>3, <3>1, <3>3 DEF SavePattern
  <2> QED
    BY <2>2, <2>3
<1>8. patterns'[s] = file /\ \A u \in Signatures : u # s => patterns'[u] = patterns[u]
  BY <1>1, <1>7 DEF OrderInv, EvidenceInv, CommitTypeOK
<1>9. commits[s] > 0 /\ v.pattern.observed = Base(s).observed + commits[s]
  BY <1>1, <1>2 DEF InOrder, PatternsInOrder
<1>10. PatternsInOrder(w)'
  <2>1. \A u \in Signatures : u # s => Counted(u)'
    BY <1>2, <1>6, <1>8 DEF InOrder, PatternsInOrder, Counted, Base
  <2>2. CASE pc = "opened"
    BY <1>5, <1>6, <1>7, <1>8, <1>9, <2>1, <2>2 DEF PatternsInOrder, Saving, Base
  <2>3. CASE pc = "saved"
    <3>1. Counted(s)'
      <4>1. Readable(patterns'[s]) /\ patterns'[s].content = v.pattern
        BY <1>7, <1>8, <2>3 DEF WholeFile, Readable
      <4>2. commits'[s] # 0 /\ commits'[s] = commits[s]
        BY <1>1, <1>6, <1>9 DEF OrderInv, EvidenceInv, CommitTypeOK
      <4> QED
        BY <1>9, <4>1, <4>2 DEF Counted, Base
    <3> QED
      BY <1>5, <2>1, <2>3, <3>1 DEF PatternsInOrder, Saving
  <2> QED
    BY <2>2, <2>3
<1>11. NumbersInOrder(w)'
  BY <1>1, <1>2, <1>5, <1>6 DEF InOrder, NumbersInOrder, Saving
<1>12. ProposalsInOrder(w)'
  BY <1>1, <1>2, <1>5, <1>6 DEF InOrder, ProposalsInOrder, Saving
<1> QED
  BY <1>4, <1>10, <1>11, <1>12 DEF InOrder

LEMMA EvaluateInOrder ==
  ASSUME OrderInv, NEW t \in Threads, Evaluate(t), ~disturbed'
  PROVE  Alone(t)' /\ InOrder(thread[t])'
<1> PICK v \in Commit : v = thread[t]
  BY DEF OrderInv, EvidenceInv, CommitTypeOK
<1>1. v.pc = "saved" /\ ~disturbed
  BY DEF Evaluate
<1>2. Alone(t) /\ InOrder(v)
  BY <1>1, BusyThread
<1>3. PICK w : thread' = [thread EXCEPT ![t] = w] /\ w.pc \in {"idle", "decided"}
  <2>1. PICK label : \/ thread' = [thread EXCEPT ![t].pc = "decided", ![t].label = label]
                     \/ Answer(t)
    BY DEF Evaluate
  <2>2. IdleThread.pc = "idle"
    BY DEF IdleThread
  <2>3. CASE Answer(t)
    BY <2>2, <2>3 DEF Answer
  <2>4. CASE thread' = [thread EXCEPT ![t].pc = "decided", ![t].label = label]
    <3> DEFINE w == [v EXCEPT !.pc = "decided", !.label = label]
    <3>1. thread' = [thread EXCEPT ![t] = w] /\ w.pc = "decided"
      BY <2>4 DEF Commit, OrderInv, EvidenceInv, CommitTypeOK
    <3> QED
      BY <3>1
  <2> QED
    BY <2>1, <2>3, <2>4
<1>4. Alone(t)' /\ thread'[t] = w
  BY <1>2, <1>3, StaysAlone
<1>5. UNCHANGED <<patterns, sequence, proposals, commits>>
  BY DEF Evaluate
<1>6. PatternsInOrder(w)'
  BY <1>1, <1>2, <1>3, <1>5 DEF InOrder, PatternsInOrder, Saving, Counted, Base
<1>7. NumbersInOrder(w)'
  BY <1>1, <1>2, <1>3, <1>5 DEF InOrder, NumbersInOrder
<1>8. ProposalsInOrder(w)'
  BY <1>1, <1>2, <1>3, <1>5 DEF InOrder, ProposalsInOrder
<1> QED
  BY <1>4, <1>6, <1>7, <1>8 DEF InOrder

LEMMA ReadSequenceInOrder ==
  ASSUME OrderInv, NEW t \in Threads, ReadSequence(t), ~disturbed'
  PROVE  Alone(t)' /\ InOrder(thread[t])'
<1> DEFINE seen == Load(sequence, NoCounters)
           k == Kind(t)
<1> PICK v \in Commit : v = thread[t]
  BY DEF OrderInv, EvidenceInv, CommitTypeOK
<1> PICK w : w = [v EXCEPT !.pc = "counted", !.counters = [seen EXCEPT ![k] = seen[k] + 1]]
  OBVIOUS
<1>1. v.pc = "decided" /\ ~disturbed /\ v.pc \in Filing
  BY DEF ReadSequence, Filing
<1>2. Alone(t) /\ InOrder(v)
  BY <1>1, BusyThread
<1>3. thread' = [thread EXCEPT ![t] = w]
  BY DEF ReadSequence, OrderInv, EvidenceInv, CommitTypeOK
<1>4. Alone(t)' /\ thread'[t] = w
  BY <1>2, <1>3, StaysAlone
<1>5. UNCHANGED <<patterns, sequence, proposals, commits>>
  BY DEF ReadSequence
<1>6. NoCounters \in Counters
  BY DEF NoCounters, Counters
<1>7. k \in Kinds /\ seen \in [Kinds -> Nat] /\ k = KindOf[v.label]
  BY <1>1, <1>6, FilingFields, FileSteps DEF OrderInv, EvidenceInv, CommitTypeOK, Counters, Kind
<1>8. /\ w.pc = "counted" /\ w.run = v.run /\ w.label = v.label
      /\ w.counters = [seen EXCEPT ![k] = seen[k] + 1]
  BY DEF Commit
<1>9. w.counters[k] = seen[k] + 1 /\ \A j \in Kinds : w.counters[j] >= seen[j]
  BY <1>7, <1>8
<1>10. PatternsInOrder(w)'
  BY <1>1, <1>2, <1>5, <1>8 DEF InOrder, PatternsInOrder, Saving, Counted, Base
<1>11. NumbersInOrder(w)'
  <2>1. \A id \in DOMAIN proposals : id[2] <= seen[id[1]] /\ id[1] \in Kinds /\ id[2] \in Nat
    BY <1>1, <1>2 DEF InOrder, NumbersInOrder, OrderInv, EvidenceInv, CommitTypeOK, ProposalIds
  <2>2. \A id \in DOMAIN proposals : id[2] <= w.counters[id[1]]
    BY <1>7, <1>8, <1>9, <2>1
  <2>3. Id(w)[1] = k /\ Id(w)[2] = seen[k] + 1
    BY <1>7, <1>8, <1>9 DEF Id
  <2>4. Id(w) \notin DOMAIN proposals
    BY <1>7, <2>1, <2>3
  <2>5. sequence.state \in {"absent", "whole"}
    BY <1>1, <1>2 DEF InOrder, NumbersInOrder
  <2>6. sequence'.state \in {"absent", "whole"} /\ DOMAIN proposals' = DOMAIN proposals
    BY <1>5, <2>5
  <2> QED
    BY <1>8, <2>2, <2>4, <2>6 DEF NumbersInOrder
<1>12. ProposalsInOrder(w)'
  BY <1>1, <1>2, <1>5, <1>8 DEF InOrder, ProposalsInOrder
<1> QED
  BY <1>4, <1>10, <1>11, <1>12 DEF InOrder

(* The thread's counters are the ones it has written once the file is      *)
(* whole again.                                                            *)
LEMMA SequenceInOrder ==
  ASSUME OrderInv, NEW t \in Threads, OpenSequence(t) \/ SaveSequence(t), ~disturbed'
  PROVE  Alone(t)' /\ InOrder(thread[t])'
<1> PICK v \in Commit : v = thread[t]
  BY DEF OrderInv, EvidenceInv, CommitTypeOK
<1>1. v.pc \in {"counted", "emptied"} /\ ~disturbed
  BY DEF OpenSequence, SaveSequence
<1>2. Alone(t) /\ InOrder(v)
  BY <1>1, BusyThread
<1>3. PICK pc \in {"emptied", "numbered"} : Go(t, pc) /\ (pc = "emptied" <=> OpenSequence(t))
  BY DEF OpenSequence, SaveSequence
<1> PICK w : w = [v EXCEPT !.pc = pc]
  OBVIOUS
<1>4. Alone(t)' /\ thread'[t] = w
  BY <1>2, <1>3, StaysAlone DEF Go
<1>5. w.pc = pc /\ w.run = v.run /\ w.label = v.label /\ w.counters = v.counters
  BY DEF Commit
<1>6. UNCHANGED <<patterns, proposals, commits>>
  BY DEF OpenSequence, SaveSequence
<1>7. PatternsInOrder(w)'
  BY <1>1, <1>2, <1>5, <1>6 DEF InOrder, PatternsInOrder, Saving, Counted, Base
<1>8. ProposalsInOrder(w)'
  BY <1>1, <1>2, <1>5, <1>6 DEF InOrder, ProposalsInOrder
<1>9. /\ \A id \in DOMAIN proposals : id[2] <= v.counters[id[1]]
      /\ Id(v) \notin DOMAIN proposals /\ Id(w) = Id(v)
  BY <1>1, <1>2, <1>5 DEF InOrder, NumbersInOrder, Id
<1>10. NumbersInOrder(w)'
  <2>1. CASE pc = "emptied"
    <3>1. sequence \in File(Counters) /\ sequence' = Truncated(sequence)
      BY <1>3, <2>1 DEF OpenSequence, OrderInv, EvidenceInv, CommitTypeOK
    <3>2. sequence'.state = "empty"
      BY <3>1 DEF Truncated, File
    <3> QED
      BY <1>5, <1>6, <1>9, <2>1, <3>2 DEF NumbersInOrder
  <2>2. CASE pc = "numbered"
    <3>1. SaveSequence(t) /\ v.pc = "emptied"
      BY <1>3, <2>2 DEF SaveSequence
    <3>2. sequence.state = "empty"
      BY <1>2, <3>1 DEF InOrder, NumbersInOrder
    <3>3. Written(sequence, v.counters, NoCounters) = {WholeFile(v.counters)}
      BY <3>2 DEF Written
    <3>4. sequence' = WholeFile(v.counters)
      BY <3>1, <3>3 DEF SaveSequence
    <3>5. sequence'.state = "whole" /\ Load(sequence', NoCounters) = v.counters
      BY <3>4 DEF WholeFile, Load, Readable
    <3> QED
      BY <1>5, <1>6, <1>9, <2>2, <3>5 DEF NumbersInOrder
  <2> QED
    BY <2>1, <2>2
<1> QED
  BY <1>4, <1>7, <1>8, <1>10 DEF InOrder

(* The id that is opened is new, and its file is whole before the decision *)
(* can name it.                                                            *)
LEMMA ProposalInOrder ==
  ASSUME OrderInv, NEW t \in Threads, OpenProposal(t) \/ FileProposal(t), ~disturbed'
  PROVE  Alone(t)' /\ InOrder(thread[t])'
<1> PICK v \in Commit : v = thread[t]
  BY DEF OrderInv, EvidenceInv, CommitTypeOK
<1> DEFINE id == Id(v)
<1>1. v.pc \in {"numbered", "filing"} /\ ~disturbed /\ id = ProposalId(t)
  BY DEF OpenProposal, FileProposal, Id, ProposalId, Kind
<1>2. Alone(t) /\ InOrder(v)
  BY <1>1, BusyThread
<1>3. PICK pc \in {"filing", "filed"} : Go(t, pc) /\ (pc = "filing" <=> OpenProposal(t))
  BY DEF OpenProposal, FileProposal
<1> PICK w : w = [v EXCEPT !.pc = pc]
  OBVIOUS
<1>4. Alone(t)' /\ thread'[t] = w
  BY <1>2, <1>3, StaysAlone DEF Go
<1>5. w.pc = pc /\ w.run = v.run /\ Id(w) = id
  BY DEF Commit, Id
<1>6. UNCHANGED <<patterns, sequence, commits>>
  BY DEF OpenProposal, FileProposal
<1>7. PICK file : /\ PutProposal(id, file)
                  /\ pc = "filing" => file.state = "empty"
                  /\ pc = "filed" => Readable(file) /\ file.content.run = v.run
  <2>1. CASE OpenProposal(t)
    <3>1. Truncated(ProposalFile(id)).state = "empty"
      BY DEF Truncated, ProposalFile, NoFile, File, OrderInv, EvidenceInv, CommitTypeOK
    <3> QED
      BY <1>1, <1>3, <2>1, <3>1 DEF OpenProposal
  <2>2. CASE ~OpenProposal(t)
    <3> DEFINE value == [run |-> v.run, observed |-> v.pattern.observed]
    <3>1. FileProposal(t) /\ v.pc = "filing"
      BY <2>2 DEF FileProposal
    <3>2. id \in DOMAIN proposals
      BY <1>1, <3>1 DEF OrderInv, FiledFirst
    <3>3. ProposalFile(id).state = "empty"
      BY <1>2, <3>1, <3>2 DEF ProposalFile, InOrder, ProposalsInOrder
    <3>4. Written(ProposalFile(id), value, NoProposal) = {WholeFile(value)}
      BY <3>3 DEF Written
    <3>5. PutProposal(id, WholeFile(value))
      BY <1>1, <3>1, <3>4 DEF FileProposal
    <3> QED
      BY <1>3, <2>2, <3>5 DEF WholeFile, Readable
  <2> QED
    BY <2>1, <2>2
<1>8. /\ DOMAIN proposals' = DOMAIN proposals \cup {id}
      /\ proposals'[id] = file
      /\ \A i \in DOMAIN proposals : i # id => proposals'[i] = proposals[i]
  BY <1>7 DEF PutProposal
<1>9. PatternsInOrder(w)'
  BY <1>1, <1>2, <1>3, <1>5, <1>6 DEF InOrder, PatternsInOrder, Saving, Counted, Base
<1>10. NumbersInOrder(w)'
  <2>1. id[2] <= Load(sequence, NoCounters)[id[1]]
    <3>1. CASE v.pc = "numbered"
      <4>1. v.counters = Load(sequence, NoCounters) /\ v.pc \in Filing
        BY <1>2, <3>1 DEF InOrder, NumbersInOrder, Filing
      <4>2. v.counters[KindOf[v.label]] \in Nat
        BY <4>1, FilingFields DEF Counters, OrderInv, Kind
      <4> QED
        BY <4>1, <4>2 DEF Id
    <3>2. CASE v.pc = "filing"
      <4>1. id \in DOMAIN proposals
        BY <1>1, <3>2 DEF OrderInv, FiledFirst
      <4> QED
        BY <1>2, <3>2, <4>1 DEF InOrder, NumbersInOrder
    <3> QED
      BY <1>1, <3>1, <3>2
  <2>2. \A i \in DOMAIN proposals : i[2] <= Load(sequence, NoCounters)[i[1]]
    BY <1>1, <1>2 DEF InOrder, NumbersInOrder
  <2>3. \A i \in DOMAIN proposals' : i[2] <= Load(sequence, NoCounters)[i[1]]
    BY <1>8, <2>1, <2>2
  <2>4. sequence.state \in {"absent", "whole"}
    BY <1>1, <1>2 DEF InOrder, NumbersInOrder
  <2>5. sequence'.state \in {"absent", "whole"}
    BY <1>6, <2>4
  <2>6. \A i \in DOMAIN proposals' : i[2] <= Load(sequence', NoCounters)[i[1]]
    BY <1>6, <2>3
  <2> QED
    BY <1>5, <2>5, <2>6 DEF NumbersInOrder
<1>11. ProposalsInOrder(w)'
  <2>1. \A i \in DOMAIN proposals : i # id => Readable(proposals'[i])
    BY <1>2, <1>8 DEF InOrder, ProposalsInOrder
  <2> QED
    BY <1>5, <1>7, <1>8, <2>1 DEF ProposalsInOrder
<1> QED
  BY <1>4, <1>9, <1>10, <1>11 DEF InOrder

LEMMA NameProposalInOrder ==
  ASSUME OrderInv, NEW t \in Threads, NameProposal(t), ~disturbed'
  PROVE  Alone(t)' /\ InOrder(thread[t])'
<1> PICK v \in Commit : v = thread[t]
  BY DEF OrderInv, EvidenceInv, CommitTypeOK
<1>1. v.pc = "filed" /\ ~disturbed
  BY DEF NameProposal
<1>2. Alone(t) /\ InOrder(v)
  BY <1>1, BusyThread
<1>3. Alone(t)' /\ thread'[t] = IdleThread
  BY <1>2, StaysAlone DEF NameProposal, Answer
<1>4. IdleThread.pc = "idle"
  BY DEF IdleThread
<1>5. UNCHANGED <<patterns, sequence, proposals, commits>>
  BY DEF NameProposal
<1> PICK w : w = IdleThread
  OBVIOUS
<1>6. PatternsInOrder(w)'
  BY <1>1, <1>2, <1>4, <1>5 DEF InOrder, PatternsInOrder, Saving, Counted, Base
<1>7. NumbersInOrder(w)'
  BY <1>1, <1>2, <1>4, <1>5 DEF InOrder, NumbersInOrder
<1>8. ProposalsInOrder(w)'
  BY <1>1, <1>2, <1>4, <1>5 DEF InOrder, ProposalsInOrder
<1> QED
  BY <1>3, <1>6, <1>7, <1>8 DEF InOrder
(* What a step of one thread has to show for the other two parts.          *)
LEMMA FiledFirstStep ==
  ASSUME OrderInv, NEW t \in Threads, NEW w, thread' = [thread EXCEPT ![t] = w],
         DOMAIN proposals \subseteq DOMAIN proposals',
         w.pc \in {"filing", "filed"} => Id(w) \in DOMAIN proposals'
  PROVE  FiledFirst'
<1> SUFFICES ASSUME NEW u \in Threads, thread'[u].pc \in {"filing", "filed"}
             PROVE  Id(thread'[u]) \in DOMAIN proposals'
  BY DEF FiledFirst, ProposalId, Kind, Id
<1>1. thread'[u] = IF u = t THEN w ELSE thread[u]
  BY DEF OrderInv, EvidenceInv, CommitTypeOK
<1>2. CASE u = t
  BY <1>1, <1>2
<1>3. CASE u # t
  <2>1. ProposalId(u) \in DOMAIN proposals /\ ProposalId(u) = Id(thread[u])
    BY <1>1, <1>3 DEF OrderInv, FiledFirst, ProposalId, Kind, Id
  <2> QED
    BY <1>1, <1>3, <2>1
<1> QED
  BY <1>2, <1>3

LEMMA NamesStayRight ==
  ASSUME OrderInv, UNCHANGED decisions, disturbed => disturbed',
         DOMAIN proposals \subseteq DOMAIN proposals',
         ~disturbed' => \A id \in DOMAIN proposals :
           Readable(proposals[id]) => proposals'[id] = proposals[id]
  PROVE  DecisionNamesItsProposal'
BY DEF OrderInv, DecisionNamesItsProposal

(* A proposal that is on file is not touched by a commit that runs alone.  *)
LEMMA FiledIsKept ==
  ASSUME OrderInv, NEW t \in Threads, OpenProposal(t) \/ FileProposal(t)
  PROVE  /\ DOMAIN proposals \subseteq DOMAIN proposals'
         /\ ProposalId(t) \in DOMAIN proposals'
         /\ ~disturbed' => \A id \in DOMAIN proposals :
              Readable(proposals[id]) => proposals'[id] = proposals[id]
<1>1. PICK file : PutProposal(ProposalId(t), file)
  BY DEF OpenProposal, FileProposal
<1>2. /\ DOMAIN proposals' = DOMAIN proposals \cup {ProposalId(t)}
      /\ \A id \in DOMAIN proposals : id # ProposalId(t) => proposals'[id] = proposals[id]
  BY <1>1 DEF PutProposal
<1>3. ASSUME ~disturbed', ProposalId(t) \in DOMAIN proposals
      PROVE  ~Readable(proposals[ProposalId(t)])
  <2>1. ~disturbed /\ thread[t].pc \in {"numbered", "filing"} /\ ProposalId(t) = Id(thread[t])
    BY <1>3 DEF OpenProposal, FileProposal, ProposalId, Kind, Id
  <2>2. NumbersInOrder(thread[t]) /\ ProposalsInOrder(thread[t])
    BY <2>1, BusyThread DEF InOrder
  <2>3. thread[t].pc = "filing"
    BY <1>3, <2>1, <2>2 DEF NumbersInOrder
  <2>4. proposals[ProposalId(t)].state = "empty"
    BY <1>3, <2>1, <2>2, <2>3 DEF ProposalsInOrder
  <2> QED
    BY <2>4 DEF Readable
<1> QED
  BY <1>2, <1>3

LEMMA DecisionStep ==
  ASSUME OrderInv, NEW t \in Threads, Evaluate(t) \/ NameProposal(t)
  PROVE  FiledFirst' /\ DecisionNamesItsProposal'
<1> PICK v \in Commit : v = thread[t]
  BY DEF OrderInv, EvidenceInv, CommitTypeOK
<1>1. UNCHANGED <<proposals, disturbed>>
  BY DEF Evaluate, NameProposal
<1>2. v.run \in Runs
  BY DEF Commit
<1>3. PICK label, id :
        /\ decisions' = [decisions EXCEPT ![v.run] = [label |-> label, proposal |-> id]]
        /\ id # NoId => NameProposal(t) /\ id = Id(v)
  <2>1. CASE Evaluate(t)
    BY <2>1 DEF Evaluate
  <2>2. CASE NameProposal(t)
    BY <2>2 DEF NameProposal, ProposalId, Kind, Id
  <2> QED
    BY <2>1, <2>2
<1>4. DecisionNamesItsProposal'
  <2> SUFFICES ASSUME NEW r \in Runs, decisions'[r].proposal # NoId
               PROVE  /\ decisions'[r].proposal \in DOMAIN proposals
                      /\ ~disturbed => /\ Readable(proposals[decisions'[r].proposal])
                                       /\ proposals[decisions'[r].proposal].content.run = r
    BY <1>1 DEF DecisionNamesItsProposal
  <2>1. decisions \in [Runs -> Decided]
    BY DEF OrderInv, EvidenceInv, CommitTypeOK
  <2>2. CASE r # v.run
    <3>1. decisions'[r] = decisions[r]
      BY <1>3, <2>1, <2>2
    <3> QED
      BY <3>1 DEF OrderInv, DecisionNamesItsProposal
  <2>3. CASE r = v.run
    <3>1. decisions'[r].proposal = id
      BY <1>3, <2>1, <2>3
    <3>2. v.pc = "filed" /\ id = Id(v)
      BY <1>3, <3>1 DEF NameProposal
    <3>3. id \in DOMAIN proposals
      BY <3>2 DEF OrderInv, FiledFirst, ProposalId, Kind, Id
    <3>4. ASSUME ~disturbed
          PROVE  Readable(proposals[id]) /\ proposals[id].content.run = r
      <4>1. ProposalsInOrder(v)
        BY <3>2, <3>4, BusyThread DEF InOrder
      <4> QED
        BY <2>3, <3>2, <3>3, <4>1 DEF ProposalsInOrder
    <3> QED
      BY <3>1, <3>3, <3>4
  <2> QED
    BY <2>2, <2>3
<1>5. PICK w : thread' = [thread EXCEPT ![t] = w] /\ w.pc \in {"idle", "decided"}
  <2>1. IdleThread.pc = "idle"
    BY DEF IdleThread
  <2>2. CASE Answer(t)
    BY <2>1, <2>2 DEF Answer
  <2>3. ASSUME NEW lab, thread' = [thread EXCEPT ![t].pc = "decided", ![t].label = lab]
        PROVE  \E w : thread' = [thread EXCEPT ![t] = w] /\ w.pc \in {"idle", "decided"}
    <3> DEFINE w == [v EXCEPT !.pc = "decided", !.label = lab]
    <3>1. thread' = [thread EXCEPT ![t] = w] /\ w.pc = "decided"
      BY <2>3 DEF Commit, OrderInv, EvidenceInv, CommitTypeOK
    <3> QED
      BY <3>1
  <2> QED
    BY <2>2, <2>3 DEF Evaluate, NameProposal
<1>6. FiledFirst'
  BY <1>1, <1>5, FiledFirstStep
<1> QED
  BY <1>4, <1>6

(* A step that is not one of a commit.                                     *)
LEMMA OrderUntouched ==
  ASSUME OrderInv, EvidenceInv',
         UNCHANGED <<patterns, sequence, proposals, decisions, thread, commits, disturbed>>
  PROVE  OrderInv'
<1>1. FiledFirst' /\ DecisionNamesItsProposal'
  BY DEF OrderInv, FiledFirst, DecisionNamesItsProposal, ProposalId, Kind
<1>2. ASSUME ~disturbed PROVE \E t \in Threads : Alone(t)' /\ InOrder(thread[t])'
  <2>1. PICK t \in Threads : Alone(t) /\ InOrder(thread[t])
    BY <1>2 DEF OrderInv
  <2>2. Alone(t)'
    BY <2>1 DEF Alone
  <2>3. PICK w : w = thread[t]
    OBVIOUS
  <2>4. PatternsInOrder(w)'
    BY <2>1, <2>3 DEF InOrder, PatternsInOrder, Counted, Base
  <2>5. NumbersInOrder(w)' /\ ProposalsInOrder(w)'
    BY <2>1, <2>3 DEF InOrder, NumbersInOrder, ProposalsInOrder
  <2>6. thread'[t] = w
    BY <2>3
  <2> QED
    BY <2>2, <2>4, <2>5, <2>6 DEF InOrder
<1> QED
  BY <1>1, <1>2 DEF OrderInv

LEMMA OrderStep == OrderInv /\ [CommitNext]_commitVars => OrderInv'
<1> SUFFICES ASSUME OrderInv, [CommitNext]_commitVars PROVE OrderInv'
  OBVIOUS
<1>1. EvidenceInv'
  BY EvidenceStep DEF OrderInv
<1>2. thread \in [Threads -> Commit]
  BY DEF OrderInv, EvidenceInv, CommitTypeOK
<1>3. ASSUME NEW t \in Threads, NEW r \in Runs, LoadPattern(t, r) PROVE OrderInv'
  <2>1. UNCHANGED <<proposals, decisions>> /\ (disturbed => disturbed')
    BY <1>3 DEF LoadPattern
  <2>2. PICK w : thread' = [thread EXCEPT ![t] = w] /\ w.pc = "loaded"
    <3> DEFINE w == [thread[t] EXCEPT !.pc = "loaded", !.run = r,
                       !.pattern = Incremented(Loaded(SignatureOf[r]), ValidationOf[r])]
    <3>1. thread' = [thread EXCEPT ![t] = w] /\ w.pc = "loaded"
      BY <1>2, <1>3 DEF LoadPattern, Commit
    <3> QED
      BY <3>1
  <2>3. FiledFirst'
    BY <2>1, <2>2, FiledFirstStep
  <2>4. DecisionNamesItsProposal'
    BY <2>1, NamesStayRight
  <2> QED
    BY <1>1, <1>3, <2>3, <2>4, LoadPatternInOrder DEF OrderInv
<1>4. ASSUME NEW t \in Threads, OpenPattern(t) \/ SavePattern(t) PROVE OrderInv'
  <2>1. UNCHANGED <<proposals, decisions, disturbed>>
    BY <1>4 DEF OpenPattern, SavePattern
  <2>2. PICK pc \in {"opened", "saved"} : Go(t, pc)
    BY <1>4 DEF OpenPattern, SavePattern
  <2>3. FiledFirst'
    <3> DEFINE w == [thread[t] EXCEPT !.pc = pc]
    <3>1. thread' = [thread EXCEPT ![t] = w] /\ w.pc = pc
      BY <1>2, <2>2 DEF Go, Commit
    <3> HIDE DEF w
    <3> QED
      BY <2>1, <3>1, FiledFirstStep
  <2>4. DecisionNamesItsProposal'
    BY <2>1, NamesStayRight
  <2> QED
    BY <1>1, <1>4, <2>3, <2>4, SavingInOrder DEF OrderInv
<1>5. ASSUME NEW t \in Threads, Evaluate(t) \/ NameProposal(t) PROVE OrderInv'
  BY <1>1, <1>5, DecisionStep, EvaluateInOrder, NameProposalInOrder DEF OrderInv
<1>6. ASSUME NEW t \in Threads, ReadSequence(t) \/ OpenSequence(t) \/ SaveSequence(t)
      PROVE  OrderInv'
  <2>1. UNCHANGED <<proposals, decisions, disturbed>>
    BY <1>6 DEF ReadSequence, OpenSequence, SaveSequence
  <2>2. PICK w : /\ thread' = [thread EXCEPT ![t] = w]
                 /\ w.pc \in {"counted", "emptied", "numbered"}
    <3>1. ASSUME NEW pc \in {"counted", "emptied", "numbered"}, NEW counters,
                 thread' = [thread EXCEPT ![t].pc = pc, ![t].counters = counters]
          PROVE  \E w : /\ thread' = [thread EXCEPT ![t] = w]
                        /\ w.pc \in {"counted", "emptied", "numbered"}
      <4> DEFINE w == [thread[t] EXCEPT !.pc = pc, !.counters = counters]
      <4>1. thread' = [thread EXCEPT ![t] = w] /\ w.pc = pc
        BY <1>2, <3>1 DEF Commit
      <4> QED
        BY <4>1
    <3>2. ASSUME NEW pc \in {"counted", "emptied", "numbered"}, Go(t, pc)
          PROVE  \E w : /\ thread' = [thread EXCEPT ![t] = w]
                        /\ w.pc \in {"counted", "emptied", "numbered"}
      <4> DEFINE w == [thread[t] EXCEPT !.pc = pc]
      <4>1. thread' = [thread EXCEPT ![t] = w] /\ w.pc = pc
        BY <1>2, <3>2 DEF Commit, Go
      <4> QED
        BY <4>1
    <3>3. CASE ReadSequence(t)
      BY <3>1, <3>3 DEF ReadSequence
    <3>4. CASE OpenSequence(t) \/ SaveSequence(t)
      BY <3>2, <3>4 DEF OpenSequence, SaveSequence
    <3> QED
      BY <1>6, <3>3, <3>4
  <2>3. FiledFirst'
    BY <2>1, <2>2, FiledFirstStep
  <2>4. DecisionNamesItsProposal'
    BY <2>1, NamesStayRight
  <2> QED
    BY <1>1, <1>6, <2>3, <2>4, ReadSequenceInOrder, SequenceInOrder DEF OrderInv
<1>7. ASSUME NEW t \in Threads, OpenProposal(t) \/ FileProposal(t) PROVE OrderInv'
  <2>1. UNCHANGED <<decisions, disturbed>>
    BY <1>7 DEF OpenProposal, FileProposal
  <2>2. PICK pc \in {"filing", "filed"} : Go(t, pc)
    BY <1>7 DEF OpenProposal, FileProposal
  <2>3. FiledFirst'
    <3> DEFINE w == [thread[t] EXCEPT !.pc = pc]
    <3>1. /\ thread' = [thread EXCEPT ![t] = w]
          /\ w.label = thread[t].label /\ w.counters = thread[t].counters
      BY <1>2, <2>2 DEF Go, Commit
    <3>2. Id(w) = ProposalId(t)
      BY <3>1 DEF Id, ProposalId, Kind
    <3> HIDE DEF w
    <3> QED
      BY <1>7, <3>1, <3>2, FiledIsKept, FiledFirstStep
  <2>4. DecisionNamesItsProposal'
    BY <1>7, <2>1, FiledIsKept, NamesStayRight
  <2> QED
    BY <1>1, <1>7, <2>3, <2>4, ProposalInOrder DEF OrderInv
<1>8. ASSUME NEW action \in Actions, RegisterCapability(action) PROVE OrderInv'
  BY <1>1, <1>8, OrderUntouched DEF RegisterCapability
<1>9. CASE Restart
  <2>1. \A u \in Threads : thread'[u].pc = "idle"
    BY <1>9 DEF Restart, IdleThread
  <2>2. disturbed' /\ UNCHANGED <<decisions, proposals>>
    BY <1>9 DEF Restart
  <2> QED
    BY <1>1, <2>1, <2>2, NamesStayRight DEF OrderInv, FiledFirst
<1>10. CASE UNCHANGED commitVars
  BY <1>1, <1>10, OrderUntouched DEF commitVars
<1> QED
  BY <1>3, <1>4, <1>5, <1>6, <1>7, <1>8, <1>9, <1>10 DEF CommitNext

LEMMA OrderHolds == CommitSpec => []OrderInv
BY OrderInit, OrderStep, PTL DEF CommitSpec

(* As long as commits come one at a time and none is cut off, none is lost *)
(* from its pattern's count.                                               *)
THEOREM UndisturbedCommitsCount == CommitSpec => []CountsEveryCommit
<1>1. OrderInv => CountsEveryCommit
  <2> SUFFICES ASSUME OrderInv, ~disturbed, Busy = {}, NEW s \in Signatures, commits[s] > 0
               PROVE  /\ Readable(patterns[s])
                      /\ patterns[s].content.observed = Base(s).observed + commits[s]
    BY DEF CountsEveryCommit
  <2>1. PICK t \in Threads : InOrder(thread[t]) /\ thread[t].pc = "idle"
    BY DEF OrderInv, Busy
  <2>2. Counted(s)
    BY <2>1 DEF InOrder, PatternsInOrder, Saving
  <2>3. commits[s] # 0
    BY DEF OrderInv, EvidenceInv, CommitTypeOK
  <2> QED
    BY <2>2, <2>3 DEF Counted
<1> QED
  BY <1>1, OrderHolds, PTL

(* A decision never names a proposal that is not on file, and one of a     *)
(* commit that ran alone names that commit's own.                          *)
THEOREM DecisionsNameTheirProposals == CommitSpec => []DecisionNamesItsProposal
<1>1. OrderInv => DecisionNamesItsProposal
  BY DEF OrderInv
<1> QED
  BY <1>1, OrderHolds, PTL

(* No commit that runs alone writes over a proposal on file.               *)
THEOREM ProposalsAreKept == CommitSpec => ProposalsKept
<1>1. OrderInv /\ [CommitNext]_commitVars =>
        [~disturbed' => \A id \in DOMAIN proposals :
           Readable(proposals[id]) => proposals'[id] = proposals[id]]_commitVars
  <2> SUFFICES ASSUME OrderInv, CommitNext, ~disturbed', NEW id \in DOMAIN proposals,
                      Readable(proposals[id])
               PROVE  proposals'[id] = proposals[id]
    BY DEF commitVars
  <2>1. ASSUME NEW t \in Threads, OpenProposal(t) \/ FileProposal(t)
        PROVE  proposals'[id] = proposals[id]
    BY <2>1, FiledIsKept
  <2>2. CASE UNCHANGED proposals
    BY <2>2
  <2> QED
    BY <2>1, <2>2 DEF CommitNext, LoadPattern, OpenPattern, SavePattern, Evaluate,
         ReadSequence, OpenSequence, SaveSequence, NameProposal, RegisterCapability, Restart
<1>2. CommitSpec =>
        [][~disturbed' => \A id \in DOMAIN proposals :
             Readable(proposals[id]) => proposals'[id] = proposals[id]]_commitVars
  BY <1>1, OrderHolds, PTL DEF CommitSpec
<1> QED
  BY <1>2 DEF ProposalsKept
----------------------------------------------------------------------------
(* What is proposed. A real pattern keeps the figures of the historical    *)
(* entry it started from but not its noApi, so it is those figures that    *)
(* keep it from a proposal (NoApiEntriesWait).                             *)

(* A real pattern has the figures of its entry, and no gaps.               *)
FiguresKept(pattern, c) ==
  /\ pattern.value = Seed[c].value
  /\ pattern.stability = Seed[c].stability
  /\ pattern.selectorFailures = Seed[c].selectorFailures
  /\ pattern.gaps = 0

Automatable(c) ==
  /\ ~IsStandard(c.exception, c.action)
  /\ ~IsAmbiguous(c.exception, c.action)
  /\ ~Seed[c].noApi

PatternsKeepFigures ==
  \A s \in Signatures : Readable(patterns[s]) => FiguresKept(patterns[s].content, CaseOf[s])

(* What a thread holds: the pattern it is about to save, and the case it   *)
(* files a proposal for.                                                   *)
Justified(w) ==
  /\ w.pc \in Saving => FiguresKept(w.pattern, CaseOfRun(w.run))
  /\ w.pc \in Filing => Automatable(CaseOfRun(w.run))

AutomatableInv ==
  /\ EvidenceInv
  /\ PatternsKeepFigures
  /\ OnlyAutomatableIsProposed
  /\ \A t \in Threads : Justified(thread[t])

LEMMA NormalizedFigures ==
  ASSUME NEW s \in Signatures
  PROVE  Base(s) \in Pattern /\ FiguresKept(Base(s), CaseOf[s])
<1>1. Seed[CaseOf[s]] \in Pattern
  BY CommitAssumptions
<1> QED
  BY <1>1 DEF Base, NormalizedSeed, Pattern, FiguresKept

LEMMA IncrementedFigures ==
  ASSUME NEW pattern \in Pattern, NEW validation, NEW c, FiguresKept(pattern, c)
  PROVE  FiguresKept(Incremented(pattern, validation), c)
<1> DEFINE new == Incremented(pattern, validation)
<1>1. /\ new.value = pattern.value
      /\ new.stability = pattern.stability
      /\ new.selectorFailures = pattern.selectorFailures
      /\ new.gaps = pattern.gaps
  BY DEF Incremented, Pattern
<1>2. FiguresKept(new, c)
  BY <1>1 DEF FiguresKept
<1> QED
  BY <1>2

(* The rules propose nothing for a case that is not to be automated, on    *)
(* the historical entry and on a real pattern alike.                       *)
LEMMA OnlyAutomatableIsDecided ==
  ASSUME NoApiEntriesWait, NEW c \in Cases, NEW p \in Pattern,
         p = Seed[c] \/ FiguresKept(p, c),
         NEW isTrusted \in BOOLEAN, NEW validatedNow \in BOOLEAN,
         Decision(c.exception, c.action, p, isTrusted, validatedNow) \in ProposalLabels
  PROVE  Automatable(c)
<1>1. ~IsStandard(c.exception, c.action) /\ ~IsAmbiguous(c.exception, c.action)
  BY DEF Decision, ProposalLabels
<1>2. ASSUME Seed[c].noApi PROVE FALSE
  <2>1. /\ c.exception \notin {"budget_exceeded", "inventory_shortage"}
        /\ Seed[c].value < 75 \/ Seed[c].stability < 75
        /\ Seed[c].selectorFailures < 3
        /\ Seed[c].gaps < 3 \/ Seed[c].covered
    BY <1>2 DEF NoApiEntriesWait
  <2>2. Seed[c] \in Pattern
    BY CommitAssumptions
  <2>3. /\ p.value < 75 \/ p.stability < 75
        /\ p.selectorFailures < 3
        /\ p.gaps < 3 \/ p.covered
    BY <2>1 DEF FiguresKept
  <2>4. LegacyDecision(p, validatedNow) \notin ProposalLabels
    <3>1. /\ p.value \in Nat /\ p.stability \in Nat /\ p.selectorFailures \in Nat
          /\ p.gaps \in Nat
      BY DEF Pattern
    <3>2. ~ReadyForApi(p, validatedNow)
      BY <2>3, <3>1 DEF ReadyForApi
    <3>3. ~(p.selectorFailures >= 3) /\ ~(p.gaps >= 3 /\ ~p.covered)
      BY <2>3, <3>1
    <3> QED
      BY <3>2, <3>3 DEF LegacyDecision, ProposalLabels
  <2>5. RealDecision(c.exception, p, validatedNow) \notin ProposalLabels
    BY <2>1, <2>4 DEF RealDecision, ProposalLabels
  <2> QED
    BY <2>4, <2>5 DEF Decision, ProposalLabels
<1> QED
  BY <1>1, <1>2 DEF Automatable

LEMMA EvidenceKeepsFigures ==
  ASSUME AutomatableInv, NEW c \in Cases, NEW p \in Evidence(c)
  PROVE  p \in Pattern /\ (p = Seed[c] \/ FiguresKept(p, c))
<1>1. p \in Pattern
  BY EvidenceIsCounted DEF AutomatableInv
<1>2. CASE p # Seed[c]
  <2>1. PICK s \in Signatures :
          CaseOf[s] = c /\ Readable(patterns[s]) /\ p = patterns[s].content
    BY <1>2, CommitAssumptions DEF Evidence, RealPatterns
  <2> QED
    BY <1>1, <2>1 DEF AutomatableInv, PatternsKeepFigures
<1> QED
  BY <1>1, <1>2

(* Steps of one thread: what is left to show is what that thread holds.    *)
LEMMA OthersStayJustified ==
  ASSUME AutomatableInv, NEW t \in Threads, NEW w, thread' = [thread EXCEPT ![t] = w],
         Justified(w)
  PROVE  (\A u \in Threads : Justified(thread[u]))'
<1> SUFFICES ASSUME NEW u \in Threads PROVE Justified(thread'[u])
  BY DEF Justified, FiguresKept, Automatable, CaseOfRun
<1>1. thread'[u] = w \/ thread'[u] = thread[u]
  BY DEF AutomatableInv, EvidenceInv, CommitTypeOK
<1> QED
  BY <1>1 DEF AutomatableInv

LEMMA IdleIsJustified == Justified(IdleThread)
<1>1. IdleThread.pc = "idle"
  BY DEF IdleThread
<1> QED
  BY <1>1 DEF Justified, Saving, Filing

LEMMA LoadPatternJustified ==
  ASSUME AutomatableInv, NEW t \in Threads, NEW r \in Runs, LoadPattern(t, r)
  PROVE  (\A u \in Threads : Justified(thread[u]))'
<1> DEFINE s == SignatureOf[r]
           new == Incremented(Loaded(s), ValidationOf[r])
           w == [thread[t] EXCEPT !.pc = "loaded", !.run = r, !.pattern = new]
<1>1. s \in Signatures /\ thread[t] \in Commit /\ patterns[s] \in File(Pattern)
  BY CommitAssumptions DEF AutomatableInv, EvidenceInv, CommitTypeOK
<1>2. Loaded(s) \in Pattern /\ FiguresKept(Loaded(s), CaseOf[s])
  <2>1. CASE Readable(patterns[s])
    BY <1>1, <2>1 DEF Loaded, Load, File, AutomatableInv, PatternsKeepFigures
  <2>2. CASE ~Readable(patterns[s])
    BY <1>1, <2>2, NormalizedFigures DEF Loaded, Load
  <2> QED
    BY <2>1, <2>2
<1>3. FiguresKept(new, CaseOf[s])
  BY <1>2, IncrementedFigures
<1>4. thread' = [thread EXCEPT ![t] = w] /\ w.pc = "loaded" /\ w.run = r /\ w.pattern = new
  BY <1>1 DEF LoadPattern, Commit, AutomatableInv, EvidenceInv, CommitTypeOK
<1> HIDE DEF w, new
<1>5. Justified(w)
  BY <1>3, <1>4 DEF Justified, Saving, Filing, CaseOfRun
<1> QED
  BY <1>4, <1>5, OthersStayJustified

LEMMA EvaluateJustified ==
  ASSUME NoApiEntriesWait, AutomatableInv, NEW t \in Threads, Evaluate(t)
  PROVE  (\A u \in Threads : Justified(thread[u]))'
<1> DEFINE c == CaseOf[Signature(t)]
<1>1. c \in Cases /\ thread[t] \in Commit /\ c = CaseOfRun(thread[t].run)
  BY CommitFields DEF AutomatableInv, EvidenceInv, CaseOfRun, Signature
<1>2. PICK p \in Evidence(c), validatedNow \in BOOLEAN :
        LET label == Decision(c.exception, c.action, p, trusted = c.action, validatedNow)
        IN \/ /\ label \in ProposalLabels
              /\ thread' = [thread EXCEPT ![t].pc = "decided", ![t].label = label]
           \/ Answer(t)
  BY DEF Evaluate
<1> DEFINE label == Decision(c.exception, c.action, p, trusted = c.action, validatedNow)
<1>3. CASE label \in ProposalLabels
           /\ thread' = [thread EXCEPT ![t].pc = "decided", ![t].label = label]
  <2>1. p \in Pattern /\ (p = Seed[c] \/ FiguresKept(p, c))
    BY <1>1, EvidenceKeepsFigures
  <2>2. Automatable(c)
    BY <1>1, <1>3, <2>1, OnlyAutomatableIsDecided
  <2> DEFINE w == [thread[t] EXCEPT !.pc = "decided", !.label = label]
  <2>3. thread' = [thread EXCEPT ![t] = w] /\ w.pc = "decided" /\ w.run = thread[t].run
    BY <1>1, <1>3 DEF Commit, AutomatableInv, EvidenceInv, CommitTypeOK
  <2> HIDE DEF w
  <2>4. Justified(w)
    BY <1>1, <2>2, <2>3 DEF Justified, Saving, Filing
  <2> QED
    BY <2>3, <2>4, OthersStayJustified
<1>4. CASE Answer(t)
  BY <1>4, IdleIsJustified, OthersStayJustified DEF Answer
<1> QED
  BY <1>2, <1>3, <1>4

(* The other steps leave the thread with the run it has, and with its      *)
(* pattern while that is being saved.                                      *)
LEMMA GoingOnIsJustified ==
  ASSUME AutomatableInv, NEW t \in Threads, NEW pc, Go(t, pc),
         pc \in Saving => thread[t].pc \in Saving,
         pc \in Filing => thread[t].pc \in Filing
  PROVE  (\A u \in Threads : Justified(thread[u]))'
<1> DEFINE w == [thread[t] EXCEPT !.pc = pc]
<1>1. /\ thread' = [thread EXCEPT ![t] = w]
      /\ w.pc = pc /\ w.run = thread[t].run /\ w.pattern = thread[t].pattern
  BY DEF Go, Commit, AutomatableInv, EvidenceInv, CommitTypeOK
<1>2. Justified(thread[t])
  BY DEF AutomatableInv
<1> HIDE DEF w
<1>3. Justified(w)
  BY <1>1, <1>2 DEF Justified
<1> QED
  BY <1>1, <1>3, OthersStayJustified

LEMMA ReadSequenceJustified ==
  ASSUME AutomatableInv, NEW t \in Threads, ReadSequence(t)
  PROVE  (\A u \in Threads : Justified(thread[u]))'
<1>1. PICK counters :
        thread' = [thread EXCEPT ![t].pc = "counted", ![t].counters = counters]
  BY DEF ReadSequence
<1> DEFINE w == [thread[t] EXCEPT !.pc = "counted", !.counters = counters]
<1>2. /\ thread' = [thread EXCEPT ![t] = w]
      /\ w.pc = "counted" /\ w.run = thread[t].run
  BY <1>1 DEF Commit, AutomatableInv, EvidenceInv, CommitTypeOK
<1>3. Justified(thread[t]) /\ thread[t].pc = "decided"
  BY DEF AutomatableInv, ReadSequence
<1> HIDE DEF w
<1>4. Justified(w)
  BY <1>2, <1>3 DEF Justified, Saving, Filing
<1> QED
  BY <1>2, <1>4, OthersStayJustified

(* A pattern file that is opened cannot be read, and one that is saved     *)
(* holds what its thread held.                                             *)
LEMMA SavingKeepsFigures ==
  ASSUME AutomatableInv, NEW t \in Threads, OpenPattern(t) \/ SavePattern(t)
  PROVE  PatternsKeepFigures'
<1> DEFINE s == Signature(t)
<1>1. s \in Signatures /\ thread[t] \in Commit /\ patterns[s] \in File(Pattern)
  BY CommitFields DEF AutomatableInv, EvidenceInv, CommitTypeOK
<1>2. PICK file :
        /\ patterns' = [patterns EXCEPT ![s] = file]
        /\ Readable(file) => file.content = thread[t].pattern /\ thread[t].pc = "opened"
  <2>1. CASE OpenPattern(t)
    BY <1>1, <2>1, FileSteps, NoPatternType DEF OpenPattern
  <2>2. CASE SavePattern(t)
    <3>1. thread[t].pattern \in Pattern /\ thread[t].pc = "opened"
      BY <1>1, <2>2 DEF Commit, SavePattern
    <3>2. PICK file \in Written(patterns[s], thread[t].pattern, NoPattern) :
            patterns' = [patterns EXCEPT ![s] = file]
      BY <2>2 DEF SavePattern
    <3>3. Readable(file) => file.content = thread[t].pattern
      BY <3>2 DEF Written, WholeFile, Readable
    <3> QED
      BY <3>1, <3>2, <3>3
  <2> QED
    BY <2>1, <2>2
<1> SUFFICES ASSUME NEW u \in Signatures, Readable(patterns'[u])
             PROVE  FiguresKept(patterns'[u].content, CaseOf[u])
  BY DEF PatternsKeepFigures, FiguresKept
<1>3. patterns'[u] = IF u = s THEN file ELSE patterns[u]
  BY <1>2 DEF AutomatableInv, EvidenceInv, CommitTypeOK
<1>4. CASE u = s
  <2>1. FiguresKept(thread[t].pattern, CaseOfRun(thread[t].run))
    BY <1>2, <1>3, <1>4 DEF AutomatableInv, Justified, Saving
  <2> QED
    BY <1>2, <1>3, <1>4, <2>1 DEF CaseOfRun, Signature
<1>5. CASE u # s
  BY <1>3, <1>5 DEF AutomatableInv, PatternsKeepFigures
<1> QED
  BY <1>4, <1>5

(* A proposal that can be read afterwards was there before, or is the one  *)
(* of the thread that has just written it.                                 *)
LEMMA FilingIsJustified ==
  ASSUME AutomatableInv, NEW t \in Threads, OpenProposal(t) \/ FileProposal(t)
  PROVE  OnlyAutomatableIsProposed'
<1> DEFINE id == ProposalId(t)
           value == [run |-> thread[t].run, observed |-> thread[t].pattern.observed]
<1>1. thread[t].pc \in Filing
  BY DEF OpenProposal, FileProposal, Filing
<1>2. PICK file :
        /\ PutProposal(id, file)
        /\ Readable(file) => file.content.run = thread[t].run
  <2>1. CASE OpenProposal(t)
    <3>1. ~Readable(Truncated(ProposalFile(id)))
      <4>1. ProposalFile(id) \in File(Proposal)
        <5>1. NoProposal \in Proposal
          BY CommitAssumptions DEF Proposal, NoProposal
        <5> QED
          BY <5>1 DEF ProposalFile, NoFile, File, FileStates, AutomatableInv, EvidenceInv,
             CommitTypeOK
      <4> QED
        BY <4>1 DEF File, Truncated, Readable
    <3> QED
      BY <2>1, <3>1 DEF OpenProposal
  <2>2. CASE FileProposal(t)
    <3>1. PICK file \in Written(ProposalFile(id), value, NoProposal) : PutProposal(id, file)
      BY <2>2 DEF FileProposal
    <3>2. Readable(file) => file.content = value
      BY <3>1 DEF Written, WholeFile, Readable
    <3> QED
      BY <3>1, <3>2
  <2> QED
    BY <2>1, <2>2
<1>3. Automatable(CaseOfRun(thread[t].run))
  BY <1>1 DEF AutomatableInv, Justified
<1> SUFFICES ASSUME NEW i \in DOMAIN proposals', Readable(proposals'[i])
             PROVE  Automatable(CaseOfRun(proposals'[i].content.run))
  BY DEF OnlyAutomatableIsProposed, Automatable, CaseOfRun
<1>4. /\ DOMAIN proposals' = DOMAIN proposals \cup {id}
      /\ proposals'[i] = IF i = id THEN file ELSE proposals[i]
  BY <1>2 DEF PutProposal
<1>5. CASE i = id
  BY <1>2, <1>3, <1>4, <1>5
<1>6. CASE i # id
  BY <1>4, <1>6 DEF AutomatableInv, OnlyAutomatableIsProposed, Automatable, CaseOfRun
<1> QED
  BY <1>5, <1>6

LEMMA AutomatableInit == CommitInit => AutomatableInv
<1> SUFFICES ASSUME CommitInit PROVE AutomatableInv
  OBVIOUS
<1>1. PatternsKeepFigures /\ OnlyAutomatableIsProposed
  BY DEF CommitInit, PatternsKeepFigures, OnlyAutomatableIsProposed, NoFile, Readable
<1>2. \A t \in Threads : Justified(thread[t])
  BY IdleIsJustified DEF CommitInit
<1> QED
  BY <1>1, <1>2, EvidenceInit DEF AutomatableInv

LEMMA AutomatableStep ==
  ASSUME NoApiEntriesWait
  PROVE  AutomatableInv /\ [CommitNext]_commitVars => AutomatableInv'
<1> SUFFICES ASSUME AutomatableInv, [CommitNext]_commitVars PROVE AutomatableInv'
  OBVIOUS
<1>1. EvidenceInv'
  BY EvidenceStep DEF AutomatableInv
<1>2. UNCHANGED patterns => PatternsKeepFigures'
  BY DEF AutomatableInv, PatternsKeepFigures, FiguresKept
<1>3. UNCHANGED proposals => OnlyAutomatableIsProposed'
  BY DEF AutomatableInv, OnlyAutomatableIsProposed
<1>4. ASSUME NEW t \in Threads, NEW r \in Runs, LoadPattern(t, r) PROVE AutomatableInv'
  <2>1. UNCHANGED <<patterns, proposals>>
    BY <1>4 DEF LoadPattern
  <2> QED
    BY <1>1, <1>2, <1>3, <1>4, <2>1, LoadPatternJustified DEF AutomatableInv
<1>5. ASSUME NEW t \in Threads, OpenPattern(t) \/ SavePattern(t) PROVE AutomatableInv'
  <2>1. UNCHANGED proposals
    BY <1>5 DEF OpenPattern, SavePattern
  <2>2. (\A u \in Threads : Justified(thread[u]))'
    <3>1. CASE OpenPattern(t)
      BY <3>1, GoingOnIsJustified DEF OpenPattern, Saving, Filing
    <3>2. CASE SavePattern(t)
      BY <3>2, GoingOnIsJustified DEF SavePattern, Saving, Filing
    <3> QED
      BY <1>5, <3>1, <3>2
  <2> QED
    BY <1>1, <1>3, <1>5, <2>1, <2>2, SavingKeepsFigures DEF AutomatableInv
<1>6. ASSUME NEW t \in Threads, Evaluate(t) \/ ReadSequence(t) PROVE AutomatableInv'
  <2>1. UNCHANGED <<patterns, proposals>>
    BY <1>6 DEF Evaluate, ReadSequence
  <2> QED
    BY <1>1, <1>2, <1>3, <1>6, <2>1, EvaluateJustified, ReadSequenceJustified
       DEF AutomatableInv
<1>7. ASSUME NEW t \in Threads, OpenSequence(t) \/ SaveSequence(t) PROVE AutomatableInv'
  <2>1. UNCHANGED <<patterns, proposals>>
    BY <1>7 DEF OpenSequence, SaveSequence
  <2>2. (\A u \in Threads : Justified(thread[u]))'
    <3>1. CASE OpenSequence(t)
      BY <3>1, GoingOnIsJustified DEF OpenSequence, Saving, Filing
    <3>2. CASE SaveSequence(t)
      BY <3>2, GoingOnIsJustified DEF SaveSequence, Saving, Filing
    <3> QED
      BY <1>7, <3>1, <3>2
  <2> QED
    BY <1>1, <1>2, <1>3, <2>1, <2>2 DEF AutomatableInv
<1>8. ASSUME NEW t \in Threads, OpenProposal(t) \/ FileProposal(t) PROVE AutomatableInv'
  <2>1. UNCHANGED patterns
    BY <1>8 DEF OpenProposal, FileProposal
  <2>2. (\A u \in Threads : Justified(thread[u]))'
    <3>1. CASE OpenProposal(t)
      BY <3>1, GoingOnIsJustified DEF OpenProposal, Saving, Filing
    <3>2. CASE FileProposal(t)
      BY <3>2, GoingOnIsJustified DEF FileProposal, Saving, Filing
    <3> QED
      BY <1>8, <3>1, <3>2
  <2> QED
    BY <1>1, <1>2, <1>8, <2>1, <2>2, FilingIsJustified DEF AutomatableInv
<1>9. ASSUME NEW t \in Threads, NameProposal(t) PROVE AutomatableInv'
  <2>1. UNCHANGED <<patterns, proposals>> /\ Answer(t)
    BY <1>9 DEF NameProposal
  <2>2. (\A u \in Threads : Justified(thread[u]))'
    BY <2>1, IdleIsJustified, OthersStayJustified DEF Answer
  <2> QED
    BY <1>1, <1>2, <1>3, <2>1, <2>2 DEF AutomatableInv
<1>10. CASE (\E action \in Actions : RegisterCapability(action)) \/ UNCHANGED commitVars
  <2>1. UNCHANGED <<patterns, proposals, thread>>
    BY <1>10 DEF RegisterCapability, commitVars
  <2>2. (\A u \in Threads : Justified(thread[u]))'
    BY <2>1 DEF AutomatableInv, Justified, FiguresKept, Automatable, CaseOfRun
  <2> QED
    BY <1>1, <1>2, <1>3, <2>1, <2>2 DEF AutomatableInv
<1>11. CASE Restart
  <2>1. UNCHANGED <<patterns, proposals>> /\ \A u \in Threads : thread'[u] = IdleThread
    BY <1>11 DEF Restart
  <2>2. (\A u \in Threads : Justified(thread[u]))'
    BY <2>1, IdleIsJustified DEF Justified, FiguresKept, Automatable, CaseOfRun
  <2> QED
    BY <1>1, <1>2, <1>3, <2>1, <2>2 DEF AutomatableInv
<1> QED
  BY <1>4, <1>5, <1>6, <1>7, <1>8, <1>9, <1>10, <1>11 DEF CommitNext

(* What waits for a vendor, needs no change or needs a person first is     *)
(* never proposed for automation, by a real pattern no more than by the    *)
(* historical entry it replaces: as long as every entry with noApi has     *)
(* figures that no rule proposes.                                          *)
THEOREM ProposalsAreAutomatable ==
  ASSUME NoApiEntriesWait
  PROVE  CommitSpec => []OnlyAutomatableIsProposed
<1>1. AutomatableInv /\ [CommitNext]_commitVars => AutomatableInv'
  BY AutomatableStep
<1>2. AutomatableInv => OnlyAutomatableIsProposed
  BY DEF AutomatableInv
<1> QED
  BY <1>1, <1>2, AutomatableInit, PTL DEF CommitSpec

=============================================================================
