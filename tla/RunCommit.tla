------------------------------ MODULE RunCommit ------------------------------
(***************************************************************************)
(* POST /memory/runs/{run_id}/commit of the reasoning agent: it counts the *)
(* run in the pattern of its process signature, asks the rules of          *)
(* CapabilityEvolution what that evidence is worth, and files a proposal   *)
(* when they say so. The endpoint is a plain function on a pool thread,    *)
(* takes no lock, and nothing stops a client from committing a run twice.  *)
(*                                                                         *)
(* Every shared JSON file is read, opened for writing (which empties it)   *)
(* and written in steps of their own, and the process may restart between  *)
(* any two. The files that only one run's commit writes change in one      *)
(* step, and so do the evaluator's pass over the pattern files and the     *)
(* capability registry, which another service writes.                      *)
(* Only runs with a case in their state are committed: the endpoint        *)
(* answers 404 or 400 to others before it has changed anything.            *)
(***************************************************************************)
EXTENDS CapabilityEvolution, Integers, FiniteSets, ThreadPool, JsonFile

LOCAL INSTANCE FiniteSetsExt

CONSTANTS
  Runs,          \* run directories of memory/runs
  Cases,         \* pairs of business action and exception type
  Signatures,    \* process signatures
  SignatureOf,   \* the signature derived from a run's artifacts
  CaseOf,        \* the action and exception at the front of a signature
  Short,         \* signatures that are only an action and an exception
  ValidationOf,  \* what the run's validation artifact says
  Seed,          \* historical_patterns.json, NoPattern where it has no entry
  MaxCommits     \* bound: calls of the endpoint

ASSUME CommitAssumptions ==
  /\ Runs # {}
  /\ Cases \subseteq [action : STRING, exception : STRING]
  /\ SignatureOf \in [Runs -> Signatures]
  /\ CaseOf \in [Signatures -> Cases]
  /\ Short \subseteq Signatures
  /\ \A s, u \in Short : CaseOf[s] = CaseOf[u] => s = u
  /\ ValidationOf \in [Runs -> Validations]
  /\ Seed \in [Cases -> Pattern]
  /\ \A c \in Cases : ~Seed[c].real
  /\ MaxCommits \in Nat

VARIABLES
  patterns,   \* memory/patterns/{signature}.json
  sequence,   \* memory/proposals/_sequence.json
  proposals,  \* memory/proposals/{proposal_id}.json, the files that exist
  decisions,  \* evolution/capability_evolution_decision.json of each run
  trusted,    \* the business action in capability_registry.json
  thread,     \* per thread: the commit it runs and what that commit holds
  commits,    \* history: calls per signature that have loaded its pattern
  disturbed   \* history: commits have overlapped, or a restart cut one off

commitVars ==
  <<patterns, sequence, proposals, decisions, trusted, thread, commits, disturbed>>

----------------------------------------------------------------------------
(* Values.                                                                 *)

ProposalIds == Kinds \X (Nat \ {0})
NoId        == <<"NONE", 0>>
NoAction    == "none"
Actions     == {c.action : c \in Cases}
Counters    == [Kinds -> Nat]
NoCounters  == [k \in Kinds |-> 0]

(* A proposal: the run it was filed for and the observed_count it shows.   *)
Proposal   == [run : Runs, observed : Nat]
NoProposal == [run |-> CHOOSE r \in Runs : TRUE, observed |-> 0]

Decided   == [label : Labels \cup {"none"}, proposal : ProposalIds \cup {NoId}]
Undecided == [label |-> "none", proposal |-> NoId]

Steps == {"idle", "loaded", "opened", "saved", "decided", "counted", "emptied",
          "numbered", "filing", "filed"}
IdleThread == [pc |-> "idle", run |-> CHOOSE r \in Runs : TRUE, pattern |-> NoPattern,
               label |-> "none", counters |-> NoCounters]
Commit == [pc : Steps, run : Runs, pattern : Pattern,
           label : Labels \cup {"none"}, counters : Counters]

Base(s)       == NormalizedSeed(Seed[CaseOf[s]])
Busy          == {t \in Threads : thread[t].pc # "idle"}
Signature(t)  == SignatureOf[thread[t].run]
Kind(t)       == KindOf[thread[t].label]
ProposalId(t) == <<Kind(t), thread[t].counters[Kind(t)]>>

Go(t, pc)  == thread' = [thread EXCEPT ![t].pc = pc]
Answer(t)  == thread' = [thread EXCEPT ![t] = IdleThread]

CommitInit ==
  /\ patterns = [s \in Signatures |-> NoFile(NoPattern)]
  /\ sequence = NoFile(NoCounters)
  /\ proposals = << >>
  /\ decisions = [r \in Runs |-> Undecided]
  /\ trusted \in Actions \cup {NoAction}
  /\ thread = [t \in Threads |-> IdleThread]
  /\ commits = [s \in Signatures |-> 0]
  /\ disturbed = FALSE

----------------------------------------------------------------------------
(* Counting the run: increment_pattern.                                    *)

CommitsMade == MapThenSumSet(LAMBDA s : commits[s], Signatures)

(* Mutant: the seed's count is added to a file that has it already.         *)
Loaded_SeedsAgain(s) ==
  LET pattern == Load(patterns[s], NoPattern)
  IN [Base(s) EXCEPT !.observed = Base(s).observed + pattern.observed]

(* Mutant: the pattern file is never read back.                            *)
Loaded_SeedOnly(s) == Base(s)

(* load_pattern: a file that does not exist and one that cannot be read    *)
(* both lead back to the seed, and without one to an empty shell.          *)
Loaded(s) == Load(patterns[s], Base(s))

LoadPattern(t, r) ==
  LET s == SignatureOf[r] IN
  /\ thread[t].pc = "idle"
  /\ CommitsMade < MaxCommits
  /\ thread' = [thread EXCEPT ![t].pc = "loaded", ![t].run = r,
                              ![t].pattern = Incremented(Loaded(s), ValidationOf[r])]
  /\ commits' = [commits EXCEPT ![s] = commits[s] + 1]
  /\ disturbed' = (disturbed \/ Busy # {})
  /\ UNCHANGED <<patterns, sequence, proposals, decisions, trusted>>

OpenPattern(t) ==
  /\ thread[t].pc = "loaded"
  /\ patterns' = [patterns EXCEPT ![Signature(t)] = Truncated(patterns[Signature(t)])]
  /\ Go(t, "opened")
  /\ UNCHANGED <<sequence, proposals, decisions, trusted, commits, disturbed>>

SavePattern(t) ==
  /\ thread[t].pc = "opened"
  /\ \E file \in Written(patterns[Signature(t)], thread[t].pattern, NoPattern) :
       patterns' = [patterns EXCEPT ![Signature(t)] = file]
  /\ Go(t, "saved")
  /\ UNCHANGED <<sequence, proposals, decisions, trusted, commits, disturbed>>

----------------------------------------------------------------------------
(* Deciding: evaluate_capability_evolution.                                *)

RealPatterns(c) == {patterns[s].content : s \in {u \in Signatures :
                       CaseOf[u] = c /\ Readable(patterns[u]) /\ patterns[u].content.real}}

(* The evaluator does not ask for the signature that was counted: it       *)
(* prefers the pattern of action and exception alone, then the matching    *)
(* one with the most observations (of several, the first by file name),    *)
(* then the entry of historical_patterns.json.                             *)
Evidence(c) ==
  LET short == {patterns[s].content : s \in {u \in Short :
                  CaseOf[u] = c /\ Readable(patterns[u])}}
      most  == {p \in RealPatterns(c) : \A q \in RealPatterns(c) : q.observed <= p.observed}
  IN IF short # {} THEN short ELSE IF most # {} THEN most ELSE {Seed[c]}

Evaluate(t) ==
  LET c == CaseOf[Signature(t)] IN
  /\ thread[t].pc = "saved"
  /\ \E pattern \in Evidence(c), validatedNow \in BOOLEAN :
       LET label == Decision(c.exception, c.action, pattern, trusted = c.action, validatedNow)
       IN /\ decisions' = [decisions EXCEPT ![thread[t].run] =
                            [label |-> label, proposal |-> NoId]]
          /\ \/ /\ label \in ProposalLabels
                /\ thread' = [thread EXCEPT ![t].pc = "decided", ![t].label = label]
             \/ /\ label \notin ProposalLabels
                /\ Answer(t)
  /\ UNCHANGED <<patterns, sequence, proposals, trusted, commits, disturbed>>

----------------------------------------------------------------------------
(* Filing the proposal: _next_proposal_id and _record_proposal.            *)

ReadSequence(t) ==
  LET seen == Load(sequence, NoCounters) IN
  /\ thread[t].pc = "decided"
  /\ thread' = [thread EXCEPT ![t].pc = "counted",
       ![t].counters = [seen EXCEPT ![Kind(t)] = seen[Kind(t)] + 1]]
  /\ UNCHANGED <<patterns, sequence, proposals, decisions, trusted, commits, disturbed>>

OpenSequence(t) ==
  /\ thread[t].pc = "counted"
  /\ sequence' = Truncated(sequence)
  /\ Go(t, "emptied")
  /\ UNCHANGED <<patterns, proposals, decisions, trusted, commits, disturbed>>

(* Mutant: the counters are written back as they were read.                *)
SaveSequence_Unchanged(t) ==
  LET k == Kind(t) IN
  /\ thread[t].pc = "emptied"
  /\ sequence' \in Written(sequence,
       [thread[t].counters EXCEPT ![k] = thread[t].counters[k] - 1], NoCounters)
  /\ Go(t, "numbered")
  /\ UNCHANGED <<patterns, proposals, decisions, trusted, commits, disturbed>>

SaveSequence(t) ==
  /\ thread[t].pc = "emptied"
  /\ sequence' \in Written(sequence, thread[t].counters, NoCounters)
  /\ Go(t, "numbered")
  /\ UNCHANGED <<patterns, proposals, decisions, trusted, commits, disturbed>>

PutProposal(id, file) ==
  proposals' = [i \in DOMAIN proposals \cup {id} |-> IF i = id THEN file ELSE proposals[i]]

ProposalFile(id) == IF id \in DOMAIN proposals THEN proposals[id] ELSE NoFile(NoProposal)

OpenProposal(t) ==
  /\ thread[t].pc = "numbered"
  /\ PutProposal(ProposalId(t), Truncated(ProposalFile(ProposalId(t))))
  /\ Go(t, "filing")
  /\ UNCHANGED <<patterns, sequence, decisions, trusted, commits, disturbed>>

FileProposal(t) ==
  /\ thread[t].pc = "filing"
  /\ \E file \in Written(ProposalFile(ProposalId(t)),
                         [run |-> thread[t].run, observed |-> thread[t].pattern.observed],
                         NoProposal) :
       PutProposal(ProposalId(t), file)
  /\ Go(t, "filed")
  /\ UNCHANGED <<patterns, sequence, decisions, trusted, commits, disturbed>>

(* Mutant: the decision names the proposal before the proposal is filed.   *)
NameProposal_First(t) ==
  /\ thread[t].pc \in {"numbered", "filed"}
  /\ decisions' = [decisions EXCEPT ![thread[t].run] =
                    [label |-> thread[t].label, proposal |-> ProposalId(t)]]
  /\ IF thread[t].pc = "filed" THEN Answer(t) ELSE UNCHANGED thread
  /\ UNCHANGED <<patterns, sequence, proposals, trusted, commits, disturbed>>

NameProposal(t) ==
  /\ thread[t].pc = "filed"
  /\ decisions' = [decisions EXCEPT ![thread[t].run] =
                    [label |-> thread[t].label, proposal |-> ProposalId(t)]]
  /\ Answer(t)
  /\ UNCHANGED <<patterns, sequence, proposals, trusted, commits, disturbed>>

----------------------------------------------------------------------------
(* register_trusted_capability, called by the validation suite: the file   *)
(* holds one capability.                                                   *)
RegisterCapability(action) ==
  /\ trusted' = action
  /\ UNCHANGED <<patterns, sequence, proposals, decisions, thread, commits, disturbed>>

Restart ==
  /\ Busy # {}
  /\ thread' = [t \in Threads |-> IdleThread]
  /\ disturbed' = TRUE
  /\ UNCHANGED <<patterns, sequence, proposals, decisions, trusted, commits>>

CommitNext ==
  \/ \E t \in Threads, r \in Runs : LoadPattern(t, r)
  \/ \E t \in Threads :
       \/ OpenPattern(t) \/ SavePattern(t)
       \/ Evaluate(t)
       \/ ReadSequence(t) \/ OpenSequence(t) \/ SaveSequence(t)
       \/ OpenProposal(t) \/ FileProposal(t)
       \/ NameProposal(t)
  \/ \E action \in Actions : RegisterCapability(action)
  \/ Restart

CommitSpec == CommitInit /\ [][CommitNext]_commitVars

----------------------------------------------------------------------------
(* Properties.                                                             *)

(* Type: every file holds what its writer puts there.                      *)
CommitTypeOK ==
  /\ patterns \in [Signatures -> File(Pattern)]
  /\ sequence \in File(Counters)
  /\ DOMAIN proposals \subseteq ProposalIds
  /\ \A id \in DOMAIN proposals : proposals[id] \in File(Proposal)
  /\ decisions \in [Runs -> Decided]
  /\ trusted \in Actions \cup {NoAction}
  /\ thread \in [Threads -> Commit]
  /\ commits \in [Signatures -> Nat]
  /\ disturbed \in BOOLEAN

(* A pattern never shows more observations than its seed had and commits   *)
(* have been made since, whatever commits race, are cut off by a restart   *)
(* or read a file that another one has open (increment_pattern).           *)
CountNeverAhead ==
  \A s \in Signatures : Readable(patterns[s]) =>
    patterns[s].content.observed <= Base(s).observed + commits[s]

(* As long as commits come one at a time and none is cut off, a pattern    *)
(* that nobody is writing has counted every one of them: a commit that     *)
(* loads the file finds what the one before it saved.                      *)
CountsEveryCommit ==
  ~disturbed /\ Busy = {} => \A s \in Signatures : commits[s] > 0 =>
    /\ Readable(patterns[s])
    /\ patterns[s].content.observed = Base(s).observed + commits[s]

(* Without historical data about its case a proposal rests on the          *)
(* threshold's number of commits of one signature, however they raced:     *)
(* lost updates and unreadable files can delay a proposal, never hasten it *)
(* (evaluate_capability_evolution, increment_pattern).                     *)
ProposalsRestOnCommits ==
  \A id \in DOMAIN proposals : Readable(proposals[id]) =>
    LET c == CaseOf[SignatureOf[proposals[id].content.run]] IN
      Seed[c] = NoPattern =>
        \E s \in Signatures : CaseOf[s] = c /\ commits[s] >= Threshold

(* "When the default threshold of 3 real observations is reached, the      *)
(* system creates a proposal" (README.md): a proposal rests on as many     *)
(* commits, whatever the history of its case.                              *)
ProposalsRestOnRealRuns ==
  \A id \in DOMAIN proposals : Readable(proposals[id]) =>
    LET c == CaseOf[SignatureOf[proposals[id].content.run]] IN
      \E s \in Signatures : CaseOf[s] = c /\ commits[s] >= Threshold

(* What waits for a vendor, needs no change or needs a person first is     *)
(* never proposed for automation, also once its real pattern has replaced  *)
(* the historical entry that said so (evaluate_capability_evolution).      *)
OnlyAutomatableIsProposed ==
  \A id \in DOMAIN proposals : Readable(proposals[id]) =>
    LET c == CaseOf[SignatureOf[proposals[id].content.run]] IN
      /\ ~IsStandard(c.exception, c.action)
      /\ ~IsAmbiguous(c.exception, c.action)
      /\ ~Seed[c].noApi

(* What that asks of the history: a real pattern keeps the figures of the  *)
(* entry it started from but not its noApi, so the figures of such an      *)
(* entry, and its exception, must be some that no rule proposes. The one   *)
(* entry of historical_patterns.json with noApi has none of the figures.   *)
NoApiEntriesWait ==
  \A c \in Cases : Seed[c].noApi =>
    /\ c.exception \notin {"budget_exceeded", "inventory_shortage"}
    /\ Seed[c].value < 75 \/ Seed[c].stability < 75
    /\ Seed[c].selectorFailures < 3
    /\ Seed[c].gaps < 3 \/ Seed[c].covered

(* A run whose decision names a proposal has that proposal on file, and    *)
(* unless commits overlapped or were cut off it is the run's own: the file *)
(* is written before the decision names it (memory_run_commit, step 6).    *)
DecisionNamesItsProposal ==
  \A r \in Runs : LET id == decisions[r].proposal IN id # NoId =>
    /\ id \in DOMAIN proposals
    /\ ~disturbed => Readable(proposals[id]) /\ proposals[id].content.run = r

(* A commit never writes over a filed proposal, which a person may have    *)
(* approved since, unless commits overlapped or were cut off: only then    *)
(* does the sequence file hand out an id again (_next_proposal_id).        *)
ProposalsKept ==
  [][~disturbed' => \A id \in DOMAIN proposals :
       Readable(proposals[id]) => proposals'[id] = proposals[id]]_commitVars

=============================================================================
