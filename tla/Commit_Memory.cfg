SPECIFICATION CommitSpec
CONSTANTS
  Threads = {t1, t2}
  Runs <- MCRuns
  Cases <- MCCases
  Signatures <- MCSignatures
  SignatureOf <- MCSignatureOf
  CaseOf <- MCCaseOf
  Short <- MCShort
  ValidationOf <- MCValidationOf
  Seed <- MCSeed
  Threshold = 2
  MaxCommits = 3
SYMMETRY Symmetry
INVARIANTS
  CountNeverAhead
  CountsEveryCommit
  ProposalsRestOnCommits
  OnlyAutomatableIsProposed
  DecisionNamesItsProposal
PROPERTIES
  ProposalsKept
CHECK_DEADLOCK FALSE
