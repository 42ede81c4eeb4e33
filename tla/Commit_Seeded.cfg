SPECIFICATION CommitSpec
CONSTANTS
  Threads = {t1, t2}
  Runs <- MCRuns
  Cases <- MCCases
  Signatures <- MCSignatures
  SignatureOf <- MCSignatureOf
  CaseOf <- MCCaseOf
  Short <- MCShort
  ValidationOf <- MCValidationOf
  Seed <- MCSeed
  Threshold = 3
  MaxCommits = 3
SYMMETRY Symmetry
INVARIANT
  ProposalsRestOnRealRuns
CHECK_DEADLOCK FALSE
