SPECIFICATION FairSpec
CONSTANTS
  Attempts = 3
  BorrowFailures <- Borrowing
  WorkFailures <- Working
  CommitFailures <- Committing
INVARIANTS AtMostOnce OutcomeTold
PROPERTIES Terminates ImplementsCommitOnce
CHECK_DEADLOCK FALSE
