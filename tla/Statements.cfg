SPECIFICATION Spec
CONSTANTS
  k1 = k1
  k2 = k2
  Keys = {k1, k2}
  Rows <- MCRows
  MaxId = 3
  Batches <- MCBatches
  Chunk = 2
  Nobody = Nobody
INVARIANTS AnswersAreTheirs OncePerKey AnswerTrue ScanRestored
