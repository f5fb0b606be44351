\* A tick of twelve seconds: a pause of three in a minute of five, batches of
\* two chunks, two of which leave one token of the quota.
SPECIFICATION FairSpec

CONSTANTS
  run = run
  question = question
  Calls = {run, question}
  Texts <- MCTexts
  EMBEDDING_BATCH_SIZE = 2
  TOKENS_PER_CHUNK_ESTIMATE = 1
  EMBEDDING_TPM = 3
  MAX_ATTEMPTS = 2
  Ceiling = 5
  Minute = 5
  Backoff = 1

INVARIANTS TypeOK PacedFits
PROPERTIES EveryEmbedEnds
