----------------------------- MODULE MCEmbedPace -----------------------------
(* A run of three batches, and questions of /query beside it.              *)
EXTENDS EmbedPace, TLC

CONSTANTS run, question

\* The numbers of llm.py:12 and 48-50: a pause of 34 s, and 27,200 of the
\* 30,000 tokens of a minute.
ASSUME DeployedPace ==
  (16 * 850 * 60) \div 24000 = 34 /\ 2 * 34 >= 60 /\ 2 * 16 * 850 <= 30000

MCTexts == (run :> 3 * EMBEDDING_BATCH_SIZE) @@ (question :> 1)

=============================================================================
