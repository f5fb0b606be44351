------------------------------ MODULE EmbedPace ------------------------------
(***************************************************************************)
(* AzureOpenAIClient.embed (clients/llm.py): the texts go out in batches,  *)
(* one after the other, with a pause before every batch but the first and  *)
(* a few attempts for each.                                                *)
(*                                                                         *)
(*   Embed --> Answered --> (pause) --> Answered --> ... --> the vectors   *)
(*              |     ^                                                    *)
(*              v     | (backoff)                                          *)
(*            Fails -------> the exception leaves embed                    *)
(*                                                                         *)
(* The pause is there for the quota of the deployment, so many tokens in   *)
(* any minute, which all calls draw on: runs of ingest, the questions of   *)
(* /query, other replicas.  None of them knows of the others.              *)
(*                                                                         *)
(* Time is a number of ticks.  The deployment is external, and so is the   *)
(* SDK, which may send a request again before it raises.                   *)
(***************************************************************************)
EXTENDS Integers, FiniteSetsExt

CONSTANTS
  Calls,                      \* who calls embed
  Texts,                      \* the number of texts of a call
  EMBEDDING_BATCH_SIZE,
  TOKENS_PER_CHUNK_ESTIMATE,
  EMBEDDING_TPM,
  MAX_ATTEMPTS,
  Ceiling,                    \* the quota of the deployment, per minute
  Minute,                     \* in ticks
  Backoff                     \* the wait before another attempt, in ticks

BatchTokens == EMBEDDING_BATCH_SIZE * TOKENS_PER_CHUNK_ESTIMATE

\* _batch_sleep_seconds
Pause == (BatchTokens * Minute) \div EMBEDDING_TPM

ASSUME CallsAssumption == IsFiniteSet(Calls)

ASSUME SizesAssumption ==
  /\ {EMBEDDING_BATCH_SIZE, TOKENS_PER_CHUNK_ESTIMATE, EMBEDDING_TPM, MAX_ATTEMPTS,
      Minute} \subseteq Nat \ {0}
  /\ Ceiling \in Nat /\ Backoff \in 0 .. Pause
  /\ Texts \in [Calls -> Nat \ {0}]

\* Any minute has two batches at most, and they fit the quota.
ASSUME PaceAssumption == 2 * Pause >= Minute /\ 2 * BatchTokens <= Ceiling

VARIABLES
  phase,     \* where each call is
  timer,     \* what is left of its pause or backoff
  attempt,   \* the attempt at the present batch
  results,   \* the texts whose vectors have arrived
  used,      \* the tokens that the deployment took from a call, by their age
  earlier,   \* the same of the calls that came before
  lost       \* history: the age of the last answer that was lost, or Minute

vars == <<phase, timer, attempt, results, used, earlier, lost>>

Ages == 0 .. Minute - 1
Unused == [a \in Ages |-> 0]

TypeOK ==
  /\ phase \in [Calls -> {"idle", "asking", "sleeping"}]
  /\ timer \in [Calls -> 0 .. Pause]
  /\ attempt \in [Calls -> 0 .. MAX_ATTEMPTS]
  /\ results \in [Calls -> Nat] /\ \A c \in Calls : results[c] < Texts[c]
  /\ used \in [Calls -> [Ages -> 0 .. Ceiling]]
  /\ earlier \in [Ages -> 0 .. Ceiling]
  /\ lost \in [Calls -> 0 .. Minute]

-----------------------------------------------------------------------------
(* The deployment                                                          *)

Total(f) == SumFunction(f)

\* The tokens of the last minute.
Taken == Total(earlier) + SumFunction([c \in Calls |-> Total(used[c])])

\* _batched: the next slice of the texts, and what it costs.
Batch(c) == Min({EMBEDDING_BATCH_SIZE, Texts[c] - results[c]})
Tokens(c) == Batch(c) * TOKENS_PER_CHUNK_ESTIMATE

\* The deployment takes the batch of c; it answers 429 to one that is too much.
Take(c) ==
  /\ Taken + Tokens(c) <= Ceiling
  /\ used' = [used EXCEPT ![c][0] = @ + Tokens(c)]

-----------------------------------------------------------------------------
(* A call                                                                  *)

Sleep(c, ticks) ==
  /\ phase' = [phase EXCEPT ![c] = "sleeping"]
  /\ timer' = [timer EXCEPT ![c] = ticks]

\* embed returns, or an exception leaves it.
Return(c) ==
  /\ phase' = [phase EXCEPT ![c] = "idle"]
  /\ attempt' = [attempt EXCEPT ![c] = 0]
  /\ results' = [results EXCEPT ![c] = 0]
  /\ UNCHANGED timer

\* c calls embed, on a new run or with a new question.
Embed(c) ==
  /\ phase[c] = "idle"
  /\ phase' = [phase EXCEPT ![c] = "asking"]
  /\ attempt' = [attempt EXCEPT ![c] = 1]
  /\ earlier' = [a \in Ages |-> earlier[a] + used[c][a]]
  /\ used' = [used EXCEPT ![c] = Unused]
  /\ lost' = [lost EXCEPT ![c] = Minute]
  /\ UNCHANGED <<timer, results>>

\* Mutant: paced at the quota itself.
PauseAtCeiling(c) == (BatchTokens * Minute) \div Ceiling

\* What embed sleeps before the next batch.
PauseBefore(c) == Pause

\* The vectors of a batch arrive.
Answered(c) ==
  /\ phase[c] = "asking"
  /\ Take(c)
  /\ IF results[c] + Batch(c) = Texts[c]
     THEN Return(c)
     ELSE /\ results' = [results EXCEPT ![c] = @ + Batch(c)]
          /\ attempt' = [attempt EXCEPT ![c] = 1]
          /\ Sleep(c, PauseBefore(c))
  /\ UNCHANGED <<earlier, lost>>

\* Mutant: the attempts are not counted.
RetryUncounted(c) == Sleep(c, Backoff) /\ UNCHANGED <<attempt, results>>

\* Mutant: one attempt too many.
RetryOnceMore(c) ==
  \/ Sleep(c, Backoff) /\ attempt' = [attempt EXCEPT ![c] = @ + 1] /\ UNCHANGED results
  \/ Return(c)

\* A 429, a timeout or a failed connection is tried again after the backoff;
\* the last attempt, or another exception, ends the call.
Retry(c) ==
  \/ /\ attempt[c] < MAX_ATTEMPTS
     /\ attempt' = [attempt EXCEPT ![c] = @ + 1]
     /\ Sleep(c, Backoff)
     /\ UNCHANGED results
  \/ Return(c)

\* The request is refused, or does not get through.
Fails(c) ==
  /\ phase[c] = "asking"
  /\ Retry(c)
  /\ UNCHANGED <<used, earlier, lost>>

\* The deployment takes the batch and its answer is lost: the SDK sends it
\* again, or raises.
AnswerLost(c) ==
  /\ phase[c] = "asking"
  /\ Take(c)
  /\ lost' = [lost EXCEPT ![c] = 0]
  /\ Retry(c) \/ UNCHANGED <<phase, timer, attempt, results>>
  /\ UNCHANGED earlier

\* The pause or the backoff is over.
Wake(c) ==
  /\ phase[c] = "sleeping" /\ timer[c] = 0
  /\ phase' = [phase EXCEPT ![c] = "asking"]
  /\ UNCHANGED <<timer, attempt, results, used, earlier, lost>>

Older(f) == [a \in Ages |-> IF a = 0 THEN 0 ELSE f[a - 1]]

\* A tick passes; who has slept enough wakes up first.
Tick ==
  /\ \A c \in Calls : phase[c] = "sleeping" => timer[c] > 0
  /\ timer' = [c \in Calls |-> IF phase[c] = "sleeping" THEN timer[c] - 1 ELSE timer[c]]
  /\ used' = [c \in Calls |-> Older(used[c])]
  /\ earlier' = Older(earlier)
  /\ lost' = [c \in Calls |-> Min({lost[c] + 1, Minute})]
  /\ UNCHANGED <<phase, attempt, results>>

-----------------------------------------------------------------------------

Init ==
  /\ phase = [c \in Calls |-> "idle"]
  /\ timer = [c \in Calls |-> 0]
  /\ attempt = [c \in Calls |-> 0]
  /\ results = [c \in Calls |-> 0]
  /\ used = [c \in Calls |-> Unused]
  /\ earlier = Unused
  /\ lost = [c \in Calls |-> Minute]

Step(c) == Answered(c) \/ Fails(c) \/ Wake(c)

Next == Tick \/ \E c \in Calls : Embed(c) \/ Step(c) \/ AnswerLost(c)

Spec == Init /\ [][Next]_vars

\* The SDK answers or raises in the end, by its timeout and its own count of
\* retries, and asyncio wakes who sleeps.
FairSpec == Spec /\ WF_vars(Tick) /\ \A c \in Calls : WF_vars(Step(c))

-----------------------------------------------------------------------------
(* Properties                                                              *)

\* What the others have taken of the last minute, or are asking for.
Beside(d) ==
  Total(earlier) + SumFunction([e \in Calls \ {d} |->
                     Total(used[e]) + IF phase[e] = "asking" THEN Tokens(e) ELSE 0])

(* llm.py:10-15 and 142-143, "pre-paces [...] with zero 429s" and with     *)
(* headroom for others.  While a call d has had no answer lost within the  *)
(* last minute, and all others together stay within what two batches leave *)
(* of the quota, nobody is refused, neither d nor they, whatever failed on *)
(* the way and however late the answers came.                              *)
PacedFits ==
  \A d \in Calls :
    lost[d] = Minute /\ Beside(d) <= Ceiling - 2 * BatchTokens =>
      \A c \in Calls : phase[c] = "asking" => Taken + Tokens(c) <= Ceiling

(* Every call of embed ends, with its vectors or with an exception,        *)
(* whatever the deployment answers and whoever else uses it.               *)
EveryEmbedEnds == \A c \in Calls : phase[c] # "idle" ~> phase[c] = "idle"

=============================================================================
