----------------------------- MODULE SigningKey -----------------------------
(***************************************************************************)
(* What KeyVaultClient.get_signing_key promises its callers, with no       *)
(* cache, no lock and no fetch: a call ends with a key that the vault held *)
(* less than one TTL before or at some moment since the call began, never  *)
(* with an older key than an earlier call of the same process, or, while   *)
(* the vault cannot be reached, with an error.  A process that stops       *)
(* drops its calls; the next one starts from the key that the vault holds  *)
(* when it boots.                                                          *)
(***************************************************************************)
EXTENDS Integers

CONSTANTS Callers, TTL, Horizon, LastVersion, Garbage, None

Versions == 0 .. LastVersion
Failed == -1

VARIABLES
  clock,
  version,     \* the key the vault holds
  replacedAt,  \* when the vault let go of a version
  reachable,   \* the vault answers
  up,          \* the process runs
  floor,       \* no answer is older than this
  phase,       \* "idle", "asked" or "answered"
  calledAt,    \* when a call began
  result       \* how it ended

vars == <<clock, version, replacedAt, reachable, up, floor, phase, calledAt, result>>

Init ==
  /\ clock = 0
  /\ version = 0
  /\ replacedAt = [v \in Versions |-> 0]
  /\ reachable = TRUE
  /\ up = TRUE
  /\ floor = 0
  /\ phase = [c \in Callers |-> "idle"]
  /\ calledAt = [c \in Callers |-> 0]
  /\ result = [c \in Callers |-> None]

HeldUntil(v) == IF v = version THEN clock ELSE replacedAt[v]

\* A key that may answer, now, a call that began at time t.
Recent(v, t) == HeldUntil(v) > clock - TTL \/ HeldUntil(v) >= t

Ask(c) ==
  /\ up
  /\ phase[c] = "idle"
  /\ phase' = [phase EXCEPT ![c] = "asked"]
  /\ calledAt' = [calledAt EXCEPT ![c] = clock]
  /\ UNCHANGED <<clock, version, replacedAt, reachable, up, floor, result>>

\* A call that finds its key at once begins and ends in one step.
Answer(c) ==
  /\ up
  /\ \/ phase[c] = "idle" /\ calledAt' = [calledAt EXCEPT ![c] = clock]
     \/ phase[c] = "asked" /\ UNCHANGED calledAt
  /\ \E v \in floor .. version :
       /\ Recent(v, calledAt'[c])
       /\ floor' = v
       /\ result' = [result EXCEPT ![c] = v]
  /\ phase' = [phase EXCEPT ![c] = "answered"]
  /\ UNCHANGED <<clock, version, replacedAt, reachable, up>>

Refuse(c) ==
  /\ phase[c] = "asked"
  /\ ~reachable
  /\ phase' = [phase EXCEPT ![c] = "answered"]
  /\ result' = [result EXCEPT ![c] = Failed]
  /\ UNCHANGED <<clock, version, replacedAt, reachable, up, floor, calledAt>>

Forget(c) ==
  /\ phase[c] = "answered"
  /\ phase' = [phase EXCEPT ![c] = "idle"]
  /\ calledAt' = [calledAt EXCEPT ![c] = 0]
  /\ result' = [result EXCEPT ![c] = None]
  /\ UNCHANGED <<clock, version, replacedAt, reachable, up, floor>>

\* Between two processes there is no promise to keep: floor is free.
Stop ==
  /\ up
  /\ up' = FALSE
  /\ phase' = [c \in Callers |-> "idle"]
  /\ calledAt' = [c \in Callers |-> 0]
  /\ result' = [c \in Callers |-> None]
  /\ floor' \in Versions
  /\ UNCHANGED <<clock, version, replacedAt, reachable>>

Boot ==
  /\ ~up
  /\ reachable
  /\ version \notin Garbage
  /\ up' = TRUE
  /\ floor' = version
  /\ UNCHANGED <<clock, version, replacedAt, reachable, phase, calledAt, result>>

Rotate ==
  /\ version < LastVersion
  /\ version' = version + 1
  /\ replacedAt' = [replacedAt EXCEPT ![version] = clock]
  /\ UNCHANGED <<clock, reachable, up, floor, phase, calledAt, result>>

OutageBeginsOrEnds ==
  /\ reachable' = ~reachable
  /\ UNCHANGED <<clock, version, replacedAt, up, floor, phase, calledAt, result>>

Tick ==
  /\ clock < Horizon
  /\ clock' = clock + 1
  /\ UNCHANGED <<version, replacedAt, reachable, up, floor, phase, calledAt, result>>

Next ==
  \/ \E c \in Callers : Ask(c) \/ Answer(c) \/ Refuse(c) \/ Forget(c)
  \/ Stop \/ Boot \/ Rotate \/ OutageBeginsOrEnds \/ Tick

Spec == Init /\ [][Next]_vars
=============================================================================
