------------------------------ MODULE KeyCache ------------------------------
(***************************************************************************)
(* The signing-key cache of one replica: KeyVaultClient and its single     *)
(* slot _TimedCache (app/src/rag_on_azure/key_vault.py), with the vault it *)
(* reads, the requests that ask it for the key, the readiness probe, and   *)
(* the restart of the replica (main.py, lifespan).                         *)
(*                                                                         *)
(* The replica is one asyncio event loop: code between two awaits is one   *)
(* step.  A call of get_or_fetch is therefore at most                      *)
(*                                                                         *)
(*    Call ----> [queued ----> Resume] ----> requested ----> answered      *)
(*     |                         |              |               |          *)
(*     +---- cache hit           +- cache hit   +- FetchFails   +- Store   *)
(*                                                                         *)
(* The vault is external.  Setting the secret makes a new version of it,   *)
(* so a value of the secret is named by its version; Garbage holds the     *)
(* versions whose text does not parse as a PEM public key.                 *)
(***************************************************************************)
EXTENDS Integers, Sequences, FiniteSets

CONSTANTS
  Callers,      \* the request coroutines of the replica
  TTL,          \* DEFAULT_CACHE_TTL_S, in ticks of the clock
  Horizon,      \* bound on the clock
  LastVersion,  \* bound on the versions the operator writes
  Garbage,      \* versions that do not parse as a PEM public key
  None          \* no value, no holder

Versions == 0 .. LastVersion
Times == 0 .. Horizon

ASSUME TTLAssumption == TTL \in Nat \ {0}
ASSUME BoundsAssumption == Horizon \in Nat /\ LastVersion \in Nat
ASSUME GarbageAssumption == Garbage \subseteq Versions \ {0}
ASSUME NoneAssumption == None \notin Callers /\ None \notin Versions

\* What a call ended with when the SDK's error propagated to the caller.
Failed == -1

VARIABLES
  \* the clock (time.monotonic) and the vault
  clock,
  version,     \* current version of the secret
  reachable,   \* the vault answers
  \* the replica
  up,          \* the lifespan has started and the app accepts traffic
  value,       \* _TimedCache._value
  expiresAt,   \* _TimedCache._expires_at
  holder,      \* the call that holds _TimedCache._lock
  queue,       \* the calls that wait for it, first come first served
  pc,          \* where each call is
  now,         \* the local "now" of a call, read before it fetches
  reply,       \* the secret on its way back from the vault
  result,      \* what the call ended with
  ready,       \* the last /readyz answer for the key_vault check
  \* history, read by the properties only
  replacedAt,  \* when a version stopped being the current one
  calledAt,    \* when a call began
  bootVersion  \* the version the replica saw when it booted

vault == <<version, reachable, replacedAt>>
cache == <<value, expiresAt>>
lock  == <<holder, queue>>
calls == <<pc, now, reply, result, calledAt>>
vars  == <<clock, vault, up, cache, lock, calls, ready, bootVersion>>

TypeOK ==
  /\ clock \in Times
  /\ version \in Versions
  /\ reachable \in BOOLEAN
  /\ up \in BOOLEAN
  /\ value \in Versions \cup {None}
  /\ expiresAt \in 0 .. Horizon + TTL
  /\ holder \in Callers \cup {None}
  /\ queue \in Seq(Callers)
  /\ pc \in [Callers -> {"idle", "queued", "requested", "answered", "returned"}]
  /\ now \in [Callers -> Times]
  /\ reply \in [Callers -> Versions \cup {None}]
  /\ result \in [Callers -> Versions \cup {None, Failed}]
  /\ ready \in BOOLEAN
  /\ replacedAt \in [Versions -> Times]
  /\ calledAt \in [Callers -> Times]
  /\ bootVersion \in Versions

-----------------------------------------------------------------------------
(* The cache, the lock and the calls                                       *)

\* The last moment, up to now, at which the vault held version v <= version.
HeldUntil(v) == IF v = version THEN clock ELSE replacedAt[v]

\* Mutant: an entry is served at the very moment it expires.
FreshInclusive == value # None /\ clock <= expiresAt

\* The slot holds a key that has not expired (lines 65 and 69).
Fresh == value # None /\ clock < expiresAt

Parses(v) == v \notin Garbage

(* The call of c ends with r: a version of the key, or Failed.  Its local  *)
(* variables are gone.                                                     *)
Return(c, r) ==
  /\ pc' = [pc EXCEPT ![c] = "returned"]
  /\ result' = [result EXCEPT ![c] = r]
  /\ now' = [now EXCEPT ![c] = 0]
  /\ reply' = [reply EXCEPT ![c] = None]

\* c holds the lock, has read the clock and sends get_secret to the vault.
StartFetch(c) ==
  /\ holder' = c
  /\ pc' = [pc EXCEPT ![c] = "requested"]
  /\ now' = [now EXCEPT ![c] = clock]
  /\ UNCHANGED <<result, reply>>

\* Mutant: no lock, every call that misses fetches.
LockIgnored == TRUE

\* asyncio.Lock lets nobody past the calls that already wait for it.
LockFree == holder = None /\ queue = <<>>

(* get_or_fetch up to its first suspension: the lock-free hit, or the lock *)
(* and the re-check (same clock, same slot, so the same verdict) and the   *)
(* fetch, or a place in the queue of the lock.                             *)
Call(c) ==
  /\ up
  /\ pc[c] = "idle"
  /\ calledAt' = [calledAt EXCEPT ![c] = clock]
  /\ \/ Fresh /\ Return(c, value) /\ UNCHANGED lock
     \/ ~Fresh /\ LockFree /\ StartFetch(c) /\ UNCHANGED queue
     \/ /\ ~Fresh /\ ~LockFree
        /\ queue' = Append(queue, c)
        /\ pc' = [pc EXCEPT ![c] = "queued"]
        /\ UNCHANGED <<holder, now, reply, result>>
  /\ UNCHANGED <<clock, vault, up, cache, ready, bootVersion>>

\* Mutant: no second check of the slot under the lock.
ResumeUnchecked(c) ==
  /\ pc[c] = "queued"
  /\ holder = None
  /\ queue # <<>> /\ Head(queue) = c
  /\ queue' = Tail(queue)
  /\ StartFetch(c)
  /\ UNCHANGED <<clock, vault, up, cache, calledAt, ready, bootVersion>>

(* The first call in the queue gets the lock and checks the slot again.    *)
Resume(c) ==
  /\ pc[c] = "queued"
  /\ holder = None
  /\ queue # <<>> /\ Head(queue) = c
  /\ queue' = Tail(queue)
  /\ \/ Fresh /\ Return(c, value) /\ UNCHANGED holder
     \/ ~Fresh /\ StartFetch(c)
  /\ UNCHANGED <<clock, vault, up, cache, calledAt, ready, bootVersion>>

\* The vault reads the secret; the answer travels back.
VaultAnswers(c) ==
  /\ pc[c] = "requested"
  /\ reachable
  /\ reply' = [reply EXCEPT ![c] = version]
  /\ pc' = [pc EXCEPT ![c] = "answered"]
  /\ UNCHANGED <<clock, vault, up, cache, lock, now, result, calledAt, ready,
                 bootVersion>>

\* Mutant: the lock is not released on the error path.
FetchFailsKeepsLock(c) ==
  /\ pc[c] = "requested"
  /\ ~reachable
  /\ Return(c, Failed)
  /\ UNCHANGED <<clock, vault, up, cache, lock, calledAt, ready, bootVersion>>

(* get_secret raises: nothing is cached, "async with" releases the lock,   *)
(* and the error goes to the caller.                                       *)
FetchFails(c) ==
  /\ pc[c] = "requested"
  /\ ~reachable
  /\ holder' = None
  /\ Return(c, Failed)
  /\ UNCHANGED <<clock, vault, up, cache, queue, calledAt, ready, bootVersion>>

\* Mutant: the TTL is added to what is left of the last one.
StoreAddsExpiry(c) ==
  /\ pc[c] = "answered"
  /\ value' = reply[c]
  /\ expiresAt' = expiresAt + now[c] + TTL
  /\ holder' = None
  /\ Return(c, reply[c])
  /\ UNCHANGED <<clock, vault, up, queue, calledAt, ready, bootVersion>>

\* Mutant: the TTL counts from the end of the fetch.
StoreLateExpiry(c) ==
  /\ pc[c] = "answered"
  /\ value' = reply[c]
  /\ expiresAt' = clock + TTL
  /\ holder' = None
  /\ Return(c, reply[c])
  /\ UNCHANGED <<clock, vault, up, queue, calledAt, ready, bootVersion>>

(* The answer arrives: the slot is filled, and expires one TTL after the   *)
(* clock was read, which is before the fetch, not after it.                *)
Store(c) ==
  /\ pc[c] = "answered"
  /\ value' = reply[c]
  /\ expiresAt' = now[c] + TTL
  /\ holder' = None
  /\ Return(c, reply[c])
  /\ UNCHANGED <<clock, vault, up, queue, calledAt, ready, bootVersion>>

\* The request that asked is over; its coroutine may serve another.
Finish(c) ==
  /\ pc[c] = "returned"
  /\ pc' = [pc EXCEPT ![c] = "idle"]
  /\ result' = [result EXCEPT ![c] = None]
  /\ calledAt' = [calledAt EXCEPT ![c] = 0]
  /\ UNCHANGED <<clock, vault, up, cache, lock, now, reply, ready, bootVersion>>

-----------------------------------------------------------------------------
(* The probe, the replica, the vault's operator and time                   *)

\* KeyVaultClient.ping looks past the cache and parses what it finds.
PingOk == reachable /\ Parses(version)

Probe ==
  /\ up
  /\ ready' = PingOk
  /\ UNCHANGED <<clock, vault, up, cache, lock, calls, bootVersion>>

DropCalls ==
  /\ holder' = None /\ queue' = <<>>
  /\ pc' = [c \in Callers |-> "idle"]
  /\ now' = [c \in Callers |-> 0]
  /\ reply' = [c \in Callers |-> None]
  /\ result' = [c \in Callers |-> None]
  /\ calledAt' = [c \in Callers |-> 0]

\* Mutant: the slot outlives the process.
StopKeepsSlot ==
  /\ up
  /\ up' = FALSE
  /\ ready' = FALSE
  /\ DropCalls
  /\ UNCHANGED <<clock, vault, cache, bootVersion>>

\* The replica dies with its calls and its memory.
Stop ==
  /\ up
  /\ up' = FALSE
  /\ ready' = FALSE
  /\ value' = None /\ expiresAt' = 0
  /\ DropCalls
  /\ UNCHANGED <<clock, vault, bootVersion>>

\* lifespan pings the vault before it yields; a failed ping fails the boot.
Boot ==
  /\ ~up
  /\ PingOk
  /\ up' = TRUE
  /\ bootVersion' = version
  /\ UNCHANGED <<clock, vault, cache, lock, calls, ready>>

Rotate ==
  /\ version < LastVersion
  /\ version' = version + 1
  /\ replacedAt' = [replacedAt EXCEPT ![version] = clock]
  /\ UNCHANGED <<clock, reachable, up, cache, lock, calls, ready, bootVersion>>

OutageBeginsOrEnds ==
  /\ reachable' = ~reachable
  /\ UNCHANGED <<clock, version, replacedAt, up, cache, lock, calls, ready,
                 bootVersion>>

Tick ==
  /\ clock < Horizon
  /\ clock' = clock + 1
  /\ UNCHANGED <<vault, up, cache, lock, calls, ready, bootVersion>>

-----------------------------------------------------------------------------

Init ==
  /\ clock = 0
  /\ version = 0
  /\ reachable = TRUE
  /\ up = TRUE
  /\ value = None
  /\ expiresAt = 0
  /\ holder = None
  /\ queue = <<>>
  /\ pc = [c \in Callers |-> "idle"]
  /\ now = [c \in Callers |-> 0]
  /\ reply = [c \in Callers |-> None]
  /\ result = [c \in Callers |-> None]
  /\ calledAt = [c \in Callers |-> 0]
  /\ ready = FALSE
  /\ replacedAt = [v \in Versions |-> 0]
  /\ bootVersion = 0

CallStep(c) ==
  Call(c) \/ Resume(c) \/ VaultAnswers(c) \/ FetchFails(c) \/ Store(c) \/ Finish(c)

Environment == Probe \/ Stop \/ Boot \/ Rotate \/ OutageBeginsOrEnds \/ Tick

Next == (\E c \in Callers : CallStep(c)) \/ Environment

Spec == Init /\ [][Next]_vars

-----------------------------------------------------------------------------
(* Properties                                                              *)

Fetching(c) == pc[c] \in {"requested", "answered"}

(* The lock of _TimedCache does its work whatever fails: the call that     *)
(* talks to the vault is the holder, the holder talks to the vault, and    *)
(* the queue holds exactly the calls that wait, each once.                 *)
LockDiscipline ==
  /\ \A c \in Callers : Fetching(c) <=> holder = c
  /\ \A c \in Callers : pc[c] = "queued" <=> \E i \in 1 .. Len(queue) : queue[i] = c
  /\ \A i, j \in 1 .. Len(queue) : queue[i] = queue[j] => i = j

(* What a fresh slot serves was in the vault less than one TTL ago,        *)
(* however long the fetch took that filled it: the five minutes that the   *)
(* documentation gives a rotated key are five minutes from the rotation.   *)
SlotWithinTTL == Fresh => HeldUntil(value) > clock - TTL

(* The same for the callers: the key a call ends with was in the vault     *)
(* less than one TTL before, or at some moment since the call began.       *)
KeyWithinTTL ==
  [][ \A c \in Callers :
        (pc[c] # "returned" /\ pc'[c] = "returned" /\ result'[c] # Failed)
        => \/ HeldUntil(result'[c]) > clock - TTL
           \/ HeldUntil(result'[c]) >= calledAt'[c] ]_vars

(* Answers of the vault that were overtaken by a rotation never put an     *)
(* older key over a newer one: between two boots the slot moves forward.   *)
SlotMovesForward ==
  [][ value # None /\ value' # None => value' >= value ]_vars

(* The documented rotation, set the secret and restart the app, leaves no  *)
(* key older than the boot in the slot or in an answer.                    *)
NothingFromBeforeBoot ==
  /\ value # None => value >= bootVersion
  /\ \A c \in Callers : result[c] \in Versions => result[c] >= bootVersion

(* Coalescing (key_vault.py:51-54): one answer of the vault per expiry.    *)
(* None replaces a key that is still fresh, whichever calls queued while   *)
(* the slot was empty, however late they get the lock, and however long    *)
(* the fetch before them took.                                             *)
OneFetchPerExpiry ==
  [][ cache' # cache /\ value' # None => ~Fresh ]_vars

(* What the callers can rely on, as a specification of its own: a call is  *)
(* asked or answered, and no answer is older than the slot, or than the    *)
(* boot while the slot is empty.                                           *)
Promise == INSTANCE SigningKey WITH
  phase <- [c \in Callers |->
              IF pc[c] \in {"queued", "requested", "answered"} THEN "asked"
              ELSE IF pc[c] = "returned" THEN "answered"
              ELSE "idle"],
  floor <- IF value = None THEN bootVersion ELSE value

(* The cache, its lock and its fetches keep that promise through           *)
(* rotations, outages, slow answers and restarts.                          *)
KeepsPromise == Promise!Spec

(* key_vault.py:131-135, the PEM check of ping keeps /readyz from being    *)
(* green "while every authenticated request 401s on a key the JWT verifier *)
(* cannot parse": when the probe turns green, the slot that requests are   *)
(* served from does not hold such a key.                                   *)
GreenMeansVerifiable ==
  [][ ~ready /\ ready' => ~(Fresh' /\ ~Parses(value')) ]_vars
=============================================================================
