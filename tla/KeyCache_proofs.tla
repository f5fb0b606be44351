--------------------------- MODULE KeyCache_proofs ---------------------------
(***************************************************************************)
(* Proofs about KeyCache, for every set of calls, TTL, horizon, number of  *)
(* rotations and choice of bad keys.  The inductive invariant IInv adds to *)
(* the type and lock invariants what ties the slot and the answers under   *)
(* way to the history of the vault: a fetch reads the clock before the     *)
(* vault reads the secret, the expiry counts from that reading, and while  *)
(* a call holds the lock nobody else moves the slot.                       *)
(***************************************************************************)
EXTENDS KeyCache, TLAPS

(* The slot holds a version that the vault held, expires at most one TTL   *)
(* after the vault last held it, and is not older than the boot.           *)
SlotInv ==
  value # None =>
    /\ value <= version
    /\ bootVersion <= value
    /\ expiresAt <= HeldUntil(value) + TTL

(* Where a call is tells what it has read so far; the version it carries   *)
(* back is not older than the slot it will fill.                           *)
CallInv(c) ==
  /\ calledAt[c] <= clock
  /\ pc[c] = "idle" => result[c] = None
  /\ result[c] \in Versions => bootVersion <= result[c]
  /\ Fetching(c) => calledAt[c] <= now[c] /\ now[c] <= clock
  /\ pc[c] = "answered" =>
       /\ reply[c] \in Versions
       /\ reply[c] <= version
       /\ bootVersion <= reply[c]
       /\ now[c] <= HeldUntil(reply[c])
       /\ value # None => value <= reply[c]

\* A replica that is down remembers nothing.
DownInv == ~up => value = None /\ \A c \in Callers : pc[c] = "idle"

IInv ==
  /\ TypeOK
  /\ LockDiscipline
  /\ SlotInv
  /\ \A c \in Callers : CallInv(c)
  /\ DownInv
  /\ bootVersion <= version

-----------------------------------------------------------------------------
(* Type correctness                                                        *)

LEMMA InitType == Init => TypeOK
<1> SUFFICES ASSUME Init PROVE TypeOK
  OBVIOUS
<1> USE TTLAssumption, BoundsAssumption DEF Init, Versions, Times
<1>1. clock \in Times /\ version \in Versions /\ expiresAt \in 0 .. Horizon + TTL
  OBVIOUS
<1>2. /\ replacedAt \in [Versions -> Times]
      /\ calledAt \in [Callers -> Times]
      /\ now \in [Callers -> Times]
  OBVIOUS
<1>3. queue \in Seq(Callers)
  OBVIOUS
<1>4. /\ pc \in [Callers -> {"idle", "queued", "requested", "answered", "returned"}]
      /\ reply \in [Callers -> Versions \cup {None}]
      /\ result \in [Callers -> Versions \cup {None, Failed}]
  OBVIOUS
<1> QED
  BY <1>1, <1>2, <1>3, <1>4 DEF TypeOK

LEMMA StepType == TypeOK /\ [Next]_vars => TypeOK'
<1> SUFFICES ASSUME TypeOK, [Next]_vars PROVE TypeOK'
  OBVIOUS
<1> USE DEF TypeOK
<1>1. ASSUME NEW c \in Callers, Call(c) PROVE TypeOK'
  <2> USE <1>1 DEF Call, vault, cache, lock
  <2>1. calledAt' \in [Callers -> Times]
    OBVIOUS
  <2>2. CASE Fresh /\ Return(c, value) /\ UNCHANGED lock
    <3>1. result' \in [Callers -> Versions \cup {None, Failed}]
      BY <2>2 DEF Return
    <3>2. now' \in [Callers -> Times]
      BY <2>2, BoundsAssumption DEF Return, Times
    <3> QED
      BY <2>1, <2>2, <3>1, <3>2 DEF Return
  <2>3. CASE ~Fresh /\ LockFree /\ StartFetch(c) /\ UNCHANGED queue
    BY <2>1, <2>3 DEF StartFetch
  <2>4. CASE /\ ~Fresh /\ ~LockFree
             /\ queue' = Append(queue, c)
             /\ pc' = [pc EXCEPT ![c] = "queued"]
             /\ UNCHANGED <<holder, now, reply, result>>
    BY <2>1, <2>4
  <2> QED
    BY <2>2, <2>3, <2>4
<1>2. ASSUME NEW c \in Callers, Resume(c) PROVE TypeOK'
  <2> USE <1>2 DEF Resume, vault, cache
  <2>1. queue' \in Seq(Callers)
    OBVIOUS
  <2>2. CASE Fresh /\ Return(c, value) /\ UNCHANGED holder
    <3>1. result' \in [Callers -> Versions \cup {None, Failed}]
      BY <2>2 DEF Return
    <3>2. now' \in [Callers -> Times]
      BY <2>2, BoundsAssumption DEF Return, Times
    <3> QED
      BY <2>1, <2>2, <3>1, <3>2 DEF Return
  <2>3. CASE ~Fresh /\ StartFetch(c)
    BY <2>1, <2>3 DEF StartFetch
  <2> QED
    BY <2>2, <2>3
<1>3. ASSUME NEW c \in Callers, VaultAnswers(c) PROVE TypeOK'
  BY <1>3 DEF VaultAnswers, vault, cache, lock
<1>4. ASSUME NEW c \in Callers, FetchFails(c) PROVE TypeOK'
  BY <1>4, BoundsAssumption DEF FetchFails, Return, vault, cache, Times
<1>5. ASSUME NEW c \in Callers, Store(c) PROVE TypeOK'
  <2> USE <1>5 DEF Store, Return, vault
  <2>1. expiresAt' \in 0 .. Horizon + TTL
    BY TTLAssumption, BoundsAssumption DEF Times
  <2>2. value' \in Versions \cup {None}
    OBVIOUS
  <2>3. now' \in [Callers -> Times]
    BY BoundsAssumption DEF Times
  <2> QED
    BY <2>1, <2>2, <2>3
<1>6. ASSUME NEW c \in Callers, Finish(c) PROVE TypeOK'
  BY <1>6, BoundsAssumption DEF Finish, vault, cache, lock, Times
<1>7. ASSUME Probe PROVE TypeOK'
  BY <1>7 DEF Probe, PingOk, Parses, vault, cache, lock, calls
<1>8. ASSUME Stop PROVE TypeOK'
  <2> USE <1>8 DEF Stop, DropCalls, vault
  <2>1. /\ now' \in [Callers -> Times]
        /\ calledAt' \in [Callers -> Times]
        /\ expiresAt' \in 0 .. Horizon + TTL
    BY TTLAssumption, BoundsAssumption DEF Times
  <2>2. /\ reply' \in [Callers -> Versions \cup {None}]
        /\ result' \in [Callers -> Versions \cup {None, Failed}]
    OBVIOUS
  <2>3. queue' \in Seq(Callers)
    OBVIOUS
  <2> QED
    BY <2>1, <2>2, <2>3
<1>9. ASSUME Boot PROVE TypeOK'
  BY <1>9 DEF Boot, vault, cache, lock, calls
<1>10. ASSUME Rotate PROVE TypeOK'
  BY <1>10, BoundsAssumption DEF Rotate, vault, cache, lock, calls, Versions
<1>11. ASSUME OutageBeginsOrEnds PROVE TypeOK'
  BY <1>11 DEF OutageBeginsOrEnds, vault, cache, lock, calls
<1>12. ASSUME Tick PROVE TypeOK'
  BY <1>12, BoundsAssumption DEF Tick, vault, cache, lock, calls, Times
<1>13. CASE UNCHANGED vars
  BY <1>13 DEF vars, vault, cache, lock, calls
<1> QED
  BY <1>1, <1>2, <1>3, <1>4, <1>5, <1>6, <1>7, <1>8, <1>9, <1>10, <1>11, <1>12,
     <1>13 DEF Next, CallStep, Environment

(* Every value the cache and its calls ever hold has its type, whatever    *)
(* the number of calls and rotations.                                      *)
THEOREM TypeCorrect == Spec => []TypeOK
BY InitType, StepType, PTL DEF Spec

-----------------------------------------------------------------------------
(* The lock                                                                *)

\* A queue without repetitions has none after a newcomer joins it.
LEMMA AppendNoRepeat ==
  ASSUME NEW S, NEW q \in Seq(S), NEW x \in S,
         \A i \in 1 .. Len(q) : q[i] # x,
         \A i, j \in 1 .. Len(q) : q[i] = q[j] => i = j
  PROVE  \A i, j \in 1 .. Len(Append(q, x)) :
           Append(q, x)[i] = Append(q, x)[j] => i = j
OBVIOUS

\* The lock and its queue agree with where the calls are, in every step.
LEMMA StepLock == TypeOK /\ LockDiscipline /\ DownInv /\ [Next]_vars => LockDiscipline'
<1> SUFFICES ASSUME TypeOK, LockDiscipline, DownInv, [Next]_vars
             PROVE  LockDiscipline'
  OBVIOUS
<1> USE NoneAssumption DEF TypeOK, Fetching, LockDiscipline
<1>1. ASSUME NEW c \in Callers, Call(c) PROVE LockDiscipline'
  <2> USE <1>1 DEF Call, lock
  <2>1. CASE Fresh /\ Return(c, value) /\ UNCHANGED lock
    BY <2>1 DEF Return
  <2>2. CASE ~Fresh /\ LockFree /\ StartFetch(c) /\ UNCHANGED queue
    BY <2>2 DEF StartFetch, LockFree
  <2>3. CASE /\ ~Fresh /\ ~LockFree
             /\ queue' = Append(queue, c)
             /\ pc' = [pc EXCEPT ![c] = "queued"]
             /\ UNCHANGED <<holder, now, reply, result>>
    <3>1. /\ Len(queue') = Len(queue) + 1
          /\ queue'[Len(queue) + 1] = c
          /\ \A i \in 1 .. Len(queue) : queue'[i] = queue[i]
      BY <2>3
    <3>2. \A i \in 1 .. Len(queue) : queue[i] # c
      OBVIOUS
    <3>3. \A d \in Callers : Fetching(d)' <=> holder' = d
      BY <2>3
    <3>4. \A d \in Callers : pc'[d] = "queued" <=> \E i \in 1 .. Len(queue') : queue'[i] = d
      <4> TAKE d \in Callers
      <4>1. CASE d = c
        BY <2>3, <3>1, <4>1
      <4>2. CASE d # c
        BY <2>3, <3>1, <4>2
      <4> QED
        BY <4>1, <4>2
    <3>5. \A i, j \in 1 .. Len(queue') : queue'[i] = queue'[j] => i = j
      BY <2>3, <3>2, AppendNoRepeat
    <3> QED
      BY <3>3, <3>4, <3>5
  <2> QED
    BY <2>1, <2>2, <2>3
<1>2. ASSUME NEW c \in Callers, Resume(c) PROVE LockDiscipline'
  <2> USE <1>2 DEF Resume
  <2>1. /\ Len(queue) > 0
        /\ queue[1] = c
        /\ Len(queue') = Len(queue) - 1
        /\ \A i \in 1 .. Len(queue') : queue'[i] = queue[i + 1]
    OBVIOUS
  <2>2. \A i, j \in 1 .. Len(queue') : queue'[i] = queue'[j] => i = j
    <3> TAKE i, j \in 1 .. Len(queue')
    <3>1. i + 1 \in 1 .. Len(queue) /\ j + 1 \in 1 .. Len(queue)
      BY <2>1
    <3> QED
      BY <2>1, <3>1
  <2>3. \A i \in 1 .. Len(queue') : queue'[i] # c
    <3> TAKE i \in 1 .. Len(queue')
    <3>1. i + 1 \in 1 .. Len(queue) /\ 1 \in 1 .. Len(queue) /\ i + 1 # 1
      BY <2>1
    <3> QED
      BY <2>1, <3>1
  <2>4. \A d \in Callers : pc'[d] = pc[d] \/ d = c
    BY DEF Return, StartFetch
  <2>5. pc'[c] # "queued"
    BY DEF Return, StartFetch
  <2>6. \A d \in Callers : pc'[d] = "queued" <=> \E i \in 1 .. Len(queue') : queue'[i] = d
    <3> TAKE d \in Callers
    <3>1. CASE d = c
      BY <2>3, <2>5, <3>1
    <3>2. CASE d # c
      <4>1. ASSUME pc[d] = "queued" PROVE \E i \in 1 .. Len(queue') : queue'[i] = d
        <5>1. PICK i \in 1 .. Len(queue) : queue[i] = d
          BY <4>1
        <5>2. i - 1 \in 1 .. Len(queue') /\ queue'[i - 1] = d
          BY <2>1, <3>2, <5>1
        <5> QED
          BY <5>2
      <4>2. ASSUME NEW i \in 1 .. Len(queue'), queue'[i] = d PROVE pc[d] = "queued"
        <5>1. i + 1 \in 1 .. Len(queue) /\ queue[i + 1] = d
          BY <2>1, <4>2
        <5> QED
          BY <5>1
      <4> QED
        BY <2>4, <3>2, <4>1, <4>2
    <3> QED
      BY <3>1, <3>2
  <2>7. \A d \in Callers : Fetching(d)' <=> holder' = d
    BY DEF Return, StartFetch
  <2> QED
    BY <2>2, <2>6, <2>7
<1>3. ASSUME NEW c \in Callers, VaultAnswers(c) PROVE LockDiscipline'
  BY <1>3 DEF VaultAnswers, lock
<1>4. ASSUME NEW c \in Callers, FetchFails(c) PROVE LockDiscipline'
  BY <1>4 DEF FetchFails, Return
<1>5. ASSUME NEW c \in Callers, Store(c) PROVE LockDiscipline'
  BY <1>5 DEF Store, Return
<1>6. ASSUME NEW c \in Callers, Finish(c) PROVE LockDiscipline'
  BY <1>6 DEF Finish, lock
<1>7. ASSUME Stop PROVE LockDiscipline'
  <2>1. queue' = <<>> /\ holder' = None /\ \A d \in Callers : pc'[d] = "idle"
    BY <1>7 DEF Stop, DropCalls
  <2> QED
    BY <2>1
<1>8. CASE Probe \/ Boot \/ Rotate \/ OutageBeginsOrEnds \/ Tick \/ UNCHANGED vars
  <2>1. UNCHANGED <<pc, holder, queue>>
    BY <1>8 DEF Probe, Boot, Rotate, OutageBeginsOrEnds, Tick, vars, lock, calls
  <2> QED
    BY <2>1
<1> QED
  BY <1>1, <1>2, <1>3, <1>4, <1>5, <1>6, <1>7, <1>8 DEF Next, CallStep, Environment

-----------------------------------------------------------------------------
(* The slot and the calls                                                  *)

\* No step takes back what the vault has held, or until when.
LEMMA HistoryGrows ==
  TypeOK /\ [Next]_vars =>
    /\ version <= version'
    /\ clock <= clock'
    /\ \A v \in Versions : v <= version => HeldUntil(v) <= HeldUntil(v)'
<1> SUFFICES ASSUME TypeOK, [Next]_vars
             PROVE  /\ version <= version'
                    /\ clock <= clock'
                    /\ \A v \in Versions : v <= version => HeldUntil(v) <= HeldUntil(v)'
  OBVIOUS
<1>1. clock \in Int /\ version \in Int /\ version \in Versions
  BY BoundsAssumption DEF TypeOK, Versions, Times
<1>2. \A v \in Versions : v \in Int /\ replacedAt[v] \in Int
  BY BoundsAssumption DEF TypeOK, Versions, Times
<1>3. CASE UNCHANGED <<clock, version, replacedAt>>
  <2>1. ASSUME NEW v \in Versions PROVE HeldUntil(v) <= HeldUntil(v)'
    BY <1>1, <1>2, <1>3 DEF HeldUntil
  <2> QED
    BY <1>1, <1>3, <2>1
<1>4. CASE Rotate
  <2>1. /\ version' = version + 1 /\ clock' = clock
        /\ replacedAt' = [replacedAt EXCEPT ![version] = clock]
    BY <1>4 DEF Rotate
  <2>2. ASSUME NEW v \in Versions, v <= version PROVE HeldUntil(v) <= HeldUntil(v)'
    <3>1. v # version'
      BY <1>1, <1>2, <2>1, <2>2
    <3>2. HeldUntil(v)' = IF v = version THEN clock ELSE replacedAt[v]
      BY <1>1, <2>1, <3>1 DEF HeldUntil, TypeOK
    <3> QED
      BY <1>1, <1>2, <3>2 DEF HeldUntil
  <2> QED
    BY <1>1, <2>1, <2>2
<1>5. CASE Tick
  <2>1. clock' = clock + 1 /\ version' = version /\ replacedAt' = replacedAt
    BY <1>5 DEF Tick, vault
  <2>2. ASSUME NEW v \in Versions PROVE HeldUntil(v) <= HeldUntil(v)'
    BY <1>1, <1>2, <2>1 DEF HeldUntil
  <2> QED
    BY <1>1, <2>1, <2>2
<1>6. Rotate \/ Tick \/ UNCHANGED <<clock, version, replacedAt>>
  BY DEF Next, CallStep, Environment, Call, Resume, VaultAnswers, FetchFails,
         Store, Finish, Probe, Stop, Boot, OutageBeginsOrEnds, vars, vault
<1> QED
  BY <1>3, <1>4, <1>5, <1>6

\* A replica that is down takes no step of a call.
LEMMA StepDown == TypeOK /\ DownInv /\ [Next]_vars => DownInv'
<1> SUFFICES ASSUME TypeOK, DownInv, [Next]_vars PROVE DownInv'
  OBVIOUS
<1>1. ASSUME NEW c \in Callers, CallStep(c) PROVE up'
  <2>1. pc[c] # "idle" \/ up
    BY <1>1 DEF CallStep, Call, Resume, VaultAnswers, FetchFails, Store, Finish
  <2>2. up' = up
    BY <1>1 DEF CallStep, Call, Resume, VaultAnswers, FetchFails, Store, Finish
  <2> QED
    BY <2>1, <2>2 DEF DownInv, TypeOK
<1>2. CASE Stop
  BY <1>2 DEF Stop, DropCalls, DownInv
<1>3. CASE Boot
  BY <1>3 DEF Boot, DownInv
<1>4. CASE Probe \/ Rotate \/ OutageBeginsOrEnds \/ Tick \/ UNCHANGED vars
  <2>1. UNCHANGED <<up, value, pc>>
    BY <1>4 DEF Probe, Rotate, OutageBeginsOrEnds, Tick, vars, cache, calls
  <2> QED
    BY <2>1 DEF DownInv
<1> QED
  BY <1>1, <1>2, <1>3, <1>4 DEF Next, Environment, DownInv

\* What ties the slot to the history of the vault survives every step.
LEMMA StepSlot == IInv /\ [Next]_vars => SlotInv'
<1> SUFFICES ASSUME IInv, [Next]_vars PROVE SlotInv'
  OBVIOUS
<1>1. /\ clock \in Int /\ version \in Int /\ bootVersion \in Int /\ TTL \in Int
      /\ version' \in Int /\ clock' \in Int
      /\ Versions \subseteq Int /\ Times \subseteq Int
      /\ expiresAt \in Int
      /\ value = None \/ value \in Versions
  BY StepType, TTLAssumption, BoundsAssumption DEF IInv, TypeOK, Versions, Times
<1>2. TypeOK /\ TypeOK'
  BY StepType DEF IInv
<1>3. \A v \in Versions : HeldUntil(v) \in Int /\ HeldUntil(v)' \in Int
  BY <1>1, <1>2 DEF TypeOK, HeldUntil
<1>4. /\ version <= version'
      /\ \A v \in Versions : v <= version => HeldUntil(v) <= HeldUntil(v)'
  BY <1>2, HistoryGrows
<1>5. CASE UNCHANGED <<value, expiresAt, bootVersion>>
  <2> SUFFICES ASSUME value # None
               PROVE  /\ value <= version' /\ bootVersion <= value
                      /\ expiresAt <= HeldUntil(value)' + TTL
    BY <1>5 DEF SlotInv
  <2>1. PICK v \in Versions : v = value
    BY <1>1
  <2>2. v <= version /\ bootVersion <= v /\ expiresAt <= HeldUntil(v) + TTL
    BY <2>1 DEF IInv, SlotInv
  <2>3. expiresAt <= HeldUntil(v)' + TTL
    BY <1>1, <1>3, <1>4, <2>2
  <2>4. HeldUntil(v)' = HeldUntil(value)'
    BY <1>5, <2>1 DEF HeldUntil
  <2> QED
    BY <1>1, <1>4, <2>1, <2>2, <2>3, <2>4
<1>6. ASSUME NEW c \in Callers, Store(c) PROVE SlotInv'
  <2>1. /\ value' = reply[c] /\ expiresAt' = now[c] + TTL
        /\ bootVersion' = bootVersion /\ pc[c] = "answered"
    BY <1>6 DEF Store
  <2>2. PICK v \in Versions : v = reply[c]
    BY <2>1 DEF IInv, CallInv
  <2>3. v <= version /\ bootVersion <= v /\ now[c] <= HeldUntil(v)
    BY <2>1, <2>2 DEF IInv, CallInv
  <2>4. now[c] \in Int
    BY <1>1, <1>2 DEF TypeOK
  <2>5. now[c] + TTL <= HeldUntil(v)' + TTL
    BY <1>1, <1>3, <1>4, <2>3, <2>4
  <2>6. HeldUntil(value)' = HeldUntil(v)'
    BY <2>1, <2>2 DEF HeldUntil
  <2> QED
    BY <1>1, <1>4, <2>1, <2>2, <2>3, <2>5, <2>6 DEF SlotInv
<1>7. CASE Stop
  BY <1>7 DEF Stop, SlotInv
<1>8. CASE Boot
  BY <1>8 DEF Boot, SlotInv, IInv, DownInv, cache
<1>9. \/ UNCHANGED <<value, expiresAt, bootVersion>>
      \/ Stop \/ Boot
      \/ \E c \in Callers : Store(c)
  BY DEF Next, CallStep, Environment, Call, Resume, VaultAnswers, FetchFails,
         Finish, Probe, Rotate, OutageBeginsOrEnds, Tick, vars, cache
<1> QED
  BY <1>5, <1>6, <1>7, <1>8, <1>9

\* A call that takes no step keeps its invariant, as long as the slot does
\* not move under the answer it carries.
LEMMA OtherCalls ==
  ASSUME TypeOK, [Next]_vars, NEW d \in Callers, CallInv(d),
         pc'[d] = pc[d], now'[d] = now[d], reply'[d] = reply[d],
         result'[d] = result[d], calledAt'[d] = calledAt[d],
         bootVersion' = bootVersion,
         pc[d] = "answered" => value' = value
  PROVE  CallInv(d)'
<1>1. /\ clock \in Int /\ version \in Int /\ bootVersion \in Int
      /\ version' \in Int /\ clock' \in Int
      /\ now[d] \in Int /\ calledAt[d] \in Int
      /\ \A v \in Versions : v \in Int
  BY StepType, BoundsAssumption DEF TypeOK, Versions, Times
<1>2. TypeOK'
  BY StepType
<1>3. \A v \in Versions : HeldUntil(v) \in Int /\ HeldUntil(v)' \in Int
  BY <1>1, <1>2, BoundsAssumption DEF TypeOK, HeldUntil, Times
<1>4. /\ version <= version' /\ clock <= clock'
      /\ \A v \in Versions : v <= version => HeldUntil(v) <= HeldUntil(v)'
  BY HistoryGrows
<1>5. calledAt'[d] <= clock'
  BY <1>1, <1>4 DEF CallInv
<1>6. pc'[d] = "idle" => result'[d] = None
  BY DEF CallInv
<1>7. result'[d] \in Versions => bootVersion' <= result'[d]
  BY DEF CallInv
<1>8. Fetching(d)' => calledAt'[d] <= now'[d] /\ now'[d] <= clock'
  BY <1>1, <1>4 DEF CallInv, Fetching
<1>9. ASSUME pc[d] = "answered"
      PROVE  /\ reply'[d] \in Versions /\ reply'[d] <= version' /\ bootVersion' <= reply'[d]
             /\ now'[d] <= HeldUntil(reply[d])'
             /\ value' # None => value' <= reply'[d]
  <2>1. PICK v \in Versions : v = reply[d]
    BY <1>9 DEF CallInv
  <2>2. v <= version /\ bootVersion <= v /\ now[d] <= HeldUntil(v)
    BY <1>9, <2>1 DEF CallInv
  <2>3. v <= version' /\ now[d] <= HeldUntil(v)'
    BY <1>1, <1>3, <1>4, <2>2
  <2>4. HeldUntil(reply[d])' = HeldUntil(v)'
    BY <2>1 DEF HeldUntil
  <2>5. value' # None => value' <= reply'[d]
    BY <1>9 DEF CallInv
  <2> QED
    BY <2>1, <2>2, <2>3, <2>4, <2>5
<1> QED
  BY <1>5, <1>6, <1>7, <1>8, <1>9 DEF CallInv

\* What a call has read stays in order, in every step of any call.
LEMMA StepCalls == IInv /\ [Next]_vars => \A d \in Callers : CallInv(d)'
<1> SUFFICES ASSUME IInv, [Next]_vars, NEW d \in Callers PROVE CallInv(d)'
  OBVIOUS
<1>1. TypeOK /\ TypeOK' /\ CallInv(d) /\ LockDiscipline
  BY StepType DEF IInv
<1>2. /\ clock \in Int /\ version \in Int /\ bootVersion \in Int
      /\ now[d] \in Int /\ calledAt[d] \in Int
      /\ \A v \in Versions : v \in Int
      /\ None \notin Versions
      /\ version \in Versions
  BY <1>1, BoundsAssumption, NoneAssumption DEF TypeOK, Versions, Times
<1>3. ASSUME NEW c \in Callers, c # d, CallStep(c) PROVE CallInv(d)'
  <2>1. /\ pc'[d] = pc[d] /\ now'[d] = now[d] /\ reply'[d] = reply[d]
        /\ result'[d] = result[d] /\ calledAt'[d] = calledAt[d]
        /\ bootVersion' = bootVersion
    BY <1>1, <1>3 DEF TypeOK, CallStep, Call, Resume, VaultAnswers, FetchFails,
       Store, Finish, Return, StartFetch
  <2>2. value' = value \/ Store(c)
    BY <1>3 DEF CallStep, Call, Resume, VaultAnswers, FetchFails, Finish, cache
  <2>3. Store(c) => pc[d] # "answered"
    BY <1>1, <1>3 DEF Store, LockDiscipline, Fetching
  <2> QED
    BY <1>1, <2>1, <2>2, <2>3, OtherCalls
<1>4. CASE Call(d)
  <2> USE <1>4 DEF Call
  <2>1. calledAt'[d] = clock /\ clock' = clock /\ bootVersion' = bootVersion
    BY <1>1 DEF TypeOK
  <2>2. CASE Fresh /\ Return(d, value) /\ UNCHANGED lock
    <3>1. pc'[d] = "returned" /\ result'[d] = value
      BY <1>1, <2>2 DEF TypeOK, Return
    <3>2. value # None /\ bootVersion <= value
      BY <2>2 DEF Fresh, IInv, SlotInv
    <3> QED
      BY <1>2, <2>1, <3>1, <3>2 DEF CallInv, Fetching
  <2>3. CASE ~Fresh /\ LockFree /\ StartFetch(d) /\ UNCHANGED queue
    <3>1. pc'[d] = "requested" /\ now'[d] = clock /\ result'[d] = result[d]
      BY <1>1, <2>3 DEF TypeOK, StartFetch
    <3> QED
      BY <1>1, <1>2, <2>1, <3>1 DEF CallInv, Fetching
  <2>4. CASE /\ ~Fresh /\ ~LockFree
             /\ queue' = Append(queue, d)
             /\ pc' = [pc EXCEPT ![d] = "queued"]
             /\ UNCHANGED <<holder, now, reply, result>>
    <3>1. pc'[d] = "queued" /\ result'[d] = result[d]
      BY <1>1, <2>4 DEF TypeOK
    <3> QED
      BY <1>1, <1>2, <2>1, <3>1 DEF CallInv, Fetching
  <2> QED
    BY <2>2, <2>3, <2>4
<1>5. CASE Resume(d)
  <2> USE <1>5 DEF Resume
  <2>1. calledAt'[d] = calledAt[d] /\ clock' = clock /\ bootVersion' = bootVersion
    OBVIOUS
  <2>2. CASE Fresh /\ Return(d, value) /\ UNCHANGED holder
    <3>1. pc'[d] = "returned" /\ result'[d] = value
      BY <1>1, <2>2 DEF TypeOK, Return
    <3>2. value # None /\ bootVersion <= value
      BY <2>2 DEF Fresh, IInv, SlotInv
    <3> QED
      BY <1>1, <1>2, <2>1, <3>1, <3>2 DEF CallInv, Fetching
  <2>3. CASE ~Fresh /\ StartFetch(d)
    <3>1. pc'[d] = "requested" /\ now'[d] = clock /\ result'[d] = result[d]
      BY <1>1, <2>3 DEF TypeOK, StartFetch
    <3> QED
      BY <1>1, <1>2, <2>1, <3>1 DEF CallInv, Fetching
  <2> QED
    BY <2>2, <2>3
<1>6. CASE VaultAnswers(d)
  <2>1. /\ pc[d] = "requested" /\ pc'[d] = "answered" /\ reply'[d] = version
        /\ UNCHANGED <<clock, version, replacedAt, now, result, calledAt, value, bootVersion>>
    BY <1>1, <1>6 DEF TypeOK, VaultAnswers, vault, cache
  <2>2. HeldUntil(reply[d])' = clock
    BY <2>1 DEF HeldUntil
  <2>3. now[d] <= clock /\ calledAt[d] <= now[d]
    BY <1>1, <2>1 DEF CallInv, Fetching
  <2>4. bootVersion <= version /\ (value # None => value <= version)
    BY DEF IInv, SlotInv
  <2> QED
    BY <1>1, <1>2, <2>1, <2>2, <2>3, <2>4 DEF CallInv, Fetching
<1>7. CASE FetchFails(d)
  <2>1. /\ pc'[d] = "returned" /\ result'[d] = Failed
        /\ UNCHANGED <<clock, calledAt, bootVersion>>
    BY <1>1, <1>7 DEF TypeOK, FetchFails, Return
  <2>2. Failed \notin Versions
    BY BoundsAssumption DEF Failed, Versions
  <2> QED
    BY <1>1, <2>1, <2>2 DEF CallInv, Fetching
<1>8. CASE Store(d)
  <2>1. /\ pc[d] = "answered" /\ pc'[d] = "returned" /\ result'[d] = reply[d]
        /\ UNCHANGED <<clock, calledAt, bootVersion>>
    BY <1>1, <1>8 DEF TypeOK, Store, Return
  <2> QED
    BY <1>1, <2>1 DEF CallInv, Fetching
<1>9. CASE Finish(d)
  <2>1. /\ pc'[d] = "idle" /\ result'[d] = None /\ calledAt'[d] = 0
        /\ UNCHANGED <<clock, bootVersion>>
    BY <1>1, <1>9 DEF TypeOK, Finish
  <2>2. 0 <= clock
    BY <1>1, BoundsAssumption DEF TypeOK, Times
  <2> QED
    BY <1>2, <2>1, <2>2 DEF CallInv, Fetching
<1>10. CASE Stop
  <2>1. /\ pc'[d] = "idle" /\ result'[d] = None /\ calledAt'[d] = 0
        /\ UNCHANGED <<clock, bootVersion>>
    BY <1>10 DEF Stop, DropCalls
  <2>2. 0 <= clock
    BY <1>1, BoundsAssumption DEF TypeOK, Times
  <2> QED
    BY <1>2, <2>1, <2>2 DEF CallInv, Fetching
<1>11. CASE Boot
  <2>1. pc[d] = "idle"
    BY <1>11 DEF Boot, IInv, DownInv
  <2>2. UNCHANGED <<clock, pc, result, calledAt>>
    BY <1>11 DEF Boot, calls
  <2> QED
    BY <1>1, <1>2, <2>1, <2>2 DEF CallInv, Fetching
<1>12. CASE Probe \/ Rotate \/ OutageBeginsOrEnds \/ Tick \/ UNCHANGED vars
  <2>1. UNCHANGED <<value, bootVersion, pc, now, reply, result, calledAt>>
    BY <1>12 DEF Probe, Rotate, OutageBeginsOrEnds, Tick, vars, cache, calls
  <2> QED
    BY <1>1, <2>1, OtherCalls
<1> QED
  BY <1>3, <1>4, <1>5, <1>6, <1>7, <1>8, <1>9, <1>10, <1>11, <1>12
     DEF Next, CallStep, Environment

-----------------------------------------------------------------------------
(* The inductive invariant and what follows from it                        *)

LEMMA InitIInv == Init => IInv
<1> SUFFICES ASSUME Init PROVE IInv
  OBVIOUS
<1>1. TypeOK
  BY InitType
<1>2. LockDiscipline
  <2>1. Len(queue) = 0 /\ holder = None /\ \A c \in Callers : pc[c] = "idle"
    BY DEF Init
  <2> QED
    BY <2>1, NoneAssumption DEF LockDiscipline, Fetching
<1>3. \A c \in Callers : CallInv(c)
  BY NoneAssumption DEF Init, CallInv, Fetching
<1>4. SlotInv /\ DownInv /\ bootVersion <= version
  BY DEF Init, SlotInv, DownInv
<1> QED
  BY <1>1, <1>2, <1>3, <1>4 DEF IInv

LEMMA StepIInv == IInv /\ [Next]_vars => IInv'
<1> SUFFICES ASSUME IInv, [Next]_vars PROVE IInv'
  OBVIOUS
<1>1. TypeOK /\ TypeOK'
  BY StepType DEF IInv
<1>2. bootVersion' = bootVersion \/ bootVersion' = version'
  BY DEF Next, CallStep, Environment, Call, Resume, VaultAnswers, FetchFails,
         Store, Finish, Probe, Stop, Boot, Rotate, OutageBeginsOrEnds, Tick,
         vars, vault
<1>3. bootVersion' <= version'
  <2>1. version \in Int /\ version' \in Int /\ bootVersion \in Int
    BY <1>1, BoundsAssumption DEF TypeOK, Versions
  <2>2. version <= version' /\ bootVersion <= version
    BY <1>1, HistoryGrows DEF IInv
  <2> QED
    BY <1>2, <2>1, <2>2
<1> QED
  BY <1>1, <1>3, StepLock, StepSlot, StepCalls, StepDown DEF IInv

LEMMA Inductive == Spec => []IInv
BY InitIInv, StepIInv, PTL DEF Spec

(* At most one call talks to the vault, and it holds the lock; nobody is   *)
(* lost in the queue, or in it twice.                                      *)
THEOREM LockCorrect == Spec => []LockDiscipline
<1>1. IInv => LockDiscipline
  BY DEF IInv
<1> QED
  BY <1>1, Inductive, PTL

\* A fresh slot expires at most one TTL after the vault last held its key.
LEMMA FreshSlot == IInv /\ Fresh => HeldUntil(value) > clock - TTL
<1> SUFFICES ASSUME IInv, Fresh PROVE HeldUntil(value) > clock - TTL
  OBVIOUS
<1>1. /\ clock \in Int /\ expiresAt \in Int /\ TTL \in Int
      /\ value \in Versions
      /\ HeldUntil(value) \in Int
  BY TTLAssumption, BoundsAssumption DEF IInv, TypeOK, Fresh, HeldUntil, Times
<1>2. clock < expiresAt /\ expiresAt <= HeldUntil(value) + TTL
  BY DEF Fresh, IInv, SlotInv
<1> QED
  BY <1>1, <1>2

(* A key that was rotated out leaves the cache of the replica within one   *)
(* TTL of the rotation, however slow the vault is.                         *)
THEOREM SlotFreshness == Spec => []SlotWithinTTL
<1>1. IInv => SlotWithinTTL
  BY FreshSlot DEF SlotWithinTTL
<1> QED
  BY <1>1, Inductive, PTL

(* Rotating the secret and restarting the app leaves nothing of the old    *)
(* key behind.                                                             *)
THEOREM BootPurgesOldKeys == Spec => []NothingFromBeforeBoot
<1>1. IInv => NothingFromBeforeBoot
  BY DEF IInv, SlotInv, CallInv, NothingFromBeforeBoot
<1> QED
  BY <1>1, Inductive, PTL

(* Every key a call ends with was the vault's less than one TTL ago, or    *)
(* since the call began.                                                   *)
THEOREM KeyFreshness == Spec => KeyWithinTTL
<1> DEFINE A == \A c \in Callers :
                  (pc[c] # "returned" /\ pc'[c] = "returned" /\ result'[c] # Failed)
                  => \/ HeldUntil(result'[c]) > clock - TTL
                     \/ HeldUntil(result'[c]) >= calledAt'[c]
<1>1. ASSUME IInv, [Next]_vars PROVE A
  <2> SUFFICES ASSUME NEW c \in Callers, pc[c] # "returned", pc'[c] = "returned",
                      result'[c] # Failed
               PROVE  \/ HeldUntil(result'[c]) > clock - TTL
                      \/ HeldUntil(result'[c]) >= calledAt'[c]
    OBVIOUS
  <2>1. TypeOK /\ CallInv(c)
    BY <1>1 DEF IInv
  <2>2. ASSUME Call(c) \/ Resume(c) PROVE Fresh /\ result'[c] = value
    BY <2>1, <2>2 DEF TypeOK, Call, Resume, StartFetch, Return
  <2>3. ASSUME Store(c)
        PROVE  pc[c] = "answered" /\ result'[c] = reply[c] /\ calledAt' = calledAt
    BY <2>1, <2>3 DEF TypeOK, Store, Return
  <2>4. Call(c) \/ Resume(c) \/ Store(c)
    <3>1. ASSUME NEW d \in Callers, d # c, CallStep(d) PROVE FALSE
      BY <2>1, <3>1 DEF TypeOK, CallStep, Call, Resume, VaultAnswers, FetchFails,
         Store, Finish, Return, StartFetch
    <3>2. ~(VaultAnswers(c) \/ FetchFails(c) \/ Finish(c))
      BY <2>1 DEF TypeOK, VaultAnswers, FetchFails, Finish, Return
    <3>3. ASSUME Environment \/ UNCHANGED vars PROVE FALSE
      BY <3>3 DEF Environment, Probe, Stop, DropCalls, Boot, Rotate,
         OutageBeginsOrEnds, Tick, vars, calls
    <3> QED
      BY <1>1, <3>1, <3>2, <3>3 DEF Next, CallStep
  <2>5. CASE Call(c) \/ Resume(c)
    BY <1>1, <2>2, <2>5, FreshSlot
  <2>6. CASE Store(c)
    <3>1. now[c] <= HeldUntil(reply[c]) /\ calledAt[c] <= now[c] /\ reply[c] \in Versions
      BY <2>1, <2>3, <2>6 DEF CallInv, Fetching
    <3>2. now[c] \in Int /\ calledAt[c] \in Int /\ HeldUntil(reply[c]) \in Int
      BY <2>1, <3>1, BoundsAssumption DEF TypeOK, HeldUntil, Times
    <3> QED
      BY <2>3, <2>6, <3>1, <3>2
  <2> QED
    BY <2>4, <2>5, <2>6
<1>2. IInv /\ [Next]_vars => [A]_vars
  BY <1>1
<1> QED
  BY <1>2, Inductive, PTL DEF Spec, KeyWithinTTL

(* An answer overtaken by a rotation never replaces a newer key.           *)
THEOREM SlotMonotone == Spec => SlotMovesForward
<1> DEFINE A == value # None /\ value' # None => value' >= value
<1>1. ASSUME IInv, [Next]_vars PROVE A
  <2>1. TypeOK
    BY <1>1 DEF IInv
  <2>2. value # None => value \in Int
    BY <2>1, BoundsAssumption DEF TypeOK, Versions
  <2>3. ASSUME NEW c \in Callers, Store(c) PROVE A
    <3>1. pc[c] = "answered" /\ value' = reply[c]
      BY <2>3 DEF Store
    <3>2. reply[c] \in Int /\ (value # None => value <= reply[c])
      BY <1>1, <3>1, BoundsAssumption DEF IInv, CallInv, Versions
    <3> QED
      BY <2>2, <3>1, <3>2
  <2>4. CASE value' = value \/ value' = None
    BY <2>2, <2>4
  <2>5. value' = value \/ value' = None \/ \E c \in Callers : Store(c)
    BY <1>1 DEF Next, CallStep, Environment, Call, Resume, VaultAnswers,
       FetchFails, Finish, Probe, Stop, Boot, Rotate, OutageBeginsOrEnds, Tick,
       vars, cache
  <2> QED
    BY <2>3, <2>4, <2>5
<1>2. IInv /\ [Next]_vars => [A]_vars
  BY <1>1
<1> QED
  BY <1>2, Inductive, PTL DEF Spec, SlotMovesForward

\* Whoever talks to the vault does so because the slot holds nothing fresh.
FetchStale == \A c \in Callers : Fetching(c) => ~Fresh

LEMMA StepStale == IInv /\ FetchStale /\ [Next]_vars => FetchStale'
<1> SUFFICES ASSUME IInv, FetchStale, [Next]_vars PROVE FetchStale'
  OBVIOUS
<1>0. TypeOK /\ LockDiscipline /\ DownInv
  BY DEF IInv
<1>1. ASSUME NEW c \in Callers, StartFetch(c), ~Fresh, UNCHANGED <<clock, cache>>
      PROVE  FetchStale'
  BY <1>1 DEF FetchStale, Fresh, cache
<1>2. ASSUME NEW c \in Callers, UNCHANGED <<clock, cache>>,
             \A d \in Callers : Fetching(d)' => Fetching(d)
      PROVE  FetchStale'
  BY <1>2 DEF FetchStale, Fresh, cache
<1>3. ASSUME NEW c \in Callers, Call(c) PROVE FetchStale'
  <2>1. UNCHANGED <<clock, cache>>
    BY <1>3 DEF Call
  <2>2. CASE StartFetch(c) /\ ~Fresh
    BY <1>1, <2>1, <2>2
  <2>3. CASE pc' = [pc EXCEPT ![c] = "returned"] \/ pc' = [pc EXCEPT ![c] = "queued"]
    BY <1>0, <1>2, <2>1, <2>3 DEF Fetching, TypeOK
  <2> QED
    BY <1>3, <2>2, <2>3 DEF Call, Return
<1>4. ASSUME NEW c \in Callers, Resume(c) PROVE FetchStale'
  <2>1. UNCHANGED <<clock, cache>>
    BY <1>4 DEF Resume
  <2>2. CASE StartFetch(c) /\ ~Fresh
    BY <1>1, <2>1, <2>2
  <2>3. CASE pc' = [pc EXCEPT ![c] = "returned"]
    BY <1>0, <1>2, <2>1, <2>3 DEF Fetching, TypeOK
  <2> QED
    BY <1>4, <2>2, <2>3 DEF Resume, Return
<1>5. ASSUME NEW c \in Callers, VaultAnswers(c) \/ FetchFails(c) \/ Finish(c)
      PROVE  FetchStale'
  <2>1. UNCHANGED <<clock, cache>> /\ \A d \in Callers : Fetching(d)' => Fetching(d)
    BY <1>0, <1>5 DEF VaultAnswers, FetchFails, Finish, Return, Fetching, TypeOK
  <2> QED
    BY <1>2, <2>1
<1>6. ASSUME NEW c \in Callers, Store(c) PROVE FetchStale'
  <2>1. /\ holder = c
        /\ pc' = [pc EXCEPT ![c] = "returned"]
    BY <1>0, <1>6 DEF Store, Return, LockDiscipline, Fetching
  <2>2. \A d \in Callers : ~Fetching(d)'
    BY <1>0, <2>1 DEF LockDiscipline, Fetching, TypeOK
  <2> QED
    BY <2>2 DEF FetchStale
<1>7. CASE Probe \/ Boot \/ Rotate \/ OutageBeginsOrEnds \/ UNCHANGED vars
  BY <1>7 DEF Probe, Boot, Rotate, OutageBeginsOrEnds, vars, calls, cache,
     FetchStale, Fetching, Fresh
<1>8. CASE Stop
  BY <1>8 DEF Stop, DropCalls, FetchStale, Fetching
<1>9. CASE Tick
  <2>1. clock \in Int /\ clock' = clock + 1 /\ expiresAt \in Int /\ UNCHANGED <<cache, pc>>
    BY <1>0, <1>9, BoundsAssumption DEF Tick, TypeOK, Times, calls
  <2> QED
    BY <2>1 DEF FetchStale, Fetching, Fresh, cache
<1> QED
  BY <1>3, <1>4, <1>5, <1>6, <1>7, <1>8, <1>9 DEF Next, CallStep, Environment

(* However calls, outages, rotations and restarts interleave, the vault is *)
(* asked once per expiry: no answer replaces a key that is still fresh.    *)
THEOREM OneFetch == Spec => OneFetchPerExpiry
<1> DEFINE A == cache' # cache /\ value' # None => ~Fresh
<1>1. Init => FetchStale
  BY DEF Init, FetchStale, Fetching
<1>2. ASSUME IInv, FetchStale, [Next]_vars PROVE A
  <2>1. ASSUME NEW c \in Callers, Store(c) PROVE ~Fresh
    BY <1>2, <2>1 DEF Store, FetchStale, Fetching
  <2>2. cache' = cache \/ value' = None \/ \E c \in Callers : Store(c)
    BY <1>2 DEF Next, CallStep, Environment, Call, Resume, VaultAnswers,
       FetchFails, Finish, Probe, Stop, Boot, Rotate, OutageBeginsOrEnds, Tick, vars
  <2> QED
    BY <2>1, <2>2
<1>3. IInv /\ FetchStale /\ [Next]_vars => [A]_vars
  BY <1>2
<1> QED
  BY <1>1, <1>3, InitIInv, StepIInv, StepStale, PTL DEF Spec, OneFetchPerExpiry

-----------------------------------------------------------------------------
(* The cache implements SigningKey                                         *)

\* The phase of SigningKey that a place in the code stands for.
phaseOf(p) ==
  IF p \in {"queued", "requested", "answered"} THEN "asked"
  ELSE IF p = "returned" THEN "answered"
  ELSE "idle"

phaseBar == [c \in Callers |-> phaseOf(pc[c])]
floorBar == IF value = None THEN bootVersion ELSE value

\* A call that moves from one place to another moves its phase only.
LEMMA PhaseMoves ==
  ASSUME TypeOK, NEW c \in Callers, NEW p,
         pc' = [pc EXCEPT ![c] = p]
  PROVE  phaseBar' = [phaseBar EXCEPT ![c] = phaseOf(p)]
BY DEF TypeOK, phaseBar

LEMMA InitPromise == Init => Promise!Init
<1> SUFFICES ASSUME Init PROVE Promise!Init
  OBVIOUS
<1>1. phaseBar = [c \in Callers |-> "idle"] /\ floorBar = 0
  BY DEF Init, phaseBar, floorBar, phaseOf
<1> QED
  BY <1>1 DEF Init, Promise!Init, Promise!Versions, Versions, phaseBar, floorBar, phaseOf

LEMMA StepPromise == IInv /\ [Next]_vars => [Promise!Next]_(Promise!vars)
<1> SUFFICES ASSUME IInv, [Next]_vars PROVE [Promise!Next]_(Promise!vars)
  OBVIOUS
<1>1. TypeOK /\ TypeOK'
  BY StepType DEF IInv
<1>2. /\ Promise!Versions = Versions
      /\ Promise!Failed = Failed
      /\ \A v : Promise!HeldUntil(v) = HeldUntil(v)
  BY DEF Promise!Versions, Versions, Promise!Failed, Failed, Promise!HeldUntil, HeldUntil
<1>3. /\ clock \in Int /\ version \in Int /\ TTL \in Int
      /\ \A v \in Versions : v \in Int
      /\ version \in Versions /\ bootVersion \in Versions
      /\ floorBar \in Versions /\ floorBar <= version
  BY <1>1, TTLAssumption, BoundsAssumption
     DEF TypeOK, Versions, Times, IInv, SlotInv, floorBar
<1>4. ASSUME NEW c \in Callers, CallStep(c)
      PROVE  [Promise!Next]_(Promise!vars)
  <2>1. \A d \in Callers : pc[d] # "idle" => up
    BY DEF IInv, DownInv
  <2>2. CASE Call(c)
    <3> USE <2>2 DEF Call, vault, cache
    <3>1. CASE Fresh /\ Return(c, value) /\ UNCHANGED lock
      <4>1. value \in floorBar .. version /\ floorBar' = value
        BY <1>1, <1>3, <3>1 DEF TypeOK, floorBar, Fresh, IInv, SlotInv
      <4>2. HeldUntil(value) > clock - TTL
        BY <3>1, FreshSlot
      <4>3. phaseBar[c] = "idle" /\ phaseBar' = [phaseBar EXCEPT ![c] = "answered"]
        BY <1>1, <3>1, PhaseMoves DEF Return, phaseBar, phaseOf
      <4>4. Promise!Answer(c)
        BY <1>2, <3>1, <4>1, <4>2, <4>3
           DEF Promise!Answer, Promise!Recent, Return, phaseBar, floorBar, phaseOf
      <4> QED
        BY <4>4 DEF Promise!Next
    <3>2. CASE ~(Fresh /\ Return(c, value) /\ UNCHANGED lock)
      <4>1. PICK p \in {"queued", "requested"} : pc' = [pc EXCEPT ![c] = p]
        BY <3>2 DEF StartFetch
      <4>2. phaseBar[c] = "idle" /\ phaseBar' = [phaseBar EXCEPT ![c] = "asked"]
        BY <1>1, <4>1, PhaseMoves DEF phaseBar, phaseOf
      <4>3. result' = result
        BY <3>2 DEF StartFetch
      <4>4. Promise!Ask(c)
        BY <4>2, <4>3 DEF Promise!Ask, phaseBar, floorBar, phaseOf
      <4> QED
        BY <4>4 DEF Promise!Next
    <3> QED
      BY <3>1, <3>2
  <2>3. CASE Resume(c)
    <3> USE <2>3 DEF Resume, vault, cache
    <3>1. CASE Fresh /\ Return(c, value) /\ UNCHANGED holder
      <4>1. value \in floorBar .. version /\ floorBar' = value
        BY <1>1, <1>3, <3>1 DEF TypeOK, floorBar, Fresh, IInv, SlotInv
      <4>2. HeldUntil(value) > clock - TTL
        BY <3>1, FreshSlot
      <4>3. phaseBar[c] = "asked" /\ phaseBar' = [phaseBar EXCEPT ![c] = "answered"]
        BY <1>1, <3>1, PhaseMoves DEF Return, phaseBar, phaseOf
      <4>4. Promise!Answer(c)
        BY <1>2, <2>1, <3>1, <4>1, <4>2, <4>3
           DEF Promise!Answer, Promise!Recent, Return, phaseBar, floorBar, phaseOf
      <4> QED
        BY <4>4 DEF Promise!Next
    <3>2. CASE ~Fresh /\ StartFetch(c)
      <4>1. phaseBar[c] = "asked" /\ phaseBar' = [phaseBar EXCEPT ![c] = "asked"]
        BY <1>1, <3>2, PhaseMoves DEF StartFetch, phaseBar, phaseOf
      <4>2. phaseBar' = phaseBar
        BY <4>1 DEF phaseBar
      <4> QED
        BY <3>2, <4>2 DEF StartFetch, Promise!vars, phaseBar, floorBar, phaseOf
    <3> QED
      BY <3>1, <3>2
  <2>4. CASE VaultAnswers(c)
    <3> USE <2>4 DEF VaultAnswers, vault, cache
    <3>1. phaseBar[c] = "asked" /\ phaseBar' = [phaseBar EXCEPT ![c] = "asked"]
      BY <1>1, PhaseMoves DEF phaseBar, phaseOf
    <3>2. phaseBar' = phaseBar
      BY <3>1 DEF phaseBar
    <3> QED
      BY <3>2 DEF Promise!vars, phaseBar, floorBar, phaseOf
  <2>5. CASE FetchFails(c)
    <3> USE <2>5 DEF FetchFails, Return, vault, cache
    <3>1. phaseBar[c] = "asked" /\ phaseBar' = [phaseBar EXCEPT ![c] = "answered"]
      BY <1>1, PhaseMoves DEF phaseBar, phaseOf
    <3>2. Promise!Refuse(c)
      BY <1>2, <3>1 DEF Promise!Refuse, phaseBar, floorBar, phaseOf
    <3> QED
      BY <3>2 DEF Promise!Next
  <2>6. CASE Store(c)
    <3> USE <2>6 DEF Store, Return, vault
    <3>1. /\ reply[c] \in Versions /\ reply[c] <= version /\ bootVersion <= reply[c]
          /\ value # None => value <= reply[c]
          /\ calledAt[c] <= now[c] /\ now[c] <= HeldUntil(reply[c])
      BY DEF IInv, CallInv, Fetching
    <3>2. reply[c] \in floorBar .. version /\ floorBar' = reply[c]
      <4>1. reply[c] # None
        BY <3>1, NoneAssumption
      <4>2. floorBar' = reply[c]
        BY <4>1 DEF floorBar
      <4>3. floorBar <= reply[c]
        BY <3>1 DEF floorBar
      <4>4. reply[c] \in Int /\ floorBar \in Int /\ version \in Int
        BY <1>3, <3>1
      <4> QED
        BY <3>1, <4>2, <4>3, <4>4
    <3>3. HeldUntil(reply[c]) >= calledAt[c]
      <4>1. now[c] \in Int /\ calledAt[c] \in Int /\ HeldUntil(reply[c]) \in Int
        BY <1>1, <3>1, BoundsAssumption DEF TypeOK, HeldUntil, Times
      <4> QED
        BY <3>1, <4>1
    <3>4. phaseBar[c] = "asked" /\ phaseBar' = [phaseBar EXCEPT ![c] = "answered"]
      BY <1>1, PhaseMoves DEF phaseBar, phaseOf
    <3>5. Promise!Answer(c)
      BY <1>2, <2>1, <3>2, <3>3, <3>4
         DEF Promise!Answer, Promise!Recent, phaseBar, floorBar, phaseOf
    <3> QED
      BY <3>5 DEF Promise!Next
  <2>7. CASE Finish(c)
    <3> USE <2>7 DEF Finish, vault, cache
    <3>1. phaseBar[c] = "answered" /\ phaseBar' = [phaseBar EXCEPT ![c] = "idle"]
      BY <1>1, PhaseMoves DEF phaseBar, phaseOf
    <3>2. Promise!Forget(c)
      BY <3>1 DEF Promise!Forget, phaseBar, floorBar, phaseOf
    <3> QED
      BY <3>2 DEF Promise!Next
  <2> QED
    BY <1>4, <2>2, <2>3, <2>4, <2>5, <2>6, <2>7 DEF CallStep
<1>5. CASE Stop
  <2> USE <1>5 DEF Stop, DropCalls, vault
  <2>1. phaseBar' = [c \in Callers |-> "idle"] /\ floorBar' \in Versions
    BY <1>1 DEF TypeOK, phaseBar, floorBar, phaseOf
  <2>2. Promise!Stop
    BY <1>2, <2>1 DEF Promise!Stop, phaseBar, floorBar, phaseOf
  <2> QED
    BY <2>2 DEF Promise!Next
<1>6. CASE Boot
  <2> USE <1>6 DEF Boot, PingOk, Parses, vault, cache, calls
  <2>1. phaseBar' = phaseBar /\ floorBar' = version
    BY DEF IInv, DownInv, phaseBar, floorBar
  <2>2. Promise!Boot
    BY <2>1 DEF Promise!Boot, phaseBar, floorBar, phaseOf
  <2> QED
    BY <2>2 DEF Promise!Next
<1>7. CASE Rotate
  <2>1. Promise!Rotate
    BY <1>7 DEF Rotate, Promise!Rotate, cache, calls
  <2> QED
    BY <2>1 DEF Promise!Next
<1>8. CASE OutageBeginsOrEnds
  <2>1. Promise!OutageBeginsOrEnds
    BY <1>8 DEF OutageBeginsOrEnds, Promise!OutageBeginsOrEnds, cache, calls
  <2> QED
    BY <2>1 DEF Promise!Next
<1>9. CASE Tick
  <2>1. Promise!Tick
    BY <1>9 DEF Tick, Promise!Tick, vault, cache, calls
  <2> QED
    BY <2>1 DEF Promise!Next
<1>10. CASE Probe \/ UNCHANGED vars
  BY <1>10 DEF Probe, vars, vault, cache, calls, Promise!vars
<1> QED
  BY <1>4, <1>5, <1>6, <1>7, <1>8, <1>9, <1>10 DEF Next, Environment

(* Every behaviour of the cache is one that SigningKey allows: the lock,   *)
(* the queue, the two checks and the fetches show in nothing but the       *)
(* answers, and those are recent and never go back.                        *)
THEOREM KeepsItsPromise == Spec => KeepsPromise
<1>1. Init => Promise!Init
  BY InitPromise
<1>2. IInv /\ [Next]_vars => [Promise!Next]_(Promise!vars)
  BY StepPromise
<1> QED
  BY <1>1, <1>2, Inductive, PTL DEF Spec, KeepsPromise, Promise!Spec
=============================================================================
