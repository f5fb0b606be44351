--------------------------- MODULE AuthGate_proofs ---------------------------
(***************************************************************************)
(* Proofs about AuthGate, for every set of requests and of credentials, in *)
(* both modes.  A step of the gate is a step of the cache or leaves it     *)
(* alone, so what KeyCache_proofs knows of the slot and of the calls holds *)
(* behind the gate; a verdict is given in the step that ends a call, by    *)
(* what the call has ended with.                                           *)
(***************************************************************************)
EXTENDS AuthGate, KeyCache_proofs

Statuses == {None, 200, 401, 403, 503}

\* The types of what the gate adds to the cache.
AuthRest ==
  /\ credential \in [Callers -> Credentials \cup {None}]
  /\ route \in [Callers -> Routes \cup {None}]
  /\ status \in [Callers -> Statuses]
  /\ devAuth \in BOOLEAN

AuthInv == IInv /\ FetchStale /\ AuthRest

-----------------------------------------------------------------------------
(* The gate and the cache                                                  *)

LEMMA GateStep == [AuthNext]_authVars => [Next]_vars
<1> SUFFICES ASSUME [AuthNext]_authVars PROVE [Next]_vars
  OBVIOUS
<1>1. ASSUME NEW c \in Callers,
             RefuseHeader(c) \/ DecodeUnverified(c) \/ DecodeVerified(c)
               \/ AwaitKey(c) \/ Respond(c)
      PROVE  UNCHANGED vars \/ CallStep(c)
  BY <1>1 DEF RefuseHeader, DecodeUnverified, DecodeVerified, AwaitKey, Respond, CallStep
<1>2. CASE StopGate \/ GateEnvironment
  BY <1>2 DEF StopGate, GateEnvironment, Next, Environment
<1>3. CASE UNCHANGED authVars
  BY <1>3 DEF authVars
<1> QED
  BY <1>1, <1>2, <1>3 DEF AuthNext, Next

(* The gate uses the cache as its specification has it: every theorem      *)
(* about KeyCache holds behind the gate.                                   *)
THEOREM GateUsesCache == AuthSpec => Spec
<1>1. AuthInit => Init
  BY DEF AuthInit
<1> QED
  BY <1>1, GateStep, PTL DEF AuthSpec, Spec

-----------------------------------------------------------------------------
(* Type correctness                                                        *)

LEMMA VerdictTypes ==
  ASSUME NEW cred, NEW rt, NEW r
  PROVE  /\ Verdict(cred, rt, r) \in Statuses
         /\ DevVerdict(cred, rt) \in Statuses \ {503}
         /\ Verdict(cred, rt, r) = 503 => r = Failed
         /\ Verdict(cred, rt, r) = 200 => r # Failed /\ Verifies(cred, r)
BY DEF Verdict, DevVerdict, Authorise, Statuses

LEMMA StepRest == AuthRest /\ [AuthNext]_authVars => AuthRest'
<1> SUFFICES ASSUME AuthRest, [AuthNext]_authVars PROVE AuthRest'
  OBVIOUS
<1>1. ASSUME NEW c \in Callers, NEW cred \in Credentials, NEW r \in Routes,
             Present(c, cred, r)
      PROVE  /\ credential' \in [Callers -> Credentials \cup {None}]
             /\ route' \in [Callers -> Routes \cup {None}]
             /\ devAuth' \in BOOLEAN
  BY <1>1 DEF Present, AuthRest
<1>2. ASSUME NEW c \in Callers, NEW s \in Statuses, Answer(c, s)
      PROVE  status' \in [Callers -> Statuses]
  BY <1>2 DEF Answer, AuthRest
<1>3. ASSUME NEW c \in Callers, Judge(c) PROVE status' \in [Callers -> Statuses]
  BY <1>2, <1>3, VerdictTypes DEF Judge, AuthRest
<1>4. ASSUME NEW c \in Callers, RefuseHeader(c) \/ DecodeUnverified(c) PROVE AuthRest'
  BY <1>1, <1>2, <1>4, VerdictTypes DEF RefuseHeader, DecodeUnverified, AuthRest, Statuses
<1>5. ASSUME NEW c \in Callers, DecodeVerified(c) PROVE AuthRest'
  BY <1>1, <1>3, <1>5 DEF DecodeVerified, AuthRest
<1>6. ASSUME NEW c \in Callers, AwaitKey(c) PROVE AuthRest'
  BY <1>3, <1>6 DEF AwaitKey, AuthRest
<1>7. ASSUME NEW c \in Callers, Respond(c) PROVE AuthRest'
  BY <1>7 DEF Respond, Answer, AuthRest, Statuses
<1>8. CASE StopGate
  BY <1>8 DEF StopGate, AuthRest, Statuses
<1>9. CASE GateEnvironment \/ UNCHANGED authVars
  BY <1>9 DEF GateEnvironment, authVars, auth, requests, AuthRest
<1> QED
  BY <1>4, <1>5, <1>6, <1>7, <1>8, <1>9 DEF AuthNext

(* The invariant that the theorems below rest on: that of the cache, and   *)
(* that nobody fetches over a slot that is fresh.                          *)
THEOREM AuthInductive == AuthSpec => []AuthInv
<1>1. AuthInit => AuthInv
  BY InitIInv DEF AuthInit, Init, AuthInv, AuthRest, FetchStale, Fetching, Statuses
<1>2. AuthInv /\ [AuthNext]_authVars => AuthInv'
  BY GateStep, StepIInv, StepStale, StepRest DEF AuthInv
<1> QED
  BY <1>1, <1>2, PTL DEF AuthSpec

(* The variables of the gate keep their types: a request is answered with  *)
(* nothing but 200, 401, 403 and 503.                                      *)
THEOREM AuthTypeCorrect == AuthSpec => []AuthTypeOK
<1>1. AuthInv => AuthTypeOK
  BY DEF AuthInv, IInv, AuthRest, Statuses, AuthTypeOK
<1> QED
  BY <1>1, AuthInductive, PTL

-----------------------------------------------------------------------------
(* Verdicts                                                                *)

\* A request gets a status of its own only where it is judged.
LEMMA Judged ==
  ASSUME AuthInv, [AuthNext]_authVars, NEW c \in Callers,
         status'[c] # status[c], status'[c] # None
  PROVE  \/ status'[c] = 401
         \/ devAuth /\ status'[c] # 503
         \/ /\ Call(c) \/ Resume(c) \/ VaultAnswers(c) \/ FetchFails(c) \/ Store(c)
            /\ pc'[c] = "returned"
            /\ status'[c] = Verdict(credential'[c], route'[c], result'[c])
<1>0. status \in [Callers -> Statuses]
  BY DEF AuthInv, AuthRest
<1>1. ASSUME NEW d \in Callers, NEW s, Answer(d, s) PROVE c = d /\ status'[c] = s
  BY <1>0, <1>1 DEF Answer
<1>2. ASSUME NEW d \in Callers, Judge(d)
      PROVE  /\ c = d /\ pc'[c] = "returned"
             /\ status'[c] = Verdict(credential'[c], route'[c], result'[c])
  BY <1>1, <1>2 DEF Judge
<1>3. ASSUME NEW d \in Callers, RefuseHeader(d) PROVE status'[c] = 401
  BY <1>1, <1>3 DEF RefuseHeader
<1>4. ASSUME NEW d \in Callers, DecodeUnverified(d) PROVE devAuth /\ status'[c] # 503
  BY <1>1, <1>4, VerdictTypes DEF DecodeUnverified
<1>5. ASSUME NEW d \in Callers, Respond(d) PROVE FALSE
  BY <1>1, <1>5 DEF Respond
<1>6. CASE StopGate \/ GateEnvironment \/ UNCHANGED authVars
  BY <1>6 DEF StopGate, GateEnvironment, authVars, auth, requests
<1>7. ASSUME NEW d \in Callers, DecodeVerified(d) PROVE Call(d) /\ Judge(d)
  BY <1>7 DEF DecodeVerified
<1>8. ASSUME NEW d \in Callers, AwaitKey(d)
      PROVE  (Resume(d) \/ VaultAnswers(d) \/ FetchFails(d) \/ Store(d)) /\ Judge(d)
  BY <1>8 DEF AwaitKey
<1> QED
  BY <1>2, <1>3, <1>4, <1>5, <1>6, <1>7, <1>8 DEF AuthNext

\* How a call of the cache ends: with what the slot holds, with the answer
\* of the vault, or with the error of a fetch.
LEMMA CallEnds ==
  ASSUME AuthInv, NEW c \in Callers, pc'[c] = "returned",
         Call(c) \/ Resume(c) \/ VaultAnswers(c) \/ FetchFails(c) \/ Store(c)
  PROVE  /\ \/ Fresh /\ value \in Versions /\ result'[c] = value
            \/ /\ CallInv(c) /\ pc[c] = "answered"
               /\ reply[c] \in Versions /\ result'[c] = reply[c]
               /\ calledAt' = calledAt
            \/ result'[c] = Failed /\ ~reachable /\ ~Fresh /\ FetchFails(c)
         /\ bootVersion' = bootVersion
<1>1. TypeOK /\ CallInv(c) /\ FetchStale
  BY DEF AuthInv, IInv
<1>2. ASSUME Call(c) \/ Resume(c) PROVE Fresh /\ result'[c] = value
  BY <1>1, <1>2 DEF TypeOK, Call, Resume, StartFetch, Return
<1>3. ASSUME VaultAnswers(c) PROVE FALSE
  BY <1>1, <1>3 DEF TypeOK, VaultAnswers
<1>4. ASSUME FetchFails(c) PROVE result'[c] = Failed /\ ~reachable /\ ~Fresh
  BY <1>1, <1>4 DEF TypeOK, FetchFails, Return, FetchStale, Fetching
<1>5. ASSUME Store(c)
      PROVE  /\ pc[c] = "answered" /\ reply[c] \in Versions
             /\ result'[c] = reply[c] /\ calledAt' = calledAt
  BY <1>1, <1>5 DEF TypeOK, Store, Return, CallInv
<1>6. Fresh => value \in Versions
  BY <1>1 DEF TypeOK, Fresh
<1>7. bootVersion' = bootVersion
  BY DEF Call, Resume, VaultAnswers, FetchFails, Store
<1> QED
  BY <1>1, <1>2, <1>3, <1>4, <1>5, <1>6, <1>7

(* 503 is for a verifier that is degraded: it is answered only while the   *)
(* vault is unreachable and the slot holds no key that could answer.       *)
THEOREM DegradedOnly == AuthSpec => DegradedMeansNoKey
<1> DEFINE A == \A c \in Callers : status[c] # 503 /\ status'[c] = 503 =>
                                     ~reachable /\ ~Fresh'
<1>1. ASSUME AuthInv, [AuthNext]_authVars PROVE A
  <2> SUFFICES ASSUME NEW c \in Callers, status[c] # 503, status'[c] = 503
               PROVE  ~reachable /\ ~Fresh'
    OBVIOUS
  <2>1. /\ Call(c) \/ Resume(c) \/ VaultAnswers(c) \/ FetchFails(c) \/ Store(c)
        /\ pc'[c] = "returned"
        /\ status'[c] = Verdict(credential'[c], route'[c], result'[c])
    BY <1>1, Judged, StatusAssumption
  <2>2. result'[c] = Failed
    BY <2>1, VerdictTypes
  <2>3. Failed \notin Versions
    BY DEF Failed, Versions
  <2>4. ~reachable /\ ~Fresh /\ FetchFails(c)
    BY <1>1, <2>1, <2>2, <2>3, CallEnds
  <2> QED
    BY <2>4 DEF FetchFails, Fresh, cache
<1>2. AuthInv /\ [AuthNext]_authVars => [A]_authVars
  BY <1>1
<1> QED
  BY <1>2, AuthInductive, PTL DEF AuthSpec, DegradedMeansNoKey

(* Whoever is admitted outside development mode has a token of a key that  *)
(* the vault held less than one TTL ago or since the request came, and     *)
(* that is not older than the replica's boot.                              *)
THEOREM AdmittedOnRecentKey == AuthSpec => AdmittedKeyRecent
<1> DEFINE A == \A c \in Callers : Admitted(c) /\ ~devAuth =>
                  LET k == credential'[c].signer IN
                  /\ k # None
                  /\ HeldUntil(k) > clock - TTL \/ HeldUntil(k) >= calledAt'[c]
                  /\ k >= bootVersion
<1>1. ASSUME AuthInv, [AuthNext]_authVars PROVE A
  <2> SUFFICES ASSUME NEW c \in Callers, Admitted(c), ~devAuth,
                      NEW k, k = credential'[c].signer
               PROVE  /\ k # None
                      /\ HeldUntil(k) > clock - TTL \/ HeldUntil(k) >= calledAt'[c]
                      /\ k >= bootVersion
    OBVIOUS
  <2>0. IInv /\ TypeOK /\ TypeOK' /\ CallInv(c)'
    BY <1>1, GateStep, StepIInv DEF AuthInv, IInv
  <2>1. /\ Call(c) \/ Resume(c) \/ VaultAnswers(c) \/ FetchFails(c) \/ Store(c)
        /\ pc'[c] = "returned"
        /\ status'[c] = Verdict(credential'[c], route'[c], result'[c])
    BY <1>1, Judged, StatusAssumption DEF Admitted
  <2>2. result'[c] # Failed /\ result'[c] = k
    BY <2>1, VerdictTypes DEF Admitted, Verifies
  <2>3. /\ bootVersion' = bootVersion
        /\ \/ Fresh /\ value \in Versions /\ k = value
           \/ /\ CallInv(c) /\ pc[c] = "answered" /\ reply[c] \in Versions
              /\ k = reply[c] /\ calledAt' = calledAt
    BY <1>1, <2>1, <2>2, CallEnds
  <2>4. k \in Versions
    BY <2>3
  <2>5. k # None /\ k >= bootVersion
    <3>1. bootVersion <= k
      BY <2>0, <2>2, <2>3, <2>4 DEF CallInv
    <3> QED
      BY <2>0, <2>4, <3>1, NoneAssumption, BoundsAssumption DEF TypeOK, Versions
  <2>6. CASE Fresh /\ k = value
    <3>1. HeldUntil(value) > clock - TTL
      BY <2>0, <2>6, FreshSlot
    <3>2. HeldUntil(k) = HeldUntil(value)
      BY <2>6 DEF HeldUntil
    <3> QED
      BY <2>5, <3>1, <3>2
  <2>7. CASE /\ CallInv(c) /\ pc[c] = "answered" /\ reply[c] \in Versions
             /\ k = reply[c] /\ calledAt' = calledAt
    <3>1. now[c] <= HeldUntil(reply[c]) /\ calledAt[c] <= now[c]
      BY <2>7 DEF CallInv, Fetching
    <3>2. now[c] \in Int /\ calledAt[c] \in Int /\ HeldUntil(reply[c]) \in Int
      BY <2>0, <2>7, BoundsAssumption DEF TypeOK, HeldUntil, Times
    <3>3. HeldUntil(k) = HeldUntil(reply[c])
      BY <2>7 DEF HeldUntil
    <3> QED
      BY <2>5, <2>7, <3>1, <3>2, <3>3
  <2> QED
    BY <2>3, <2>5, <2>6, <2>7
<1>2. AuthInv /\ [AuthNext]_authVars => [A]_authVars
  BY <1>1
<1> QED
  BY <1>2, AuthInductive, PTL DEF AuthSpec, AdmittedKeyRecent

=============================================================================
