------------------------------ MODULE AuthGate ------------------------------
(***************************************************************************)
(* The authentication dependency of every protected route (auth.py), on    *)
(* top of the signing-key cache: a request presents a credential, waits    *)
(* for get_signing_key where the signature is verified, and is admitted or *)
(* refused with a status.  get_signing_key is the only await of            *)
(* get_current_tenant, so the verdict falls in the step in which the call  *)
(* of the cache returns.                                                   *)
(***************************************************************************)
EXTENDS KeyCache

CONSTANT Credentials  \* the credentials that requests present

(* A credential.  scheme: what the Authorization header is; token: whether *)
(* its second word is a JWT at all; signer: the version of the key that    *)
(* verifies the signature, None if no key does; claims: whether sub,       *)
(* tenant_id, exp and iat are present and exp is in the future; tenant:    *)
(* whether tenant_id is a non-empty string; admin: whether tenant_admin is *)
(* truthy.                                                                 *)
CredentialType ==
  [scheme : {"missing", "malformed", "bearer"},
   token  : BOOLEAN,
   signer : Versions \cup {None},
   claims : BOOLEAN,
   tenant : BOOLEAN,
   admin  : BOOLEAN]

Routes == {"query", "ingest"}

ASSUME CredentialAssumption == Credentials \subseteq CredentialType
ASSUME StatusAssumption == None \notin {200, 401, 403, 503}

VARIABLES
  credential,  \* what the request of a call presented
  route,       \* the route it asked for
  status,      \* its answer: None, 200 (admitted), 401, 403 or 503
  devAuth      \* settings.enable_dev_auth of the process

requests == <<credential, route, status>>
auth == <<requests, devAuth>>
authVars == <<vars, auth>>

AuthTypeOK ==
  /\ TypeOK
  /\ credential \in [Callers -> Credentials \cup {None}]
  /\ route \in [Callers -> Routes \cup {None}]
  /\ status \in [Callers -> {None, 200, 401, 403, 503}]
  /\ devAuth \in BOOLEAN

-----------------------------------------------------------------------------
(* Verdicts                                                                *)

\* What is left to check once the claims are decoded: the tenant, and for
\* the admin routes the admin claim.
Authorise(cred, r) ==
  IF ~cred.tenant THEN 403
  ELSE IF r = "ingest" /\ ~cred.admin THEN 403
  ELSE 200

\* Mutant: a key that does not parse is not fatal to the signature check.
VerifiesUnparsed(cred, key) ==
  cred.token /\ (~Parses(key) \/ cred.signer = key) /\ cred.claims

\* jwt.decode with the key: a key that is no PEM fails it like a signature
\* that does not match (InvalidKeyError is a PyJWTError).
Verifies(cred, key) ==
  cred.token /\ Parses(key) /\ cred.signer = key /\ cred.claims

\* Mutant: the vault's error is not turned into a 503.
VerdictUncaught(cred, rt, r) ==
  IF r = Failed THEN 500
  ELSE IF Verifies(cred, r) THEN Authorise(cred, rt)
  ELSE 401

\* _decode_verified and what follows, for a call of the cache that ended
\* with r.
Verdict(cred, rt, r) ==
  IF r = Failed THEN 503
  ELSE IF Verifies(cred, r) THEN Authorise(cred, rt)
  ELSE 401

\* Without signature verification PyJWT checks neither exp nor the
\* required claims.
DevVerdict(cred, rt) == IF cred.token THEN Authorise(cred, rt) ELSE 401

-----------------------------------------------------------------------------

Answer(c, s) == status' = [status EXCEPT ![c] = s]

\* The verdict on c, if its call of the cache ends in this step.
Judge(c) ==
  IF pc'[c] = "returned"
  THEN Answer(c, Verdict(credential'[c], route'[c], result'[c]))
  ELSE UNCHANGED status

Present(c, cred, r) ==
  /\ up
  /\ pc[c] = "idle" /\ status[c] = None
  /\ credential' = [credential EXCEPT ![c] = cred]
  /\ route' = [route EXCEPT ![c] = r]
  /\ UNCHANGED devAuth

RefuseHeader(c) ==
  \E cred \in Credentials, r \in Routes :
    /\ cred.scheme # "bearer"
    /\ Present(c, cred, r)
    /\ Answer(c, 401)
    /\ UNCHANGED vars

DecodeUnverified(c) ==
  \E cred \in Credentials, r \in Routes :
    /\ cred.scheme = "bearer" /\ devAuth
    /\ Present(c, cred, r)
    /\ Answer(c, DevVerdict(cred, r))
    /\ UNCHANGED vars

DecodeVerified(c) ==
  \E cred \in Credentials, r \in Routes :
    /\ cred.scheme = "bearer" /\ ~devAuth
    /\ Present(c, cred, r)
    /\ Call(c)
    /\ Judge(c)

AwaitKey(c) ==
  /\ Resume(c) \/ VaultAnswers(c) \/ FetchFails(c) \/ Store(c)
  /\ UNCHANGED <<credential, route, devAuth>>
  /\ Judge(c)

\* The response is sent; what the coroutine held is gone.
Respond(c) ==
  /\ status[c] # None
  /\ IF pc[c] = "returned" THEN Finish(c) ELSE UNCHANGED vars
  /\ credential' = [credential EXCEPT ![c] = None]
  /\ route' = [route EXCEPT ![c] = None]
  /\ Answer(c, None)
  /\ UNCHANGED devAuth

\* The replica dies; the settings of the next one are read once, at boot.
StopGate ==
  /\ Stop
  /\ credential' = [c \in Callers |-> None]
  /\ route' = [c \in Callers |-> None]
  /\ status' = [c \in Callers |-> None]
  /\ devAuth' \in BOOLEAN

GateEnvironment ==
  /\ Probe \/ Boot \/ Rotate \/ OutageBeginsOrEnds \/ Tick
  /\ UNCHANGED auth

AuthInit ==
  /\ Init
  /\ credential = [c \in Callers |-> None]
  /\ route = [c \in Callers |-> None]
  /\ status = [c \in Callers |-> None]
  /\ devAuth \in BOOLEAN

AuthNext ==
  \/ \E c \in Callers :
       \/ RefuseHeader(c) \/ DecodeUnverified(c) \/ DecodeVerified(c)
       \/ AwaitKey(c) \/ Respond(c)
  \/ StopGate
  \/ GateEnvironment

AuthSpec == AuthInit /\ [][AuthNext]_authVars

(* The event loop runs whatever is ready, and the SDK's timeouts bound the *)
(* wait for the vault.  Nothing says a request arrives, a replica stops,   *)
(* the operator acts or an outage ends.                                    *)
AuthFairSpec == AuthSpec /\ \A c \in Callers : WF_authVars(AwaitKey(c))

-----------------------------------------------------------------------------
(* Properties                                                              *)

Admitted(c) == status[c] # 200 /\ status'[c] = 200

(* A signature counts for at most one TTL after its key was rotated out,   *)
(* or for as long as the request itself has waited, and never across a     *)
(* restart that followed the rotation.                                     *)
AdmittedKeyRecent ==
  [][ \A c \in Callers : Admitted(c) /\ ~devAuth =>
        LET k == credential'[c].signer IN
        /\ k # None
        /\ HeldUntil(k) > clock - TTL \/ HeldUntil(k) >= calledAt'[c]
        /\ k >= bootVersion ]_authVars

(* auth.py:27-29, 503 is for a verifier that is degraded, never for a      *)
(* token: it answers only while the vault is unreachable and no key that   *)
(* could have answered is in the slot.                                     *)
DegradedMeansNoKey ==
  [][ \A c \in Callers : status[c] # 503 /\ status'[c] = 503 =>
        ~reachable /\ ~Fresh' ]_authVars

(* A request in the gate is answered, outage or not, or dies with its      *)
(* replica: a verifier that is degraded refuses, it does not hang.         *)
EveryRequestAnswered ==
  \A c \in Callers : credential[c] # None ~> status[c] # None \/ credential[c] = None
=============================================================================
