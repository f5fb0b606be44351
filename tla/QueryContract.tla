--------------------------- MODULE QueryContract ---------------------------
(***************************************************************************)
(* What POST /query promises a tenant, whatever models, retries and        *)
(* re-indexing do in between: an answer is built from chunks that the      *)
(* index held for that tenant at one moment between the request and the    *)
(* answer, cites nothing else, and says so when there was none; everything *)
(* else is a refusal, and a tenant id that is malformed gets nothing else. *)
(***************************************************************************)

CONSTANTS Requests, Tenants, BadTenant, Docs, Absent, None

VARIABLES
  corpus,  \* the tenant of each chunk of the index, or Absent
  tenant,  \* the tenant of a request
  phase,   \* "idle", "open", "looked" or "closed"
  seen,    \* the chunks a request looked at
  reply    \* its answer

vars == <<corpus, tenant, phase, seen, reply>>

Refused(s) == [status |-> s, text |-> None, cited |-> {}]

Init ==
  /\ corpus \in [Docs -> Tenants \cup {Absent}]
  /\ tenant = [r \in Requests |-> None]
  /\ phase = [r \in Requests |-> "idle"]
  /\ seen = [r \in Requests |-> {}]
  /\ reply = [r \in Requests |-> None]

Accept(r) ==
  /\ phase[r] = "idle"
  /\ \E t \in Tenants \cup {BadTenant} : tenant' = [tenant EXCEPT ![r] = t]
  /\ phase' = [phase EXCEPT ![r] = "open"]
  /\ UNCHANGED <<corpus, seen, reply>>

Look(r) ==
  /\ phase[r] = "open"
  /\ tenant[r] # BadTenant
  /\ \E S \in SUBSET {d \in Docs : corpus[d] = tenant[r]} : seen' = [seen EXCEPT ![r] = S]
  /\ phase' = [phase EXCEPT ![r] = "looked"]
  /\ UNCHANGED <<corpus, tenant, reply>>

Close(r, answer) ==
  /\ phase' = [phase EXCEPT ![r] = "closed"]
  /\ reply' = [reply EXCEPT ![r] = answer]
  /\ UNCHANGED <<corpus, tenant, seen>>

AnswerEmpty(r) ==
  /\ phase[r] = "looked" /\ seen[r] = {}
  /\ Close(r, [status |-> 200, text |-> "none_found", cited |-> {}])

AnswerGrounded(r) ==
  /\ phase[r] = "looked" /\ seen[r] # {}
  /\ \E cited \in SUBSET seen[r] :
       Close(r, [status |-> 200, text |-> "model", cited |-> cited])

\* 400 and 500 at any time; 502 is about citations, so there were chunks.
Refuse(r) ==
  \/ phase[r] \in {"open", "looked"} /\ \E s \in {400, 500} : Close(r, Refused(s))
  \/ phase[r] = "looked" /\ seen[r] # {} /\ Close(r, Refused(502))

Reindex ==
  /\ corpus' \in [Docs -> Tenants \cup {Absent}]
  /\ UNCHANGED <<tenant, phase, seen, reply>>

Next ==
  \/ \E r \in Requests :
       Accept(r) \/ Look(r) \/ AnswerEmpty(r) \/ AnswerGrounded(r) \/ Refuse(r)
  \/ Reindex

Spec == Init /\ [][Next]_vars
=============================================================================
