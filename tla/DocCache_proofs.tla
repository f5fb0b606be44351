--------------------------- MODULE DocCache_proofs ---------------------------
(***************************************************************************)
(* Proofs about DocCache, for every manifest, every number of versions of  *)
(* a page and of attempts, and every set of versions that convert.         *)
(*                                                                         *)
(* The argument: a sidecar only ever names bytes that were written out     *)
(* whole before it, so what a crash leaves behind is either a pair that    *)
(* matches or one whose sidecar is behind the page; and, as pages do not   *)
(* go back, a sidecar that is behind never catches up by itself.           *)
(***************************************************************************)
EXTENDS DocCache, TLAPS

\* A sidecar of s that a run could still match.
PairInv(s) ==
  meta[s] \in Versions =>
    /\ meta[s] <= served[s]
    /\ meta[s] = served[s] => md[s] = served[s]
    /\ md[s] # None

\* What is under way has no result yet.
OpenInv(s) == Asked(s) => status[s] = None

MatchInv(s) == status[s] \in {"fetched", "unchanged"} => md[s] = sha256[s]

SourceInv(s) == PairInv(s) /\ OpenInv(s) /\ MatchInv(s)

IInv == TypeOK /\ \A s \in Sources : SourceInv(s)

LEMMA InitIInv == Init => IInv
<1> SUFFICES ASSUME Init PROVE IInv
  OBVIOUS
<1>1. 1 \in Versions /\ 0 \in 0 .. MAX_ATTEMPTS
  BY VersionsAssumption, AttemptsAssumption DEF Versions
<1>2. TypeOK
  BY <1>1 DEF Init, TypeOK, Files
<1>3. ASSUME NEW s \in Sources PROVE SourceInv(s)
  BY NamesAssumption DEF Init, SourceInv, PairInv, OpenInv, MatchInv, Asked
<1> QED
  BY <1>2, <1>3 DEF IInv

\* Every step keeps the types.
LEMMA StepType == TypeOK /\ [Next]_vars => TypeOK'
<1> SUFFICES ASSUME TypeOK, [Next]_vars PROVE TypeOK'
  OBVIOUS
<1> USE DEF TypeOK
<1>1. CASE FetchAll
  BY <1>1, AttemptsAssumption DEF FetchAll, files
<1>2. ASSUME NEW s \in Sources, Retry(s) PROVE TypeOK'
  BY <1>2, AttemptsAssumption DEF Retry, files, results
<1>3. ASSUME NEW s \in Sources, GiveUp(s) PROVE TypeOK'
  BY <1>3, AttemptsAssumption DEF GiveUp, Result, files
<1>4. ASSUME NEW s \in Sources, Page(s) PROVE TypeOK'
  <2>1. /\ attempt' \in [Sources -> 0 .. MAX_ATTEMPTS]
        /\ status' \in [Sources -> {None, "fetched", "unchanged", "failed"}]
        /\ sha256' \in [Sources -> Versions \cup {None}]
    BY <1>4, AttemptsAssumption DEF Page, Result
  <2>2. /\ md' \in [Sources -> Files] /\ meta' \in [Sources -> Files]
        /\ listing' = listing /\ served' = served
        /\ running' = running /\ raising' = raising
    BY <1>4 DEF Page, files, Files
  <2> QED
    BY <2>1, <2>2
<1>5. CASE List
  BY <1>5 DEF List, Listed, results, Files
<1>6. CASE Crash \/ Abort
  <2>1. /\ attempt' \in [Sources -> 0 .. MAX_ATTEMPTS]
        /\ status' \in [Sources -> {None, "fetched", "unchanged", "failed"}]
        /\ sha256' \in [Sources -> Versions \cup {None}]
        /\ running' = FALSE /\ raising' = FALSE /\ served' = served
    BY <1>6, AttemptsAssumption DEF Crash, Abort, NoResults
  <2>2. md' \in [Sources -> Files] /\ meta' \in [Sources -> Files]
    BY <1>6 DEF Crash, Abort, Cut, files, Files
  <2>3. \A s \in Sources : Listed(s) \in Files
    BY DEF Listed, Files
  <2>4. listing' \in [Sources -> Files]
    BY <1>6, <2>3 DEF Crash, Abort, files, Files
  <2> QED
    BY <2>1, <2>2, <2>4
<1>7. ASSUME NEW s \in Sources, Break(s) PROVE TypeOK'
  <2>1. md' \in [Sources -> Files] /\ meta' \in [Sources -> Files]
    BY <1>7 DEF Break, Files
  <2>2. attempt' \in [Sources -> 0 .. MAX_ATTEMPTS]
    BY <1>7, AttemptsAssumption DEF Break
  <2> QED
    BY <1>7, <2>1, <2>2 DEF Break, results
<1>8. CASE Publish
  BY <1>8 DEF Publish, files, results
<1>9. CASE UNCHANGED vars
  BY <1>9 DEF vars, files, results
<1> QED
  BY <1>1, <1>2, <1>3, <1>4, <1>5, <1>6, <1>7, <1>8, <1>9 DEF Next, Handle

\* A page of s that arrives leaves s with a pair that matches, or untouched,
\* and with a result that its Markdown bears out.
LEMMA PageInv ==
  ASSUME TypeOK, NEW s \in Sources, SourceInv(s), Page(s)
  PROVE  SourceInv(s)'
<1> USE DEF TypeOK
<1>1. served'[s] = served[s] /\ served[s] \in Versions /\ ~Asked(s)'
  BY DEF Page, Result, Asked
<1>2. CASE /\ Known(s)
           /\ Result(s, "unchanged", served[s])
           /\ UNCHANGED files
  BY <1>1, <1>2 DEF Known, Result, files, SourceInv, PairInv, OpenInv, MatchInv
<1>3. CASE Result(s, "failed", None) /\ UNCHANGED files
  BY <1>1, <1>3 DEF Result, files, SourceInv, PairInv, OpenInv, MatchInv
<1>4. CASE /\ md' = [md EXCEPT ![s] = served[s]]
           /\ meta' = [meta EXCEPT ![s] = served[s]]
           /\ Result(s, "fetched", served[s])
  BY <1>1, <1>4, NamesAssumption DEF Result, SourceInv, PairInv, OpenInv, MatchInv, Versions
<1> QED
  BY <1>2, <1>3, <1>4 DEF Page

\* A page whose handling is cut leaves no sidecar that matches.
LEMMA CutInv ==
  ASSUME TypeOK, NEW s \in Sources, SourceInv(s), ~Known(s), Cut(s), served' = served
  PROVE  PairInv(s)'
<1> USE DEF TypeOK
<1>1. served[s] \in Versions /\ served[s] # None /\ Torn \notin Versions /\ Torn # None
  BY NamesAssumption
<1>2. CASE md' = [md EXCEPT ![s] = Torn] /\ UNCHANGED meta
  BY <1>1, <1>2 DEF SourceInv, PairInv, Known
<1>3. CASE md' = [md EXCEPT ![s] = served[s]] /\ UNCHANGED meta
  BY <1>1, <1>3 DEF SourceInv, PairInv
<1>4. CASE meta' = [meta EXCEPT ![s] = Torn]
  BY <1>1, <1>4 DEF PairInv
<1> QED
  BY <1>2, <1>3, <1>4 DEF Cut

\* Every step of a run whose pages do not go back keeps the invariant.
LEMMA StepSource ==
  ASSUME ~Reverts, IInv, [Next]_vars, NEW d \in Sources
  PROVE  SourceInv(d)'
<1> USE DEF TypeOK
<1>0. TypeOK /\ SourceInv(d)
  BY DEF IInv
<1>1. CASE FetchAll
  BY <1>0, <1>1, NamesAssumption
     DEF FetchAll, files, SourceInv, PairInv, OpenInv, MatchInv, Asked
<1>2. ASSUME NEW s \in Sources, Handle(s) PROVE SourceInv(d)'
  <2>1. CASE s = d /\ Retry(s)
    BY <1>0, <2>1 DEF Retry, files, results, SourceInv, PairInv, OpenInv, MatchInv, Asked
  <2>2. CASE s = d /\ GiveUp(s)
    BY <1>0, <2>2 DEF GiveUp, Result, files, SourceInv, PairInv, OpenInv, MatchInv, Asked
  <2>3. CASE s = d /\ Page(s)
    BY <1>0, <2>3, PageInv
  <2>4. CASE s # d
    <3>1. /\ served'[d] = served[d] /\ md'[d] = md[d] /\ meta'[d] = meta[d]
          /\ attempt'[d] = attempt[d] /\ status'[d] = status[d] /\ sha256'[d] = sha256[d]
      BY <1>0, <1>2, <2>4 DEF Handle, Retry, GiveUp, Page, Result, files, results
    <3> QED
      BY <1>0, <3>1 DEF SourceInv, PairInv, OpenInv, MatchInv, Asked
  <2> QED
    BY <1>2, <2>1, <2>2, <2>3, <2>4 DEF Handle
<1>3. CASE List
  BY <1>0, <1>3 DEF List, results, SourceInv, PairInv, OpenInv, MatchInv, Asked
<1>4. CASE Crash \/ Abort
  <2>1. OpenInv(d)' /\ MatchInv(d)'
    BY <1>0, <1>4, NamesAssumption DEF Crash, Abort, NoResults, OpenInv, MatchInv, Asked
  <2>2. PairInv(d)'
    <3>1. CASE UNCHANGED <<md, meta>>
      BY <1>0, <1>4, <3>1 DEF Crash, Abort, SourceInv, PairInv
    <3>2. ASSUME NEW s \in Sources, ~Known(s), Cut(s) PROVE PairInv(d)'
      <4>1. CASE s = d
        BY <1>0, <1>4, <3>2, <4>1, CutInv DEF Crash, Abort
      <4>2. CASE s # d
        <5>1. md'[d] = md[d] /\ meta'[d] = meta[d] /\ served'[d] = served[d]
          BY <1>0, <1>4, <3>2, <4>2 DEF Cut, Crash, Abort
        <5> QED
          BY <1>0, <5>1 DEF SourceInv, PairInv
      <4> QED
        BY <4>1, <4>2
    <3> QED
      BY <1>4, <3>1, <3>2 DEF Crash, Abort, files
  <2> QED
    BY <2>1, <2>2 DEF SourceInv
<1>5. CASE Publish
  <2>1. /\ md'[d] = md[d] /\ meta'[d] = meta[d] /\ attempt'[d] = attempt[d]
        /\ status'[d] = status[d] /\ sha256'[d] = sha256[d]
    BY <1>5 DEF Publish, files, results
  <2>2. served'[d] = served[d] \/ served'[d] > served[d]
    BY <1>0, <1>5 DEF Publish
  <2>3. served[d] \in Int /\ served'[d] \in Int /\ Versions \subseteq Int
    BY <1>0, <1>5 DEF Publish, Versions
  <2>4. PairInv(d)'
    <3> SUFFICES ASSUME meta[d] \in Versions
                 PROVE  /\ meta[d] <= served'[d]
                        /\ meta[d] = served'[d] => md[d] = served'[d]
                        /\ md[d] # None
      BY <2>1 DEF PairInv
    <3>1. meta[d] \in Int /\ PairInv(d)
      BY <1>0, <2>3 DEF SourceInv
    <3>2. CASE served'[d] = served[d]
      BY <3>1, <3>2 DEF PairInv
    <3>3. CASE served'[d] > served[d]
      <4>1. meta[d] < served'[d]
        BY <2>3, <3>1, <3>3 DEF PairInv
      <4> QED
        BY <2>3, <3>1, <4>1 DEF PairInv
    <3> QED
      BY <2>2, <3>2, <3>3
  <2> QED
    BY <1>0, <2>1, <2>4 DEF SourceInv, OpenInv, MatchInv, Asked
<1>6. CASE UNCHANGED vars
  BY <1>0, <1>6 DEF vars, files, results, SourceInv, PairInv, OpenInv, MatchInv, Asked
<1>7. ASSUME NEW s \in Sources, Break(s) PROVE SourceInv(d)'
  <2>1. /\ served' = served /\ UNCHANGED results
        /\ attempt' = [attempt EXCEPT ![s] = 0] /\ Asked(s)
    BY <1>7 DEF Break
  <2>2. PairInv(d)' /\ (status[d] # None => md'[d] = md[d])
    <3>1. CASE UNCHANGED <<md, meta>>
      BY <1>0, <2>1, <3>1 DEF SourceInv, PairInv
    <3>2. CASE s = d /\ ~UNCHANGED <<md, meta>>
      <4>1. ~Known(d) /\ Cut(d) /\ status[d] = None
        BY <1>0, <1>7, <3>2 DEF Break, Cut, SourceInv, OpenInv
      <4> QED
        BY <1>0, <2>1, <4>1, CutInv
    <3>3. CASE s # d
      <4>1. md'[d] = md[d] /\ meta'[d] = meta[d]
        BY <1>0, <1>7, <3>3 DEF Break
      <4> QED
        BY <1>0, <2>1, <4>1 DEF SourceInv, PairInv
    <3> QED
      BY <3>1, <3>2, <3>3
  <2>3. OpenInv(d)'
    BY <1>0, <2>1 DEF SourceInv, OpenInv, Asked, results
  <2>4. MatchInv(d)'
    BY <1>0, <2>1, <2>2, NamesAssumption DEF SourceInv, MatchInv, results
  <2> QED
    BY <2>2, <2>3, <2>4 DEF SourceInv
<1> QED
  BY <1>1, <1>2, <1>3, <1>4, <1>5, <1>6, <1>7 DEF Next

\* The invariant holds throughout, if pages do not go back.
LEMMA Inductive ==
  ASSUME ~Reverts
  PROVE  Spec => []IInv
<1>1. IInv /\ [Next]_vars => IInv'
  BY StepType, StepSource DEF IInv
<1> QED
  BY InitIInv, <1>1, PTL DEF Spec

(* Every variable keeps its type, reverting pages or not: in particular no *)
(* page is asked for more than MAX_ATTEMPTS times in a run.                *)
THEOREM TypeCorrect == Spec => []TypeOK
<1>1. Init => TypeOK
  BY InitIInv DEF IInv
<1> QED
  BY <1>1, StepType, PTL DEF Spec

(* What a run reports as fetched or unchanged is what its Markdown was     *)
(* made from, through crashes at any point of any earlier run, if pages do *)
(* not go back to earlier bytes.                                           *)
THEOREM ResultsMatch ==
  ASSUME ~Reverts
  PROVE  Spec => []ResultMatchesFile
<1>1. IInv => ResultMatchesFile
  BY DEF IInv, SourceInv, MatchInv, ResultMatchesFile
<1> QED
  BY <1>1, Inductive, PTL

(* Under the same condition, .fetched.jsonl never comes to list a source   *)
(* whose Markdown is not that of the bytes it names, even if it is cut.    *)
THEOREM ListingMatches ==
  ASSUME ~Reverts
  PROVE  Spec => ListedIsOnDisk
<1>1. ASSUME IInv, [Next]_vars, listing' # listing, NEW s \in Sources, listing'[s] \in Versions
      PROVE  md'[s] = listing'[s]
  <2>0. TypeOK /\ MatchInv(s)
    BY <1>1 DEF IInv, SourceInv
  <2>1. \/ List
        \/ /\ Crash /\ UNCHANGED <<md, meta>>
           /\ \E kept \in SUBSET Sources, cut \in Sources \cup {None} :
                listing' = [d \in Sources |->
                              IF d \in kept \/ Listed(d) = None THEN Listed(d)
                              ELSE IF d = cut THEN Torn ELSE None]
    BY <1>1
       DEF Next, FetchAll, Handle, Retry, GiveUp, Page, Break, Abort, Publish, Crash, vars, files
  <2>2. listing'[s] = Listed(s) /\ md' = md
    BY <1>1, <2>1, NamesAssumption DEF List
  <2>3. Listed(s) # None
    BY <1>1, <2>2, NamesAssumption
  <2> QED
    BY <2>0, <2>2, <2>3 DEF Listed, MatchInv
<1>2. IInv /\ [Next]_vars
      => [listing' # listing =>
            \A s \in Sources : listing'[s] \in Versions => md'[s] = listing'[s]]_vars
  BY <1>1
<1> QED
  BY <1>2, Inductive, PTL DEF Spec, ListedIsOnDisk
=============================================================================
