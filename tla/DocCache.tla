------------------------------ MODULE DocCache ------------------------------
(***************************************************************************)
(* The cache of fetched pages (ingest/fetch.py): for each source of the    *)
(* manifest {id}.md, the page as Markdown, and {id}.meta.json, a sidecar   *)
(* with the SHA-256 of the page's bytes; and .fetched.jsonl, the sources   *)
(* that the next phase may read.                                           *)
(*                                                                         *)
(* A run asks for all pages at once and handles each answer without an     *)
(* await, so a crash can cut only the handling of one answer, or the       *)
(* writing of the listing: Path.write_text truncates the file first, and   *)
(* the two files of a source are written one after the other.  An          *)
(* exception that _fetch_one does not catch comes out of gather at once;   *)
(* answers that have arrived are still handled until the client is closed. *)
(*                                                                         *)
(* The bytes of a page are named by a version; SHA-256 tells them apart.   *)
(* A file holds the version it was made from.  The web is external.        *)
(***************************************************************************)
EXTENDS Integers

CONSTANTS
  Sources,       \* the sources of the manifest
  LastVersion,   \* bound on the versions of a page
  Convertible,   \* versions that become Markdown; not so a broken PDF
  Reverts,       \* pages may go back to earlier bytes
  MAX_ATTEMPTS,  \* attempts per page
  None,          \* no file
  Torn           \* a file cut short

Versions == 1 .. LastVersion

ASSUME VersionsAssumption == LastVersion \in Nat \ {0}
ASSUME ConvertibleAssumption == Convertible \subseteq Versions
ASSUME AttemptsAssumption == MAX_ATTEMPTS \in Nat \ {0}
ASSUME RevertsAssumption == Reverts \in BOOLEAN
ASSUME NamesAssumption ==
  /\ None \notin Versions /\ Torn \notin Versions /\ None # Torn
  /\ None \notin {"fetched", "unchanged", "failed"}

VARIABLES
  served,   \* the page at the URL now
  md,       \* {id}.md
  meta,     \* the sha256 of {id}.meta.json
  listing,  \* .fetched.jsonl: the sha256 of the sources in it
  running,  \* a fetch_all is under way
  raising,  \* an exception has come out of its gather
  attempt,  \* the attempt of a request under way, or 0
  status,   \* FetchResult.status
  sha256    \* FetchResult.sha256

files == <<md, meta, listing>>
results == <<status, sha256>>
vars == <<served, files, running, raising, attempt, results>>

Files == Versions \cup {None, Torn}

TypeOK ==
  /\ served \in [Sources -> Versions]
  /\ md \in [Sources -> Files]
  /\ meta \in [Sources -> Files]
  /\ listing \in [Sources -> Files]
  /\ running \in BOOLEAN /\ raising \in BOOLEAN
  /\ attempt \in [Sources -> 0 .. MAX_ATTEMPTS]
  /\ status \in [Sources -> {None, "fetched", "unchanged", "failed"}]
  /\ sha256 \in [Sources -> Versions \cup {None}]

-----------------------------------------------------------------------------

Asked(s) == attempt[s] # 0

\* The FetchResult of s.
Result(s, st, v) ==
  /\ status' = [status EXCEPT ![s] = st]
  /\ sha256' = [sha256 EXCEPT ![s] = v]
  /\ attempt' = [attempt EXCEPT ![s] = 0]

\* fetch_all loads the manifest and sends every request.
FetchAll ==
  /\ ~running
  /\ running' = TRUE
  /\ attempt' = [s \in Sources |-> 1]
  /\ status' = [s \in Sources |-> None]
  /\ sha256' = [s \in Sources |-> None]
  /\ UNCHANGED <<served, files, raising>>

\* Mutant: one attempt too many.
RetryOnceMore(s) ==
  /\ Asked(s)
  /\ attempt[s] <= MAX_ATTEMPTS
  /\ attempt' = [attempt EXCEPT ![s] = @ + 1]
  /\ UNCHANGED <<served, files, running, raising, results>>

\* Mutant: 5xx answers are retried until they stop.
RetryForever(s) ==
  /\ Asked(s)
  /\ attempt' = [attempt EXCEPT ![s] = IF @ < MAX_ATTEMPTS THEN @ + 1 ELSE 1]
  /\ UNCHANGED <<served, files, running, raising, results>>

\* 5xx, a transport error or a timeout, with attempts left.
Retry(s) ==
  /\ Asked(s)
  /\ attempt[s] < MAX_ATTEMPTS
  /\ attempt' = [attempt EXCEPT ![s] = @ + 1]
  /\ UNCHANGED <<served, files, running, raising, results>>

\* The last attempt fails, or 4xx does at once: the run goes on without s.
GiveUp(s) ==
  /\ Asked(s)
  /\ Result(s, "failed", None)
  /\ UNCHANGED <<served, files, running, raising>>

\* The sidecar has the bytes' hash and there is a Markdown file.
Known(s) == meta[s] = served[s] /\ md[s] # None

\* A page arrives.
Page(s) ==
  /\ Asked(s)
  /\ \/ /\ Known(s)
        /\ Result(s, "unchanged", served[s])
        /\ UNCHANGED files
     \/ /\ ~Known(s) /\ served[s] \notin Convertible
        /\ Result(s, "failed", None)
        /\ UNCHANGED files
     \/ /\ ~Known(s) /\ served[s] \in Convertible
        /\ md' = [md EXCEPT ![s] = served[s]]
        /\ meta' = [meta EXCEPT ![s] = served[s]]
        /\ Result(s, "fetched", served[s])
        /\ UNCHANGED listing
  /\ UNCHANGED <<served, running, raising>>

(* Something else goes wrong with s, and nobody catches it: before there   *)
(* is a page, in reading a PDF, or in writing one of the files, which is   *)
(* then cut short.                                                         *)
Break(s) ==
  /\ Asked(s)
  /\ \/ UNCHANGED <<md, meta>>
     \/ /\ ~Known(s) /\ served[s] \in Convertible
        /\ \/ md' = [md EXCEPT ![s] = Torn] /\ UNCHANGED meta
           \/ /\ md' = [md EXCEPT ![s] = served[s]]
              /\ meta' = [meta EXCEPT ![s] = Torn]
  /\ attempt' = [attempt EXCEPT ![s] = 0]
  /\ raising' = TRUE
  /\ UNCHANGED <<served, listing, running, results>>

\* The run is over, without results.
NoResults ==
  /\ running' = FALSE
  /\ raising' = FALSE
  /\ attempt' = [s \in Sources |-> 0]
  /\ status' = [s \in Sources |-> None]
  /\ sha256' = [s \in Sources |-> None]

\* The client is closed, which ends what still waits for an answer, and the
\* exception leaves fetch_all; .fetched.jsonl is what it was.
Abort == running /\ raising /\ NoResults /\ UNCHANGED <<served, files>>

Listed(s) == IF status[s] \in {"fetched", "unchanged"} THEN sha256[s] ELSE None

\* Mutant: a source that fails keeps its row.
ListKeepsFailed ==
  /\ running
  /\ \A s \in Sources : status[s] # None
  /\ listing' = [s \in Sources |-> IF status[s] = "failed" THEN listing[s] ELSE sha256[s]]
  /\ running' = FALSE
  /\ UNCHANGED <<served, md, meta, raising, attempt, results>>

\* All answers are in: the listing is written and fetch_all returns.
List ==
  /\ running
  /\ \A s \in Sources : status[s] # None
  /\ listing' = [s \in Sources |-> Listed(s)]
  /\ running' = FALSE
  /\ UNCHANGED <<served, md, meta, raising, attempt, results>>

\* Mutant: the sidecar is written before the Markdown.
CutSidecarFirst(s) ==
  \/ meta' = [meta EXCEPT ![s] = Torn] /\ UNCHANGED md
  \/ meta' = [meta EXCEPT ![s] = served[s]] /\ UNCHANGED md
  \/ /\ meta' = [meta EXCEPT ![s] = served[s]]
     /\ md' = [md EXCEPT ![s] = Torn]

\* The handling of a page is cut: in the Markdown, between the two files, or
\* in the sidecar.
Cut(s) ==
  \/ md' = [md EXCEPT ![s] = Torn] /\ UNCHANGED meta
  \/ md' = [md EXCEPT ![s] = served[s]] /\ UNCHANGED meta
  \/ md' = [md EXCEPT ![s] = served[s]] /\ meta' = [meta EXCEPT ![s] = Torn]

\* The process dies between two answers, in one, or in the listing; or the
\* listing cannot be written.
Crash ==
  /\ running
  /\ NoResults
  /\ \/ UNCHANGED files
     \/ /\ \E s \in Sources :
             Asked(s) /\ ~Known(s) /\ served[s] \in Convertible /\ Cut(s)
        /\ UNCHANGED listing
     \/ /\ \A s \in Sources : status[s] # None
        /\ \E kept \in SUBSET Sources, cut \in Sources \cup {None} :
             listing' = [s \in Sources |->
                           IF s \in kept \/ Listed(s) = None THEN Listed(s)
                           ELSE IF s = cut THEN Torn ELSE None]
        /\ UNCHANGED <<md, meta>>
  /\ UNCHANGED served

\* The author of a page changes it.
Publish ==
  /\ \E s \in Sources, v \in Versions :
       /\ v > served[s] \/ Reverts
       /\ served' = [served EXCEPT ![s] = v]
  /\ UNCHANGED <<files, running, raising, attempt, results>>

-----------------------------------------------------------------------------

Init ==
  /\ served = [s \in Sources |-> 1]
  /\ md = [s \in Sources |-> None]
  /\ meta = [s \in Sources |-> None]
  /\ listing = [s \in Sources |-> None]
  /\ running = FALSE
  /\ raising = FALSE
  /\ attempt = [s \in Sources |-> 0]
  /\ status = [s \in Sources |-> None]
  /\ sha256 = [s \in Sources |-> None]

Handle(s) == Retry(s) \/ GiveUp(s) \/ Page(s)

Next ==
  \/ FetchAll \/ List \/ Abort \/ Crash \/ Publish
  \/ \E s \in Sources : Handle(s) \/ Break(s)

Spec == Init /\ [][Next]_vars

-----------------------------------------------------------------------------
(* Properties                                                              *)

(* A source that a run reports as fetched or unchanged has the Markdown of *)
(* the bytes whose hash it reports, whichever runs died half way before,   *)
(* as long as no page goes back to earlier bytes.                          *)
ResultMatchesFile ==
  \A s \in Sources : status[s] \in {"fetched", "unchanged"} => md[s] = sha256[s]

(* Whenever .fetched.jsonl changes, whole or cut short, the Markdown of    *)
(* every source it lists is that of the bytes it names: what chunk_all     *)
(* reads next.                                                             *)
ListedIsOnDisk ==
  [][ listing' # listing =>
        \A s \in Sources : listing'[s] \in Versions => md'[s] = listing'[s] ]_vars

(* docs/architecture.md:138-139, "Re-runs skip files whose SHA-256 hasn't  *)
(* changed since the last fetch": what a run skips is what the last run    *)
(* that touched the file has left in it.                                   *)
SkippedIsUnchanged ==
  \A s \in Sources : status[s] = "unchanged" => md[s] = sha256[s]
=============================================================================
