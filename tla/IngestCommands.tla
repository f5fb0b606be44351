--------------------------- MODULE IngestCommands ---------------------------
(***************************************************************************)
(* The phases of ingest on one machine, around the cache of DocCache:      *)
(*                                                                         *)
(*   fetch_all --> .fetched.jsonl --> chunk_all --> chunks.jsonl --> index *)
(*                                                                         *)
(* `ingest fetch`, `chunk` and `index` run one phase, `ingest all` and     *)
(* POST /ingest all three, one after the other.  The files are all that    *)
(* one command leaves to the next.  chunk_all reads everything before it   *)
(* opens chunks.jsonl, which it then writes over, row by row.              *)
(***************************************************************************)
EXTENDS DocCache

CONSTANT Cropped   \* rows of chunks.jsonl of a part of a page only

Phases == {"fetch", "chunk", "index"}
Whole == {"all", "post"}
Commands == Phases \cup Whole

ASSUME CroppedAssumption == Cropped \notin Versions \cup {None, Torn}
ASSUME CommandsAssumption == None \notin Commands

VARIABLES
  command,   \* the command under way, or None
  phase,     \* its phase
  chunks     \* chunks.jsonl: what the rows of each source were made from

cmd == <<command, phase, chunks>>
cmdVars == <<vars, cmd>>

CmdTypeOK ==
  /\ TypeOK
  /\ command \in Commands \cup {None}
  /\ phase \in Phases \cup {None}
  /\ chunks \in [Sources -> Files \cup {Cropped}]

-----------------------------------------------------------------------------

Exit == command' = None /\ phase' = None

Invoke(c) ==
  /\ command = None
  /\ command' = c
  /\ IF c \in {"chunk", "index"}
     THEN phase' = c /\ UNCHANGED vars
     ELSE phase' = "fetch" /\ FetchAll
  /\ UNCHANGED chunks

Fetching(s) == (Handle(s) \/ Break(s)) /\ UNCHANGED cmd

(* The listing is written.  _summarise_and_report stops the command line   *)
(* if all sources have failed; the route has no such step.                 *)
Fetched ==
  /\ List
  /\ IF command = "fetch" \/ (command = "all" /\ \A s \in Sources : status[s] = "failed")
     THEN Exit
     ELSE phase' = "chunk" /\ UNCHANGED command
  /\ UNCHANGED chunks

FetchRaises == Abort /\ Exit /\ UNCHANGED chunks

InListing == {s \in Sources : listing[s] # None}

\* What chunk_all makes of the Markdown of s; a torn file may still read well.
Rows(s) ==
  IF s \notin InListing THEN None ELSE IF md[s] = Torn THEN Cropped ELSE md[s]

\* _read_index and read_text raise on a torn row and on a missing file.
Readable == \A s \in InListing : listing[s] # Torn /\ md[s] # None

\* Mutant: rows are appended to what chunks.jsonl holds.
ChunkAppends ==
  /\ phase = "chunk"
  /\ Readable
  /\ chunks' = [s \in Sources |-> IF s \in InListing THEN Rows(s) ELSE chunks[s]]
  /\ IF command \in Whole THEN phase' = "index" /\ UNCHANGED command ELSE Exit
  /\ UNCHANGED vars

\* chunk_all writes chunks.jsonl.
Chunk ==
  /\ phase = "chunk"
  /\ Readable
  /\ chunks' = [s \in Sources |-> Rows(s)]
  /\ IF command \in Whole THEN phase' = "index" /\ UNCHANGED command ELSE Exit
  /\ UNCHANGED vars

\* chunk_all raises: it cannot read, or cannot split, what the listing names.
ChunkRaises == phase = "chunk" /\ Exit /\ UNCHANGED <<vars, chunks>>

\* chunk_all is cut while it writes: some sources have all their rows, one
\* may have a part of them or end in a torn one.
ChunkCut ==
  /\ phase = "chunk"
  /\ Readable
  /\ \E kept \in SUBSET Sources, cut \in Sources \cup {None}, left \in {Torn, Cropped} :
       chunks' = [s \in Sources |->
                    IF s \in kept \/ Rows(s) = None THEN Rows(s)
                    ELSE IF s = cut THEN left ELSE None]
  /\ Exit
  /\ UNCHANGED vars

\* index_all reads chunks.jsonl, or raises on it, and what follows is the
\* business of CorpusIndex.
Index == phase = "index" /\ Exit /\ UNCHANGED <<vars, chunks>>

Killed == Crash /\ Exit /\ UNCHANGED chunks

Author == Publish /\ UNCHANGED cmd

-----------------------------------------------------------------------------

CmdInit ==
  /\ Init
  /\ command = None
  /\ phase = None
  /\ chunks = [s \in Sources |-> None]

Step == Fetched \/ FetchRaises \/ Chunk \/ Index

CmdNext ==
  \/ \E c \in Commands : Invoke(c)
  \/ \E s \in Sources : Fetching(s)
  \/ Step \/ ChunkRaises \/ ChunkCut \/ Killed \/ Author

CmdSpec == CmdInit /\ [][CmdNext]_cmdVars

\* httpx bounds every read of a page, a page has finitely many of them, and
\* nothing else waits.
CmdFairSpec ==
  /\ CmdSpec
  /\ WF_cmdVars(Step \/ ChunkRaises)
  /\ \A s \in Sources : WF_cmdVars(Handle(s) /\ UNCHANGED cmd)

-----------------------------------------------------------------------------
(* Properties                                                              *)

(* What a run of all phases gives to index_all is what this run has        *)
(* reported, source by source and in whole, and nothing that failed in it: *)
(* whichever commands were cut short before, whatever they left in the     *)
(* cache, and whichever source broke (__main__.py:52-55, routes.py:226).   *)
IndexedIsReported ==
  phase = "index" /\ command \in Whole => \A s \in Sources : chunks[s] = Listed(s)

(* A command ends, or dies, whatever the servers answer.                   *)
EveryRunEnds == command # None ~> command = None

=============================================================================
