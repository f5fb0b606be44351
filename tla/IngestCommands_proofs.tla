----------------------- MODULE IngestCommands_proofs -----------------------
(***************************************************************************)
(* Proofs about IngestCommands, for every manifest and every sequence of   *)
(* commands: each step of a command is one that DocCache allows or leaves  *)
(* the cache alone, so that what holds of the cache holds under every      *)
(* command; and a run of all phases hands on what it has reported.         *)
(***************************************************************************)
EXTENDS IngestCommands, DocCache_proofs

\* A fetch_all is under way just while a command is in that phase, and a
\* command of one phase is in no other.
PhaseInv ==
  /\ running <=> phase = "fetch"
  /\ command = None <=> phase = None
  /\ command \in Phases => phase = command
  /\ \A s \in Sources : Asked(s) => running

\* Between the listing and the rows made of it nothing touches either.
HandInv ==
  command \in Whole =>
    /\ phase = "chunk" => \A s \in Sources : listing[s] = Listed(s)
    /\ phase = "index" => \A s \in Sources : chunks[s] = Listed(s)

CmdInv == CmdTypeOK /\ IInv /\ PhaseInv /\ HandInv

-----------------------------------------------------------------------------
(* The commands and the cache                                              *)

LEMMA CacheStep == [CmdNext]_cmdVars => [Next]_vars
<1> SUFFICES ASSUME [CmdNext]_cmdVars PROVE [Next]_vars
  OBVIOUS
<1>1. ASSUME NEW c \in Commands, Invoke(c) PROVE FetchAll \/ UNCHANGED vars
  BY <1>1 DEF Invoke
<1>2. ASSUME NEW s \in Sources, Fetching(s) PROVE Handle(s) \/ Break(s)
  BY <1>2 DEF Fetching
<1>3. CASE Step \/ ChunkRaises \/ ChunkCut
  BY <1>3 DEF Step, Fetched, FetchRaises, Chunk, ChunkRaises, ChunkCut, Index, Next
<1>4. CASE Killed \/ Author
  BY <1>4 DEF Killed, Author, Next
<1>5. CASE UNCHANGED cmdVars
  BY <1>5 DEF cmdVars
<1> QED
  BY <1>1, <1>2, <1>3, <1>4, <1>5 DEF CmdNext, Next

(* Whatever commands are given in whatever order and however they end, the *)
(* cache only takes the steps of fetch_all: DocCache's guarantees hold of  *)
(* an `ingest chunk` or `index` on its own as well.                        *)
THEOREM CommandsUseCache == CmdSpec => Spec
<1>1. CmdInit => Init
  BY DEF CmdInit
<1> QED
  BY <1>1, CacheStep, PTL DEF CmdSpec, Spec

(* Under every command, what fetch_all reports is what its Markdown was    *)
(* made from: a chunk or index on its own does not touch a page's files.   *)
THEOREM CmdResultsMatch ==
  ASSUME ~Reverts
  PROVE  CmdSpec => []ResultMatchesFile
<1>1. Spec => []ResultMatchesFile
  BY ResultsMatch
<1> QED
  BY <1>1, CommandsUseCache

(* Under every command, what comes to be listed for the next `chunk` is on *)
(* disk as listed.                                                         *)
THEOREM CmdListingMatches ==
  ASSUME ~Reverts
  PROVE  CmdSpec => ListedIsOnDisk
<1>1. Spec => ListedIsOnDisk
  BY ListingMatches
<1> QED
  BY <1>1, CommandsUseCache

LEMMA StepCmdType == CmdTypeOK /\ [CmdNext]_cmdVars => CmdTypeOK'
<1> SUFFICES ASSUME CmdTypeOK, [CmdNext]_cmdVars PROVE CmdTypeOK'
  OBVIOUS
<1>1. TypeOK'
  BY CacheStep, StepType DEF CmdTypeOK
<1> DEFINE Rest == /\ command' \in Commands \cup {None}
                   /\ phase' \in Phases \cup {None}
                   /\ chunks' \in [Sources -> Files \cup {Cropped}]
<1>2. ASSUME NEW c \in Commands, Invoke(c) PROVE Rest
  BY <1>2 DEF Invoke, CmdTypeOK, Phases
<1>3. \A s \in Sources : Rows(s) \in Files \cup {Cropped}
  BY DEF Rows, CmdTypeOK, TypeOK, Files
<1>4. ASSUME Chunk \/ ChunkCut PROVE Rest
  <2>1. chunks' \in [Sources -> Files \cup {Cropped}]
    BY <1>3, <1>4 DEF Chunk, ChunkCut, Files
  <2> QED
    BY <1>4, <2>1 DEF Chunk, ChunkCut, Exit, CmdTypeOK, Phases
<1>5. ASSUME Fetched \/ FetchRaises \/ ChunkRaises \/ Index \/ Killed PROVE Rest
  BY <1>5 DEF Fetched, FetchRaises, ChunkRaises, Index, Killed, Exit, CmdTypeOK, Phases
<1>6. ASSUME (\E s \in Sources : Fetching(s)) \/ Author \/ UNCHANGED cmdVars PROVE Rest
  BY <1>6 DEF Fetching, Author, cmdVars, cmd, CmdTypeOK
<1>7. Rest
  BY <1>2, <1>4, <1>5, <1>6 DEF CmdNext, Step
<1> QED
  BY <1>1, <1>7 DEF CmdTypeOK

(* Every variable keeps its type under every command.                      *)
THEOREM CmdTypeCorrect == CmdSpec => []CmdTypeOK
<1>1. CmdInit => CmdTypeOK
  BY InitIInv DEF CmdInit, CmdTypeOK, IInv, Files
<1> QED
  BY <1>1, StepCmdType, PTL DEF CmdSpec

-----------------------------------------------------------------------------
(* What a run of all phases hands on                                       *)

\* What a source that is being asked for keeps when one of them moves.
LEMMA FetchingKeeps ==
  ASSUME TypeOK, NEW s \in Sources, Handle(s) \/ Break(s)
  PROVE  /\ running' = running /\ Asked(s)
         /\ \A d \in Sources : Asked(d)' => Asked(d)
<1>1. CASE Retry(s)
  BY <1>1 DEF Retry, Asked, TypeOK
<1>2. CASE GiveUp(s) \/ Page(s) \/ Break(s)
  BY <1>2 DEF GiveUp, Page, Break, Result, Asked, TypeOK
<1> QED
  BY <1>1, <1>2 DEF Handle

LEMMA StepPhase == CmdInv /\ [CmdNext]_cmdVars => PhaseInv'
<1> SUFFICES ASSUME CmdInv, [CmdNext]_cmdVars PROVE PhaseInv'
  OBVIOUS
<1>0. /\ TypeOK /\ PhaseInv /\ command \in Commands \cup {None} /\ IInv
      /\ None \notin Phases /\ None \notin Commands
  BY CommandsAssumption DEF CmdInv, CmdTypeOK, Commands
<1>1. ASSUME NEW c \in Commands, Invoke(c) PROVE PhaseInv'
  <2>1. ~running /\ command' = c /\ \A s \in Sources : ~Asked(s)
    BY <1>0, <1>1 DEF Invoke, PhaseInv, Phases
  <2>2. CASE c \in {"chunk", "index"}
    BY <1>0, <1>1, <2>1, <2>2 DEF Invoke, PhaseInv, Phases, vars, Asked
  <2>3. CASE c \notin {"chunk", "index"}
    <3>1. phase' = "fetch" /\ running' /\ (c \in Phases => c = "fetch")
      BY <1>1, <2>3 DEF Invoke, FetchAll, Phases
    <3> QED
      BY <1>0, <2>1, <3>1 DEF PhaseInv, Phases
  <2> QED
    BY <2>2, <2>3
<1>2. ASSUME NEW s \in Sources, Fetching(s) PROVE PhaseInv'
  BY <1>0, <1>2, FetchingKeeps DEF Fetching, PhaseInv, cmd
<1>3. CASE Fetched
  <2>1. ~running' /\ phase = "fetch" /\ \A s \in Sources : ~Asked(s)'
    BY <1>0, <1>3, NamesAssumption
       DEF Fetched, List, PhaseInv, IInv, SourceInv, OpenInv, Asked
  <2>2. CASE Exit
    BY <1>0, <2>1, <2>2 DEF Exit, PhaseInv, Phases
  <2>3. CASE /\ command # "fetch"
             /\ phase' = "chunk" /\ UNCHANGED command
    BY <1>0, <2>1, <2>3 DEF PhaseInv, Phases
  <2> QED
    BY <1>3, <2>2, <2>3 DEF Fetched
<1>4. CASE FetchRaises \/ Killed
  <2>1. ~running' /\ Exit /\ \A s \in Sources : ~Asked(s)'
    BY <1>4 DEF FetchRaises, Killed, Abort, Crash, NoResults, Asked
  <2> QED
    BY <1>0, <2>1 DEF Exit, PhaseInv, Phases
<1>5. CASE Chunk \/ ChunkRaises \/ ChunkCut \/ Index
  <2>1. /\ UNCHANGED vars /\ phase \in {"chunk", "index"}
        /\ Exit \/ (phase' = "index" /\ command' = command /\ command \in Whole)
    BY <1>5 DEF Chunk, ChunkRaises, ChunkCut, Index
  <2>2. ~running' /\ \A s \in Sources : ~Asked(s)'
    BY <1>0, <2>1 DEF PhaseInv, vars, Asked
  <2> QED
    BY <1>0, <2>1, <2>2 DEF Exit, PhaseInv, Phases, Whole
<1>6. CASE Author \/ UNCHANGED cmdVars
  BY <1>0, <1>6 DEF Author, Publish, cmdVars, cmd, vars, PhaseInv, Asked
<1> QED
  BY <1>1, <1>2, <1>3, <1>4, <1>5, <1>6 DEF CmdNext, Step

\* The rows made of a listing that is this run's are what it reported.
LEMMA RowsReported ==
  ASSUME IInv, NEW s \in Sources, listing[s] = Listed(s)
  PROVE  Rows(s) = Listed(s)
BY NamesAssumption DEF IInv, TypeOK, SourceInv, MatchInv, Listed, Rows, InListing

LEMMA StepHand == CmdInv /\ [CmdNext]_cmdVars => HandInv'
<1> SUFFICES ASSUME CmdInv, [CmdNext]_cmdVars, command' \in Whole,
                    phase' \in {"chunk", "index"}
             PROVE  HandInv'
  BY DEF HandInv
<1>0. TypeOK /\ PhaseInv /\ HandInv /\ IInv /\ None \notin Whole
  BY CommandsAssumption DEF CmdInv, CmdTypeOK, Commands
<1>1. ~Exit
  BY <1>0 DEF Exit
<1>2. ASSUME NEW c \in Commands, Invoke(c) PROVE FALSE
  BY <1>2 DEF Invoke, Whole
<1>3. ASSUME NEW s \in Sources, Fetching(s) PROVE FALSE
  BY <1>0, <1>3, FetchingKeeps DEF Fetching, PhaseInv, cmd
<1>4. CASE Fetched
  <2>1. phase' = "chunk" /\ \A s \in Sources : listing'[s] = Listed(s)
    BY <1>1, <1>4 DEF Fetched, List
  <2>2. \A s \in Sources : Listed(s)' = Listed(s)
    BY <1>4 DEF Fetched, List, results, Listed
  <2> QED
    BY <2>1, <2>2 DEF HandInv
<1>5. CASE Chunk
  <2>1. /\ phase' = "index" /\ command \in Whole /\ phase = "chunk" /\ UNCHANGED vars
        /\ \A s \in Sources : chunks'[s] = Rows(s)
    BY <1>1, <1>5 DEF Chunk
  <2>2. \A s \in Sources : Rows(s) = Listed(s)
    BY <1>0, <2>1, RowsReported DEF HandInv
  <2>3. \A s \in Sources : Listed(s)' = Listed(s)
    BY <2>1 DEF vars, results, Listed
  <2> QED
    BY <2>1, <2>2, <2>3 DEF HandInv
<1>6. ~FetchRaises /\ ~ChunkRaises /\ ~ChunkCut /\ ~Index /\ ~Killed
  BY <1>1 DEF FetchRaises, ChunkRaises, ChunkCut, Index, Killed
<1>7. CASE Author \/ UNCHANGED cmdVars
  BY <1>0, <1>7 DEF Author, Publish, cmdVars, cmd, vars, files, results, HandInv, Listed
<1> QED
  BY <1>2, <1>3, <1>4, <1>5, <1>6, <1>7 DEF CmdNext, Step

(* A run of all phases gives index_all what it has itself reported and no  *)
(* more, after any sequence of commands that were cut, killed or broken,   *)
(* if pages do not go back to earlier bytes.                               *)
THEOREM HandedOn ==
  ASSUME ~Reverts
  PROVE  CmdSpec => []IndexedIsReported
<1>1. CmdInit => CmdInv
  BY InitIInv, CommandsAssumption
     DEF CmdInit, CmdInv, CmdTypeOK, IInv, Init, Files, PhaseInv, HandInv, Asked,
         Phases, Whole, Commands
<1>2. CmdInv /\ [CmdNext]_cmdVars => CmdInv'
  <2>1. IInv /\ [CmdNext]_cmdVars => IInv'
    BY CacheStep, StepType, StepSource DEF IInv
  <2> QED
    BY <2>1, StepCmdType, StepPhase, StepHand DEF CmdInv
<1>3. CmdInv => IndexedIsReported
  BY DEF CmdInv, HandInv, IndexedIsReported
<1> QED
  BY <1>1, <1>2, <1>3, PTL DEF CmdSpec
=============================================================================
