--------------------------- MODULE CodeKnowledge ---------------------------
(***************************************************************************)
(* What prepare_l3_context builds for one repository: the checkout, the    *)
(* caches of phases/ on disk, the code graph in Neo4j, the lexical index   *)
(* and the vectors, and what a retrieval finds in them.                    *)
(*                                                                         *)
(* A cache file is written in two steps: opening it empties it, so a       *)
(* process that stops in between leaves a file that json.load rejects.     *)
(* The steps of an ingestion run one after the other in the worker; what   *)
(* it has stored before it fails stays stored.                             *)
(***************************************************************************)
EXTENDS FiniteSets, Naturals

CONSTANTS
  Files,        \* paths
  Java,         \* those in Java
  Parserless,   \* those in JavaScript, TypeScript or Go; the others are in Python
  Versions,     \* contents that a file can have
  Decls,        \* file -> version -> functions [name, line] declared there
  Calls,        \* file -> version -> names called by the functions there
  Imports,      \* file -> version -> functions [file, name] imported there
  Invalid,      \* <<file, version>> with a syntax error
  Branches,     \* file -> version or Absent: what the branch may hold at first
  Absent, NoCache, Torn, NoWrite, None,
  Semantic,     \* AUTO_VECTOR_INGEST_ON_WEBHOOK, with a provider
  MaxPushes,    \* bound on the changes of the repository
  MaxFailures,  \* bound on the failures of GitHub, Neo4j and the provider
  MaxCrashes    \* bound on the crashes of the process

ASSUME KnowledgeAssumption ==
  /\ Java \subseteq Files /\ Parserless \subseteq Files \ Java
  /\ Invalid \subseteq Files \X Versions
  /\ Branches \subseteq [Files -> Versions \cup {Absent}]
  /\ Absent \notin Versions /\ None \notin Versions
  /\ Semantic \in BOOLEAN
  /\ {MaxPushes, MaxFailures, MaxCrashes} \subseteq Nat

\* A declaration is a name and a line.
ASSUME DeclsAssumption ==
  \A f \in Files, v \in Versions : \A d \in Decls[f][v] :
    d = [name |-> d.name, line |-> d.line]

VARIABLES
  origin,     \* file -> its version on the branch, or Absent
  tree,       \* file -> its version in the checkout
  disk,       \* cache file -> its content, NoCache or Torn
  write,      \* the cache file being written and its content, or NoWrite
  pc,         \* the step of the ingestion that is next
  files,      \* state.files: the files of the scan
  todo,       \* those that the step has still to do
  infos,      \* FileInfo of the files that are analysed
  graph,      \* Neo4j: nodes and relationships
  vectors,    \* the vector store: chunks <<file, version>>
  committed,  \* history: infos when the calls were last replaced
  budget      \* pushes, failures and crashes so far

vars == <<origin, tree, disk, write, pc, files, todo, infos, graph, vectors,
          committed, budget>>
world == <<origin, tree, budget>>
stores == <<graph, vectors, committed>>

Caches == Files \cup {"scan", "folders", "lexical"}
Steps == {"idle", "checkout", "scan", "analyse", "summarise", "folders", "file_nodes",
          "function_nodes", "calls", "imports", "lexical", "vectors", "ready"}

Nodes == UNION {{[file |-> f, name |-> d.name, line |-> d.line] : d \in Decls[f][v]} :
                  f \in Files, v \in Versions}

Infos == [version : Versions \cup {Absent}, error : BOOLEAN, summary : Versions \cup {None}]

\* The caches lie beside the files, and no content is taken for a missing or a
\* torn one.
ASSUME CacheAssumption ==
  /\ {"scan", "folders", "lexical"} \cap Files = {}
  /\ NoCache # Torn
  /\ NoCache \notin Infos /\ Torn \notin Infos
  /\ \A S \in SUBSET Files : S # NoCache /\ S # Torn
  /\ NoWrite \notin [cache : Files, content : Infos]
  /\ NoWrite \notin [cache : {"scan"}, content : SUBSET Files]
  /\ NoWrite \notin [cache : {"lexical"}, content : SUBSET (Files \X Versions)]

TypeOK ==
  /\ {origin, tree} \subseteq [Files -> Versions \cup {Absent}]
  /\ DOMAIN disk = Caches
  /\ \A f \in Files : disk[f] \in Infos \cup {NoCache, Torn}
  /\ disk["scan"] \in (SUBSET Files) \cup {NoCache, Torn}
  /\ pc \in Steps
  /\ files \subseteq Files /\ todo \subseteq files
  /\ DOMAIN infos \subseteq files /\ \A f \in DOMAIN infos : infos[f] \in Infos
  /\ graph.nodes \subseteq Nodes
  /\ graph.calls \subseteq Nodes \X Nodes /\ graph.imports \subseteq Files \X Nodes
  /\ vectors \subseteq Files \X Versions

Init ==
  /\ origin \in Branches /\ tree = [f \in Files |-> Absent]
  /\ disk = [c \in Caches |-> NoCache]
  /\ write = NoWrite
  /\ pc = "idle"
  /\ files = {} /\ todo = {} /\ infos = <<>>
  /\ graph = [files |-> {}, nodes |-> {}, calls |-> {}, imports |-> {}]
  /\ vectors = {}
  /\ committed = <<>>
  /\ budget = [pushes |-> 0, failures |-> 0, crashes |-> 0]

-----------------------------------------------------------------------------
(* Writing, failing, stopping.                                              *)

\* open(..., "w"): the next step waits for FinishWrite.
StartWrite(c, content) ==
  /\ write' = [cache |-> c, content |-> content]
  /\ disk' = [disk EXCEPT ![c] = Torn]

NothingWritten == UNCHANGED <<disk, write>>

FinishWrite ==
  /\ write # NoWrite
  /\ disk' = [disk EXCEPT ![write.cache] = write.content]
  /\ write' = NoWrite
  /\ UNCHANGED <<world, stores, pc, files, todo, infos>>

At(step) == pc = step /\ write = NoWrite

\* The ingestion is over, and with it the state that it worked on.
Over == pc' = "idle" /\ files' = {} /\ todo' = {} /\ infos' = <<>>

\* A step raises; prepare_l3_context fails and the stores keep what they have.
Raise == Over /\ NothingWritten /\ UNCHANGED <<stores, world>>

\* GitHub, Neo4j or the vector store fails.
External == {"checkout", "file_nodes", "function_nodes", "calls", "imports", "vectors"}

ExternalFailure ==
  /\ pc \in External /\ write = NoWrite
  /\ budget.failures < MaxFailures
  /\ budget' = [budget EXCEPT !.failures = @ + 1]
  /\ Over /\ NothingWritten
  /\ UNCHANGED <<origin, tree, stores>>

\* The process stops; a cache file it was writing stays torn.
Crash ==
  /\ pc # "idle"
  /\ budget.crashes < MaxCrashes
  /\ budget' = [budget EXCEPT !.crashes = @ + 1]
  /\ Over
  /\ write' = NoWrite
  /\ UNCHANGED <<origin, tree, disk, stores>>

\* Someone pushes to the branch.
Push(f, v) ==
  /\ v # origin[f]
  /\ budget.pushes < MaxPushes
  /\ budget' = [budget EXCEPT !.pushes = @ + 1]
  /\ origin' = [origin EXCEPT ![f] = v]
  /\ UNCHANGED <<tree, disk, write, pc, files, todo, infos, stores>>

-----------------------------------------------------------------------------
(* Checkout, scan and analysis.                                             *)

Start ==
  /\ At("idle")
  /\ pc' = "checkout"
  /\ NothingWritten /\ UNCHANGED <<world, stores, files, todo, infos>>

\* _ensure_repo_checkout: clone, or fetch, checkout and pull.
Checkout ==
  /\ At("checkout")
  /\ tree' = origin
  /\ pc' = "scan"
  /\ NothingWritten /\ UNCHANGED <<origin, budget, stores, files, todo, infos>>

\* Files in the checkout.
Present == {f \in Files : tree[f] # Absent}

\* scan_repo: the first scan of this checkout directory decides for all the
\* later ones which files there are.
Scan ==
  /\ At("scan")
  /\ disk["scan"] # Torn
  /\ LET cached == disk["scan"] # NoCache
     IN /\ files' = IF cached THEN disk["scan"] ELSE Present
        /\ IF cached THEN NothingWritten ELSE StartWrite("scan", Present)
  /\ todo' = files'
  /\ pc' = "analyse"
  /\ UNCHANGED <<world, stores, infos>>

ScanRaises == At("scan") /\ disk["scan"] = Torn /\ Raise

With(f, info) == [g \in (DOMAIN infos) \cup {f} |-> IF g = f THEN info ELSE infos[g]]

\* parser.parse: a file that is gone or does not parse has no structure.
Parsed(f) ==
  [version |-> tree[f], error |-> tree[f] = Absent \/ <<f, tree[f]>> \in Invalid,
   summary |-> None]

\* A cache that is not compared with the source.
MutCacheHit(f) == disk[f] # NoCache

\* load_file_cache and, for Java, analyze_files compare the source's hash.
CacheHit(f) == disk[f] # NoCache /\ disk[f].version = tree[f]

\* The files of the scan are taken in its order, any fixed one.
First(S) == CHOOSE f \in S : TRUE

\* json.load rejects the cache; analyze_files hashes a Java file, whether it is
\* there or not; get_parser imports a parser for the language, outside the try
\* around the parsing, and there is none for these languages.
Unanalysable(f) ==
  \/ disk[f] = Torn
  \/ f \in Java /\ tree[f] = Absent
  \/ f \in Parserless /\ ~CacheHit(f)

Analyse(f) ==
  /\ At("analyse") /\ f = First(todo)
  /\ ~Unanalysable(f)
  /\ infos' = With(f, IF CacheHit(f) THEN disk[f] ELSE Parsed(f))
  /\ IF CacheHit(f) THEN NothingWritten ELSE StartWrite(f, Parsed(f))
  /\ todo' = todo \ {f}
  /\ UNCHANGED <<world, stores, pc, files>>

AnalysisRaises ==
  /\ At("analyse") /\ todo # {}
  /\ Unanalysable(First(todo))
  /\ Raise

\* should_skip.
Unsummarised == {f \in DOMAIN infos : infos[f].summary = None /\ ~infos[f].error}

EndAnalysis ==
  /\ At("analyse") /\ todo = {}
  /\ pc' = "summarise"
  /\ todo' = Unsummarised
  /\ NothingWritten /\ UNCHANGED <<world, stores, files, infos>>

\* analyze_with_llm: the files of a batch are done in any order; whether the
\* model answers or fails, the file is saved.
Summarise(f) ==
  /\ At("summarise")
  /\ \E s \in {infos[f].version, None} :
       /\ s = None => budget.failures < MaxFailures
       /\ budget' = [budget EXCEPT !.failures = IF s = None THEN @ + 1 ELSE @]
       /\ infos' = With(f, [infos[f] EXCEPT !.summary = s])
       /\ StartWrite(f, [infos[f] EXCEPT !.summary = s])
  /\ todo' = todo \ {f}
  /\ UNCHANGED <<origin, tree, stores, pc, files>>

EndSummaries ==
  /\ At("summarise") /\ todo = {}
  /\ pc' = "folders"
  /\ NothingWritten /\ UNCHANGED <<world, stores, files, todo, infos>>

\* build_hierarchy: the fingerprint of a folder covers what its files say.
Folders ==
  /\ At("folders")
  /\ disk["folders"] # Torn
  /\ IF disk["folders"] = infos THEN NothingWritten ELSE StartWrite("folders", infos)
  /\ pc' = "file_nodes"
  /\ UNCHANGED <<world, stores, files, todo, infos>>

FoldersRaise == At("folders") /\ disk["folders"] = Torn /\ Raise

-----------------------------------------------------------------------------
(* neo4j_ingest: every batch is a transaction of its own; nodes are merged   *)
(* and never deleted.                                                       *)

\* What the parser found in a file.
Declared(f) == IF infos[f].error THEN {} ELSE Decls[f][infos[f].version]
Called(f) == IF infos[f].error THEN {} ELSE Calls[f][infos[f].version]
Imported(f) == IF infos[f].error THEN {} ELSE Imports[f][infos[f].version]

NodesOf(f) == {[file |-> f, name |-> d.name, line |-> d.line] : d \in Declared(f)}

GraphStep(step, next) ==
  /\ At(step)
  /\ pc' = next
  /\ NothingWritten /\ UNCHANGED <<world, files, todo, infos, vectors>>

\* create_file_nodes.
FileNodes ==
  /\ GraphStep("file_nodes", "function_nodes")
  /\ graph' = [graph EXCEPT !.files = {e \in @ : e[1] \notin files}
                                        \cup {<<f, infos[f]>> : f \in files}]
  /\ UNCHANGED committed

\* create_function_nodes, and in the same way the classes and folders, the
\* relationships between them and with their files.
FunctionNodes ==
  /\ GraphStep("function_nodes", "calls")
  /\ graph' = [graph EXCEPT !.nodes = @ \cup UNION {NodesOf(f) : f \in files}]
  /\ UNCHANGED committed

\* JavaSymbols.method abstains unless there is exactly one declaration; the
\* other languages take a local one first, then any.
Targets(f, name) ==
  LET all == UNION {{n \in NodesOf(g) : n.name = name} :
                      g \in {g \in files : (g \in Java) = (f \in Java)}}
      local == {n \in all : n.file = f}
  IN IF f \in Java THEN IF Cardinality(all) = 1 THEN all ELSE {}
     ELSE IF local # {} THEN {CHOOSE n \in local : TRUE}
     ELSE IF all # {} THEN {CHOOSE n \in all : TRUE} ELSE {}

EdgesOf(f) == NodesOf(f) \X UNION {Targets(f, name) : name \in Called(f)}

Edges == UNION {EdgesOf(f) : f \in files}

\* Edges that are only ever added.
MutReplaced(old) == old \cup Edges

\* The outgoing edges of the Java files are replaced, the others merged.
Replaced(old) == {e \in old : e[1].file \notin Java \cap files} \cup Edges

\* A syntax error in any file.
MutUnresolvable == \E f \in files : infos[f].error

\* java_call_batch: a Java file with a syntax error.
Unresolvable == \E f \in Java \cap files : infos[f].error

\* create_calls_relationships: one transaction removes and creates.
CallsReplaced ==
  /\ GraphStep("calls", "imports")
  /\ ~Unresolvable
  /\ graph' = [graph EXCEPT !.calls = Replaced(@)]
  /\ committed' = infos

CallsRaise == At("calls") /\ Unresolvable /\ Raise

\* create_imports_function_relationships, and in the same way the classes and
\* the exports.
ImportsMerged ==
  /\ GraphStep("imports", "lexical")
  /\ graph' = [graph EXCEPT !.imports = @ \cup
       UNION {{f} \X {n \in UNION {NodesOf(g) : g \in files \ {f}} :
                        [file |-> n.file, name |-> n.name] \in Imported(f)} : f \in files}]
  /\ UNCHANGED committed

-----------------------------------------------------------------------------
(* build_rag_index and the retrieval.                                       *)

\* _make_chunk: the identifier of a chunk covers its content.
ChunkOf(f) == <<f, tree[f]>>

\* build_retrieval_chunks reads the checkout again.
Chunks == {ChunkOf(f) : f \in files \cap Present}

\* save_lexical_index: the whole index at once.
Lexical ==
  /\ At("lexical")
  /\ StartWrite("lexical", Chunks)
  /\ pc' = IF Semantic THEN "vectors" ELSE "ready"
  /\ todo' = IF Semantic THEN files \cap Present ELSE {}
  /\ UNCHANGED <<world, stores, files, infos>>

\* upsert_chunks, batch by batch; nothing deletes a vector.
Upsert(f) ==
  /\ At("vectors") /\ f = First(todo)
  /\ vectors' = vectors \cup {ChunkOf(f)}
  /\ todo' = todo \ {f}
  /\ NothingWritten /\ UNCHANGED <<world, graph, committed, pc, files, infos>>

EndUpserts ==
  /\ At("vectors") /\ todo = {}
  /\ pc' = "ready"
  /\ NothingWritten /\ UNCHANGED <<world, stores, files, todo, infos>>

\* The analysis has retrieved what it needs and is over.
Analysed ==
  /\ At("ready")
  /\ Over /\ NothingWritten
  /\ UNCHANGED <<world, stores>>

-----------------------------------------------------------------------------
IngestStep ==
  \/ FinishWrite \/ Start \/ Checkout \/ Scan \/ ScanRaises
  \/ AnalysisRaises \/ EndAnalysis \/ EndSummaries \/ Folders \/ FoldersRaise
  \/ FileNodes \/ FunctionNodes \/ CallsReplaced \/ CallsRaise \/ ImportsMerged
  \/ Lexical \/ EndUpserts \/ Analysed
  \/ \E f \in todo : Analyse(f) \/ Summarise(f) \/ Upsert(f)

Next ==
  \/ IngestStep \/ ExternalFailure \/ Crash
  \/ \E f \in Files, v \in Versions \cup {Absent} : Push(f, v)

Spec == Init /\ [][Next]_vars

\* The worker's thread is scheduled, and incidents of the repository go on
\* arriving.
FairSpec == Spec /\ WF_vars(IngestStep)

-----------------------------------------------------------------------------
(* What an ingestion guarantees.                                            *)

\* A completed ingestion is about the checkout, whatever older ones left
\* behind, failed or crashed between two of its steps: of every file of the
\* scan the cache, the nodes, the calls and the lexical index are the current
\* ones, and no summary is of another version.
IngestionRepairs ==
  At("ready") =>
    /\ \A f \in files :
         /\ infos[f].version = tree[f] /\ infos[f].summary \in {tree[f], None}
         /\ <<f, infos[f]>> \in graph.files
         /\ NodesOf(f) \subseteq graph.nodes
    /\ Edges \subseteq graph.calls
    /\ disk["lexical"] = Chunks

\* The calls out of a Java file are those of one ingestion, at all times: the
\* removal of the old ones and the creation of the new ones take effect
\* together (NEO4J_CALL_RESOLUTION.md, "Refresh an existing index").
CallsAreOfOneSnapshot ==
  \A e \in graph.calls : e[1].file \in Java =>
    /\ e[1].file \in DOMAIN committed
    /\ \A n \in {e[1], e[2]} :
         /\ n.file \in DOMAIN committed
         /\ [name |-> n.name, line |-> n.line] \in Decls[n.file][committed[n.file].version]

\* What stops every further ingestion until someone repairs it by hand.
Poisoned ==
  \/ disk["scan"] = Torn \/ disk["folders"] = Torn \/ \E f \in Files : disk[f] = Torn
  \/ /\ disk["scan"] # NoCache
     /\ \E f \in disk["scan"] :
          \/ f \in Java /\ (origin[f] = Absent \/ <<f, origin[f]>> \in Invalid)
          \/ f \in Parserless

\* After failures and crashes, ingestions get through again, unless a crash has
\* torn a cache of phases/, or a Java file of the first scan is gone or does
\* not parse, or the first scan found a file in JavaScript, TypeScript or Go,
\* languages that are parsed according to the detector but have no parser.
IngestsAgain == <>[]Poisoned \/ []<>(pc = "ready")

=============================================================================
