------------------------ MODULE CodeKnowledgeProofs ------------------------
(***************************************************************************)
(* What CodeKnowledge guarantees holds for every repository: any files,    *)
(* versions, declarations and calls, and any number of pushes, failures    *)
(* and crashes.                                                            *)
(***************************************************************************)
EXTENDS CodeKnowledge, TLAPS

\* The steps of an ingestion, from one of them to its end.
AfterLexical == {"vectors", "ready"}
AfterCalls == {"imports", "lexical"} \cup AfterLexical
AfterNodes == {"calls"} \cup AfterCalls
AfterFiles == {"function_nodes"} \cup AfterNodes
AfterAnalysis == {"summarise", "folders", "file_nodes"} \cup AfterFiles
AfterScan == {"analyse"} \cup AfterAnalysis
BeforeScan == {"idle", "checkout", "scan"}

\* A summary is of the version it stands with, and what has no source has an
\* error.
Sound(info) ==
  /\ info \in Infos
  /\ info.summary \in {info.version, None}
  /\ info.version = Absent => info.error

Writing(c) == write # NoWrite /\ write.cache = c

\* What is remembered of the files, on disk and on its way there.
CacheInv ==
  /\ disk = [c \in Caches |-> disk[c]]
  /\ \A f \in Files : disk[f] \in {NoCache, Torn} \/ Sound(disk[f])
  /\ write # NoWrite =>
       /\ write.cache \in Caches
       /\ write.cache \in Files => Sound(write.content)
  /\ Writing("scan") => pc = "analyse" /\ write.content = files
  /\ Writing("lexical") => pc \in AfterLexical /\ write.content = Chunks

\* What the ingestion has in memory is about the checkout.
InfoInv ==
  /\ infos = [f \in DOMAIN infos |-> infos[f]]
  /\ pc \in BeforeScan => files = {} /\ DOMAIN infos = {}
  /\ pc = "analyse" => DOMAIN infos = files \ todo
  /\ pc \in AfterAnalysis => DOMAIN infos = files
  /\ \A f \in DOMAIN infos : Sound(infos[f]) /\ infos[f].version = tree[f]
  /\ pc = "summarise" => \A f \in todo : ~infos[f].error
  /\ pc = "vectors" => todo \subseteq Present

\* What it has stored so far.
StoreInv ==
  /\ graph = [files |-> graph.files, nodes |-> graph.nodes, calls |-> graph.calls,
              imports |-> graph.imports]
  /\ pc \in AfterFiles => \A f \in files : <<f, infos[f]>> \in graph.files
  /\ pc \in AfterNodes => \A f \in files : NodesOf(f) \subseteq graph.nodes
  /\ pc \in AfterCalls => Edges \subseteq graph.calls
  /\ pc \in AfterLexical /\ ~Writing("lexical") => disk["lexical"] = Chunks

\* Every ingestion is of the files of the first scan.
ScanInv ==
  /\ pc \in AfterScan /\ ~Writing("scan") => disk["scan"] = files
  /\ Writing("scan") => DOMAIN committed = {}
  /\ DOMAIN committed # {} => disk["scan"] = DOMAIN committed
  /\ DOMAIN committed \subseteq Files

KnowledgeInv ==
  /\ TypeOK
  /\ CacheInv
  /\ InfoInv
  /\ StoreInv
  /\ ScanInv
  /\ CallsAreOfOneSnapshot

-----------------------------------------------------------------------------
(* What the definitions depend on.                                          *)

LEMMA SameInfos ==
  ASSUME UNCHANGED <<infos, files>>
  PROVE  Edges' = Edges /\ \A f : NodesOf(f)' = NodesOf(f)
  BY DEF Edges, EdgesOf, Targets, NodesOf, Declared, Called

LEMMA SameChunks ==
  ASSUME UNCHANGED <<tree, files>>
  PROVE  Chunks' = Chunks
  BY DEF Chunks, ChunkOf, Present

\* Nodes are of the files of the scan.
LEMMA NodesAreNodes ==
  ASSUME NEW f \in Files, Sound(infos[f])
  PROVE  NodesOf(f) \subseteq Nodes
<1>1. ~infos[f].error => infos[f].version \in Versions
  BY DEF Sound, Infos
<1>2. \A d \in Declared(f) :
        infos[f].version \in Versions /\ d \in Decls[f][infos[f].version]
  BY <1>1 DEF Declared
<1> SUFFICES ASSUME NEW d \in Declared(f)
             PROVE  [file |-> f, name |-> d.name, line |-> d.line] \in Nodes
  BY DEF NodesOf
<1> DEFINE N(g, v) == {[file |-> g, name |-> e.name, line |-> e.line] : e \in Decls[g][v]}
<1>3. [file |-> f, name |-> d.name, line |-> d.line] \in N(f, infos[f].version)
  BY <1>2
<1>4. \A g \in Files, v \in Versions : N(g, v) \subseteq Nodes
  <2> SUFFICES ASSUME NEW g \in Files, NEW v \in Versions PROVE N(g, v) \subseteq Nodes
    OBVIOUS
  <2>1. Nodes = UNION {N(h, w) : h \in Files, w \in Versions}
    BY DEF Nodes
  <2> HIDE DEF N
  <2>2. N(g, v) \in {N(h, w) : h \in Files, w \in Versions}
    OBVIOUS
  <2> QED
    BY <2>1, <2>2
<1> QED
  BY <1>2, <1>3, <1>4

LEMMA ChunksAreChunks ==
  ASSUME TypeOK
  PROVE  Chunks \in SUBSET (Files \X Versions)
  BY DEF TypeOK, Chunks, ChunkOf, Present

LEMMA ParsedIsSound ==
  ASSUME TypeOK, NEW f \in Files
  PROVE  Sound(Parsed(f)) /\ Parsed(f).version = tree[f]
  BY KnowledgeAssumption DEF TypeOK, Parsed, Sound, Infos

-----------------------------------------------------------------------------
(* The invariant.                                                           *)

LEMMA KnowledgeInvInit == Init => KnowledgeInv
<1> SUFFICES ASSUME Init PROVE KnowledgeInv
  OBVIOUS
<1>1. TypeOK
  <2>1. {origin, tree} \subseteq [Files -> Versions \cup {Absent}]
    BY KnowledgeAssumption DEF Init
  <2>2. /\ DOMAIN disk = Caches
        /\ \A f \in Files : disk[f] \in Infos \cup {NoCache, Torn}
        /\ disk["scan"] \in (SUBSET Files) \cup {NoCache, Torn}
    <3>1. disk = [c \in Caches |-> NoCache] /\ Files \subseteq Caches /\ "scan" \in Caches
      BY DEF Init, Caches
    <3>2. disk["scan"] = NoCache /\ \A f \in Files : disk[f] = NoCache
      BY <3>1
    <3>3. DOMAIN disk = Caches
      BY <3>1
    <3>4. NoCache \in Infos \cup {NoCache, Torn} /\ NoCache \in (SUBSET Files) \cup {NoCache, Torn}
      OBVIOUS
    <3> QED
      BY <3>2, <3>3, <3>4
  <2>3. DOMAIN infos \subseteq files /\ \A f \in DOMAIN infos : infos[f] \in Infos
    BY DEF Init
  <2>4. pc \in Steps /\ files \subseteq Files /\ todo \subseteq files
    BY DEF Init, Steps
  <2>5. /\ graph.nodes \subseteq Nodes
        /\ graph.calls \subseteq Nodes \X Nodes /\ graph.imports \subseteq Files \X Nodes
        /\ vectors \subseteq Files \X Versions
    BY DEF Init
  <2> QED
    BY <2>1, <2>2, <2>3, <2>4, <2>5 DEF TypeOK
<1>2. CacheInv
  BY DEF Init, CacheInv, Writing, Caches
<1>3. InfoInv
  BY DEF Init, InfoInv, BeforeScan, AfterAnalysis, AfterFiles, AfterNodes, AfterCalls,
     AfterLexical
<1>4. StoreInv
  BY DEF Init, StoreInv, Writing, AfterFiles, AfterNodes, AfterCalls, AfterLexical
<1>5. ScanInv /\ CallsAreOfOneSnapshot
  BY DEF Init, ScanInv, Writing, CallsAreOfOneSnapshot, AfterScan, AfterAnalysis, AfterFiles,
     AfterNodes,
     AfterCalls, AfterLexical
<1> QED
  BY <1>1, <1>2, <1>3, <1>4, <1>5 DEF KnowledgeInv

\* However an ingestion ends, nothing is known of the next one.
LEMMA Ending ==
  ASSUME KnowledgeInv, Over, write' = NoWrite, UNCHANGED <<disk, stores, tree>>,
         origin' \in [Files -> Versions \cup {Absent}]
  PROVE  KnowledgeInv'
<1>1. /\ pc' = "idle" /\ files' = {} /\ todo' = {} /\ DOMAIN infos' = {} /\ infos' = <<>>
      /\ UNCHANGED <<graph, vectors, committed>>
  BY DEF Over, stores
<1>2. TypeOK'
  BY <1>1 DEF KnowledgeInv, TypeOK, Steps
<1>3. CacheInv'
  BY <1>1 DEF KnowledgeInv, CacheInv, Writing
<1>4. InfoInv'
  BY <1>1 DEF InfoInv, BeforeScan, AfterAnalysis, AfterFiles, AfterNodes, AfterCalls,
     AfterLexical
<1>5. StoreInv'
  BY <1>1 DEF KnowledgeInv, StoreInv, Writing, AfterFiles, AfterNodes, AfterCalls, AfterLexical
<1>6. ScanInv'
  BY <1>1 DEF KnowledgeInv, ScanInv, Writing, AfterScan, AfterAnalysis, AfterFiles, AfterNodes,
     AfterCalls,
     AfterLexical
<1>7. CallsAreOfOneSnapshot'
  BY <1>1 DEF KnowledgeInv, CallsAreOfOneSnapshot
<1> QED
  BY <1>2, <1>3, <1>4, <1>5, <1>6, <1>7 DEF KnowledgeInv

\* A step that changes nothing but the point of the run, or the branch.
LEMMA Moving ==
  ASSUME KnowledgeInv, UNCHANGED <<tree, disk, write, stores, files, infos>>,
         origin' \in [Files -> Versions \cup {Absent}],
         \/ UNCHANGED <<pc, todo>>
         \/ pc = "idle" /\ pc' = "checkout" /\ UNCHANGED todo
         \/ pc = "summarise" /\ pc' = "folders" /\ UNCHANGED todo
         \/ /\ pc = "analyse" /\ todo = {} /\ pc' = "summarise" /\ todo' = Unsummarised
            /\ write = NoWrite
         \/ pc = "vectors" /\ pc' = "ready" /\ UNCHANGED todo
  PROVE  KnowledgeInv'
<1>1. UNCHANGED <<graph, vectors, committed>>
  BY DEF stores
<1>2. Edges' = Edges /\ (\A f : NodesOf(f)' = NodesOf(f)) /\ Chunks' = Chunks
  BY SameInfos, SameChunks
<1>3. Unsummarised \subseteq DOMAIN infos /\ \A f \in Unsummarised : ~infos[f].error
  BY DEF Unsummarised
<1>4. TypeOK'
  BY <1>1, <1>3 DEF KnowledgeInv, TypeOK, Steps
<1>5. CacheInv'
  BY <1>2 DEF KnowledgeInv, CacheInv, Writing, AfterLexical
<1>6. InfoInv'
  BY <1>3 DEF KnowledgeInv, InfoInv, BeforeScan, AfterAnalysis, AfterFiles, AfterNodes, AfterCalls,
     AfterLexical, Present
<1>7. StoreInv'
  BY <1>1, <1>2 DEF KnowledgeInv, StoreInv, Writing, AfterFiles, AfterNodes, AfterCalls,
     AfterLexical
<1>8. ScanInv'
  BY <1>1 DEF KnowledgeInv, ScanInv, Writing, AfterScan, AfterAnalysis, AfterFiles, AfterNodes,
     AfterCalls,
     AfterLexical
<1>9. CallsAreOfOneSnapshot'
  BY <1>1 DEF KnowledgeInv, CallsAreOfOneSnapshot
<1> QED
  BY <1>4, <1>5, <1>6, <1>7, <1>8, <1>9 DEF KnowledgeInv

LEMMA FinishingWrite ==
  ASSUME KnowledgeInv, FinishWrite
  PROVE  KnowledgeInv'
<1>1. /\ write # NoWrite /\ write' = NoWrite
      /\ disk' = [disk EXCEPT ![write.cache] = write.content]
      /\ UNCHANGED <<origin, tree, graph, vectors, committed, pc, files, todo, infos>>
  BY DEF FinishWrite, world, stores
<1>2. Edges' = Edges /\ (\A f : NodesOf(f)' = NodesOf(f)) /\ Chunks' = Chunks
  BY <1>1, SameInfos, SameChunks
<1>3. /\ disk' = [c \in Caches |-> IF c = write.cache THEN write.content ELSE disk[c]]
      /\ write.cache \in Caches
  BY <1>1 DEF KnowledgeInv, CacheInv
<1>4. /\ "scan" \in Caches /\ "lexical" \in Caches /\ Files \subseteq Caches
      /\ "scan" \notin Files /\ "lexical" \notin Files
  BY CacheAssumption DEF Caches
<1>5. CacheInv'
  BY <1>1, <1>3, <1>4 DEF KnowledgeInv, CacheInv, Writing
<1>6. /\ write.cache = "scan" => disk'["scan"] = files
      /\ write.cache # "scan" => disk'["scan"] = disk["scan"]
  <2>1. write.cache = "scan" => write.content = files
    BY <1>1 DEF KnowledgeInv, CacheInv, Writing
  <2> QED
    BY <1>3, <1>4, <2>1
<1>7. TypeOK'
  <2>1. disk'["scan"] \in (SUBSET Files) \cup {NoCache, Torn}
    BY <1>6 DEF KnowledgeInv, TypeOK
  <2>2. \A f \in Files : disk'[f] \in Infos \cup {NoCache, Torn}
    BY <1>5 DEF CacheInv, Sound
  <2> QED
    BY <1>1, <1>3, <2>1, <2>2 DEF KnowledgeInv, TypeOK
<1>8. InfoInv'
  BY <1>1 DEF KnowledgeInv, InfoInv, Present
<1>9. StoreInv'
  <2>1. pc \in AfterLexical => disk'["lexical"] = Chunks
    <3>1. write.cache = "lexical" => write.content = Chunks
      BY <1>1 DEF KnowledgeInv, CacheInv, Writing
    <3>2. write.cache # "lexical" /\ pc \in AfterLexical => disk["lexical"] = Chunks
      BY DEF KnowledgeInv, StoreInv, Writing
    <3> QED
      BY <1>3, <1>4, <3>1, <3>2
  <2> QED
    BY <1>1, <1>2, <2>1 DEF KnowledgeInv, StoreInv, Writing
<1>10. ScanInv'
  BY <1>1, <1>6 DEF KnowledgeInv, ScanInv, Writing
<1>11. CallsAreOfOneSnapshot'
  BY <1>1 DEF KnowledgeInv, CallsAreOfOneSnapshot
<1> QED
  BY <1>5, <1>7, <1>8, <1>9, <1>10, <1>11 DEF KnowledgeInv

LEMMA CheckingOut ==
  ASSUME KnowledgeInv, Checkout
  PROVE  KnowledgeInv'
<1>1. /\ pc = "checkout" /\ pc' = "scan" /\ tree' = origin
      /\ write = NoWrite /\ write' = NoWrite
      /\ UNCHANGED <<origin, disk, graph, vectors, committed, files, todo, infos>>
  BY DEF Checkout, At, NothingWritten, stores
<1>2. TypeOK'
  BY <1>1 DEF KnowledgeInv, TypeOK, Steps
<1>3. CacheInv'
  BY <1>1 DEF KnowledgeInv, CacheInv, Writing
<1>4. InfoInv'
  BY <1>1 DEF KnowledgeInv, InfoInv, BeforeScan, AfterAnalysis, AfterFiles, AfterNodes, AfterCalls,
     AfterLexical
<1>5. StoreInv'
  BY <1>1 DEF KnowledgeInv, StoreInv, AfterFiles, AfterNodes, AfterCalls, AfterLexical
<1>6. ScanInv'
  BY <1>1 DEF KnowledgeInv, ScanInv, Writing, AfterScan, AfterAnalysis, AfterFiles, AfterNodes,
     AfterCalls, AfterLexical
<1>7. CallsAreOfOneSnapshot'
  BY <1>1 DEF KnowledgeInv, CallsAreOfOneSnapshot
<1> QED
  BY <1>2, <1>3, <1>4, <1>5, <1>6, <1>7 DEF KnowledgeInv

LEMMA Scanning ==
  ASSUME KnowledgeInv, Scan
  PROVE  KnowledgeInv'
<1>1. /\ pc = "scan" /\ pc' = "analyse" /\ write = NoWrite /\ todo' = files'
      /\ disk["scan"] # Torn
      /\ UNCHANGED <<origin, tree, graph, vectors, committed, infos>>
  BY DEF Scan, At, world, stores
<1>2. /\ "scan" \in Caches /\ "scan" \notin Files /\ "scan" # "lexical"
  BY CacheAssumption DEF Caches
<1>3. /\ files' \subseteq Files
      /\ \/ UNCHANGED <<disk, write>> /\ disk["scan"] = files'
         \/ /\ disk["scan"] = NoCache /\ disk' = [disk EXCEPT !["scan"] = Torn]
            /\ write' = [cache |-> "scan", content |-> files']
  <2>1. CASE disk["scan"] # NoCache
    BY <1>1, <2>1 DEF Scan, NothingWritten, KnowledgeInv, TypeOK
  <2>2. CASE disk["scan"] = NoCache
    BY <1>1, <2>2 DEF Scan, StartWrite, Present
  <2> QED
    BY <2>1, <2>2
<1>4. write' # NoWrite => write' = [cache |-> "scan", content |-> files']
  BY <1>1, <1>3
<1>5. disk' # disk => write' # NoWrite
  BY <1>3, CacheAssumption
<1>6. DOMAIN infos = {}
  BY <1>1 DEF KnowledgeInv, InfoInv, BeforeScan
<1>7. /\ disk' = [c \in Caches |-> disk'[c]]
      /\ \A f \in Files : disk'[f] = disk[f]
      /\ disk'["scan"] \in (SUBSET Files) \cup {NoCache, Torn}
  <2>1. disk = [c \in Caches |-> disk[c]] /\ Files \subseteq Caches
    BY DEF KnowledgeInv, CacheInv, Caches
  <2>2. disk["scan"] \in (SUBSET Files) \cup {NoCache, Torn}
    BY DEF KnowledgeInv, TypeOK
  <2>3. CASE UNCHANGED disk
    BY <2>1, <2>2, <2>3
  <2>4. CASE disk' = [disk EXCEPT !["scan"] = Torn]
    BY <1>2, <2>1, <2>4
  <2> QED
    BY <1>3, <2>3, <2>4
<1>8. TypeOK'
  BY <1>1, <1>3, <1>6, <1>7 DEF KnowledgeInv, TypeOK, Steps
<1>9. CacheInv'
  BY <1>1, <1>2, <1>4, <1>7 DEF KnowledgeInv, CacheInv, Writing, Caches
<1>10. InfoInv'
  BY <1>1, <1>6 DEF KnowledgeInv, InfoInv, BeforeScan, AfterAnalysis, AfterFiles, AfterNodes,
     AfterCalls, AfterLexical
<1>11. StoreInv'
  BY <1>1 DEF KnowledgeInv, StoreInv, AfterFiles, AfterNodes, AfterCalls, AfterLexical
<1>12. ScanInv'
  <2>1. CASE UNCHANGED <<disk, write>> /\ disk["scan"] = files'
    BY <1>1, <2>1 DEF KnowledgeInv, ScanInv, Writing
  <2>2. CASE /\ disk["scan"] = NoCache
             /\ write' = [cache |-> "scan", content |-> files']
    <3>1. DOMAIN committed = {}
      <4>1. SUFFICES ASSUME DOMAIN committed # {} PROVE FALSE
        OBVIOUS
      <4>2. disk["scan"] = DOMAIN committed
        BY <4>1 DEF KnowledgeInv, ScanInv
      <4>3. DOMAIN committed \in SUBSET Files
        BY DEF KnowledgeInv, ScanInv
      <4> QED
        BY <2>2, <4>2, <4>3, CacheAssumption
    <3>2. Writing("scan")'
      BY <1>3, <2>2, CacheAssumption DEF Writing
    <3> QED
      BY <1>1, <3>1, <3>2 DEF ScanInv
  <2> QED
    BY <1>3, <2>1, <2>2
<1>13. CallsAreOfOneSnapshot'
  BY <1>1 DEF KnowledgeInv, CallsAreOfOneSnapshot
<1> QED
  BY <1>8, <1>9, <1>10, <1>11, <1>12, <1>13 DEF KnowledgeInv

\* An analysed or summarised file.
LEMMA Entering ==
  ASSUME KnowledgeInv, NEW f \in Files, NEW info, Sound(info), info.version = tree[f],
         f \in todo, todo' = todo \ {f}, infos' = With(f, info), write = NoWrite,
         pc \in {"analyse", "summarise"},
         \/ UNCHANGED <<disk, write>>
         \/ StartWrite(f, info),
         UNCHANGED <<origin, tree, stores, pc, files>>
  PROVE  KnowledgeInv'
<1>1. UNCHANGED <<graph, vectors, committed>>
  BY DEF stores
<1>2. f \in Caches /\ f # "scan" /\ f # "lexical"
  BY CacheAssumption DEF Caches
<1>3. /\ infos' = [g \in DOMAIN infos' |-> infos'[g]]
      /\ DOMAIN infos' = (DOMAIN infos) \cup {f}
      /\ infos'[f] = info
      /\ \A g \in DOMAIN infos : g # f => infos'[g] = infos[g]
  BY DEF With
<1>4. /\ disk' = [c \in Caches |-> disk'[c]]
      /\ \A c \in Caches : disk'[c] = disk[c] \/ (c = f /\ disk'[c] = Torn)
      /\ write' = NoWrite \/ write' = [cache |-> f, content |-> info]
  <2>1. disk = [c \in Caches |-> disk[c]]
    BY DEF KnowledgeInv, CacheInv
  <2>2. CASE UNCHANGED <<disk, write>>
    BY <2>1, <2>2
  <2>3. CASE StartWrite(f, info)
    BY <1>2, <2>1, <2>3 DEF StartWrite
  <2> QED
    BY <2>2, <2>3
<1>5. "scan" \in Caches /\ "lexical" \in Caches /\ Files \subseteq Caches
  BY DEF Caches
<1>6. disk'["scan"] = disk["scan"] /\ ~Writing("scan")' /\ ~Writing("lexical")'
  BY <1>2, <1>4, <1>5 DEF Writing
<1>7. todo \subseteq files /\ info \in Infos
  BY DEF KnowledgeInv, TypeOK, Sound
<1>8. TypeOK'
  <2>1. \A g \in DOMAIN infos' : infos'[g] \in Infos
    BY <1>3, <1>7 DEF KnowledgeInv, TypeOK
  <2>2. \A g \in Files : disk'[g] \in Infos \cup {NoCache, Torn}
    BY <1>4, <1>5 DEF KnowledgeInv, TypeOK
  <2> QED
    BY <1>1, <1>3, <1>4, <1>6, <1>7, <2>1, <2>2 DEF KnowledgeInv, TypeOK
<1>9. CacheInv'
  BY <1>2, <1>4, <1>5, <1>6 DEF KnowledgeInv, CacheInv
<1>10. InfoInv'
  BY <1>3, <1>7 DEF KnowledgeInv, InfoInv, BeforeScan, AfterAnalysis, AfterFiles, AfterNodes,
     AfterCalls, AfterLexical
<1>11. StoreInv'
  BY <1>1 DEF KnowledgeInv, StoreInv, AfterFiles, AfterNodes, AfterCalls, AfterLexical
<1>12. ScanInv'
  BY <1>1, <1>6 DEF KnowledgeInv, ScanInv, Writing
<1>13. CallsAreOfOneSnapshot'
  BY <1>1 DEF KnowledgeInv, CallsAreOfOneSnapshot
<1> QED
  BY <1>8, <1>9, <1>10, <1>11, <1>12, <1>13 DEF KnowledgeInv

LEMMA Analysing ==
  ASSUME KnowledgeInv, NEW f \in todo, Analyse(f)
  PROVE  KnowledgeInv'
<1>1. f \in Files /\ pc = "analyse" /\ write = NoWrite /\ disk[f] # Torn
  BY DEF Analyse, Unanalysable, At, KnowledgeInv, TypeOK
<1>2. UNCHANGED <<origin, tree, stores, pc, files>> /\ todo' = todo \ {f}
  BY DEF Analyse, world
<1>3. CASE CacheHit(f)
  <2>1. Sound(disk[f]) /\ disk[f].version = tree[f]
    BY <1>1, <1>3 DEF CacheHit, KnowledgeInv, CacheInv
  <2>2. infos' = With(f, disk[f]) /\ UNCHANGED <<disk, write>>
    BY <1>3 DEF Analyse, NothingWritten
  <2> QED
    BY <1>1, <1>2, <2>1, <2>2, Entering
<1>4. CASE ~CacheHit(f)
  <2>1. Sound(Parsed(f)) /\ Parsed(f).version = tree[f]
    BY <1>1, ParsedIsSound DEF KnowledgeInv
  <2>2. infos' = With(f, Parsed(f)) /\ StartWrite(f, Parsed(f))
    BY <1>4 DEF Analyse
  <2> QED
    BY <1>1, <1>2, <2>1, <2>2, Entering
<1> QED
  BY <1>3, <1>4

LEMMA Summarising ==
  ASSUME KnowledgeInv, NEW f \in todo, Summarise(f)
  PROVE  KnowledgeInv'
<1>1. f \in Files /\ pc = "summarise" /\ write = NoWrite
  BY DEF Summarise, At, KnowledgeInv, TypeOK
<1>2. UNCHANGED <<origin, tree, stores, pc, files>> /\ todo' = todo \ {f}
  BY DEF Summarise
<1>3. PICK s \in {infos[f].version, None} :
        /\ infos' = With(f, [infos[f] EXCEPT !.summary = s])
        /\ StartWrite(f, [infos[f] EXCEPT !.summary = s])
  BY DEF Summarise
<1>4. Sound(infos[f]) /\ infos[f].version = tree[f] /\ ~infos[f].error
  <2>1. f \in DOMAIN infos
    BY <1>1 DEF KnowledgeInv, InfoInv, TypeOK, AfterAnalysis
  <2> QED
    BY <1>1, <2>1 DEF KnowledgeInv, InfoInv
<1>5. /\ Sound([infos[f] EXCEPT !.summary = s])
      /\ [infos[f] EXCEPT !.summary = s].version = tree[f]
  BY <1>4 DEF Sound, Infos
<1> QED
  BY <1>1, <1>2, <1>3, <1>5, Entering

-----------------------------------------------------------------------------
(* The graph.                                                               *)

\* A node is of its file and stands for a declaration there.
LEMMA NodeOfFile ==
  ASSUME NEW f \in Files, NEW n \in NodesOf(f), ~infos[f].error, Sound(infos[f])
  PROVE  /\ n.file = f
         /\ [name |-> n.name, line |-> n.line] \in Decls[f][infos[f].version]
<1>1. infos[f].version \in Versions
  BY DEF Sound, Infos
<1>2. PICK d \in Decls[f][infos[f].version] :
        n = [file |-> f, name |-> d.name, line |-> d.line]
  BY DEF NodesOf, Declared
<1>3. d = [name |-> d.name, line |-> d.line]
  BY <1>1, DeclsAssumption
<1> QED
  BY <1>2, <1>3

LEMMA NodeHasFile ==
  ASSUME NEW f, NEW n \in NodesOf(f)
  PROVE  n.file = f
  BY DEF NodesOf

\* A call leads to a declaration in a file of the same kind.
LEMMA TargetIsNode ==
  ASSUME NEW f, NEW name, NEW n \in Targets(f, name)
  PROVE  \E g \in files : (g \in Java) = (f \in Java) /\ n \in NodesOf(g)
<1> DEFINE all == UNION {{m \in NodesOf(g) : m.name = name} :
                           g \in {g \in files : (g \in Java) = (f \in Java)}}
           local == {m \in all : m.file = f}
<1>1. n \in all
  <2>1. Targets(f, name) =
          IF f \in Java THEN IF Cardinality(all) = 1 THEN all ELSE {}
          ELSE IF local # {} THEN {CHOOSE m \in local : TRUE}
          ELSE IF all # {} THEN {CHOOSE m \in all : TRUE} ELSE {}
    BY DEF Targets
  <2>2. local # {} => (CHOOSE m \in local : TRUE) \in all
    OBVIOUS
  <2>3. all # {} => (CHOOSE m \in all : TRUE) \in all
    OBVIOUS
  <2> HIDE DEF all, local
  <2> QED
    BY <2>1, <2>2, <2>3
<1> QED
  BY <1>1

LEMMA EdgeJoinsNodes ==
  ASSUME NEW e \in Edges
  PROVE  \E f, g \in files : /\ (g \in Java) = (f \in Java)
                             /\ e[1] \in NodesOf(f) /\ e[2] \in NodesOf(g)
                             /\ e = <<e[1], e[2]>>
<1>1. PICK f \in files : e \in EdgesOf(f)
  BY DEF Edges
<1>2. /\ e[1] \in NodesOf(f) /\ e = <<e[1], e[2]>>
      /\ e[2] \in UNION {Targets(f, name) : name \in Called(f)}
  BY <1>1 DEF EdgesOf
<1>3. PICK name : e[2] \in Targets(f, name)
  BY <1>2
<1>4. PICK g \in files : (g \in Java) = (f \in Java) /\ e[2] \in NodesOf(g)
  BY <1>3, TargetIsNode
<1> QED
  BY <1>2, <1>4

LEMMA GraphSteps ==
  ASSUME KnowledgeInv, FileNodes \/ FunctionNodes \/ CallsReplaced \/ ImportsMerged
  PROVE  KnowledgeInv'
<1>1. /\ write = NoWrite
      /\ UNCHANGED <<origin, tree, disk, write, files, todo, infos, vectors>>
  BY DEF FileNodes, FunctionNodes, CallsReplaced, ImportsMerged, GraphStep, At, NothingWritten,
     world
<1>2. Edges' = Edges /\ (\A f : NodesOf(f)' = NodesOf(f)) /\ Chunks' = Chunks
  BY <1>1, SameInfos, SameChunks
<1>3. \/ pc = "file_nodes" /\ pc' = "function_nodes" /\ FileNodes
      \/ pc = "function_nodes" /\ pc' = "calls" /\ FunctionNodes
      \/ pc = "calls" /\ pc' = "imports" /\ CallsReplaced
      \/ pc = "imports" /\ pc' = "lexical" /\ ImportsMerged
  BY DEF FileNodes, FunctionNodes, CallsReplaced, ImportsMerged, GraphStep, At
<1>4. DOMAIN infos = files /\ files \subseteq Files /\ disk["scan"] = files
  BY <1>1, <1>3 DEF KnowledgeInv, TypeOK, InfoInv, ScanInv, Writing, AfterScan, AfterAnalysis,
     AfterFiles, AfterNodes, AfterCalls
<1>5. \A f \in files : Sound(infos[f])
  BY <1>4 DEF KnowledgeInv, InfoInv
<1>6. \A f \in files : NodesOf(f) \subseteq Nodes
  BY <1>4, <1>5, NodesAreNodes
<1>7. /\ graph' = [files |-> graph'.files, nodes |-> graph'.nodes, calls |-> graph'.calls,
                   imports |-> graph'.imports]
      /\ ~FunctionNodes => graph'.nodes = graph.nodes
      /\ ~CallsReplaced => graph'.calls = graph.calls
      /\ ~ImportsMerged => graph'.imports = graph.imports
      /\ ~FileNodes => graph'.files = graph.files
      /\ ~CallsReplaced => committed' = committed
  BY <1>3 DEF FileNodes, FunctionNodes, CallsReplaced, ImportsMerged, KnowledgeInv, StoreInv
<1>8. FileNodes => \A f \in files : <<f, infos[f]>> \in graph'.files
  BY DEF FileNodes, KnowledgeInv, StoreInv
<1>9. FunctionNodes => graph'.nodes = graph.nodes \cup UNION {NodesOf(f) : f \in files}
  BY DEF FunctionNodes, KnowledgeInv, StoreInv
<1>10. CallsReplaced => /\ graph'.calls = Replaced(graph.calls) /\ committed' = infos
                        /\ ~Unresolvable
  BY DEF CallsReplaced, KnowledgeInv, StoreInv
<1>11. Edges \subseteq Nodes \X Nodes
  BY <1>6, EdgeJoinsNodes
<1>12. TypeOK'
  <2>1. graph'.nodes \subseteq Nodes
    <3>1. UNION {NodesOf(f) : f \in files} \subseteq Nodes
      BY <1>6
    <3> QED
      BY <1>7, <1>9, <3>1 DEF KnowledgeInv, TypeOK
  <2>2. graph'.calls \subseteq Nodes \X Nodes
    <3>1. Replaced(graph.calls) \subseteq graph.calls \cup Edges
      BY DEF Replaced
    <3> QED
      BY <1>7, <1>10, <1>11, <3>1 DEF KnowledgeInv, TypeOK
  <2>3. graph'.imports \subseteq Files \X Nodes
    <3>1. CASE ~ImportsMerged
      BY <1>7, <3>1 DEF KnowledgeInv, TypeOK
    <3>2. CASE ImportsMerged
      <4> DEFINE imported(f) == {n \in UNION {NodesOf(g) : g \in files \ {f}} :
                                   [file |-> n.file, name |-> n.name] \in Imported(f)}
      <4>1. graph'.imports = graph.imports \cup UNION {{f} \X imported(f) : f \in files}
        BY <3>2 DEF ImportsMerged, KnowledgeInv, StoreInv
      <4>2. \A f \in files : imported(f) \subseteq Nodes
        BY <1>6
      <4> HIDE DEF imported
      <4>3. UNION {{f} \X imported(f) : f \in files} \subseteq Files \X Nodes
        BY <1>4, <4>2
      <4> QED
        BY <4>1, <4>3 DEF KnowledgeInv, TypeOK
    <3> QED
      BY <3>1, <3>2
  <2> QED
    BY <1>1, <1>3, <2>1, <2>2, <2>3 DEF KnowledgeInv, TypeOK, Steps
<1>13. CacheInv'
  BY <1>1 DEF KnowledgeInv, CacheInv, Writing
<1>14. InfoInv'
  BY <1>1, <1>3, <1>4 DEF KnowledgeInv, InfoInv, BeforeScan, AfterAnalysis, AfterFiles, AfterNodes,
     AfterCalls, AfterLexical
<1>15. StoreInv'
  <2>1. pc' \in AfterFiles => \A f \in files : <<f, infos[f]>> \in graph'.files
    BY <1>3, <1>7, <1>8 DEF KnowledgeInv, StoreInv, AfterFiles, AfterNodes, AfterCalls
  <2>2. pc' \in AfterNodes => \A f \in files : NodesOf(f) \subseteq graph'.nodes
    BY <1>3, <1>7, <1>9 DEF KnowledgeInv, StoreInv, AfterFiles, AfterNodes, AfterCalls, AfterLexical
  <2>3. pc' \in AfterCalls => Edges \subseteq graph'.calls
    BY <1>3, <1>7, <1>10
       DEF KnowledgeInv, StoreInv, Replaced, AfterNodes, AfterCalls, AfterLexical
  <2> QED
    BY <1>1, <1>2, <1>3, <1>7, <2>1, <2>2, <2>3 DEF StoreInv, AfterLexical
<1>16. ScanInv'
  BY <1>1, <1>3, <1>4, <1>7, <1>10 DEF KnowledgeInv, ScanInv, Writing
<1>17. CallsAreOfOneSnapshot'
  <2>1. CASE ~CallsReplaced
    BY <1>7, <2>1 DEF KnowledgeInv, CallsAreOfOneSnapshot
  <2>2. CASE CallsReplaced
    <3> SUFFICES ASSUME NEW e \in graph'.calls, e[1].file \in Java
                 PROVE  /\ e[1].file \in DOMAIN infos
                        /\ \A n \in {e[1], e[2]} :
                             /\ n.file \in DOMAIN infos
                             /\ [name |-> n.name, line |-> n.line]
                                  \in Decls[n.file][infos[n.file].version]
      BY <1>10, <2>2 DEF CallsAreOfOneSnapshot
    <3>1. e \in Edges
      <4>1. SUFFICES ASSUME e \in graph.calls, e[1].file \notin Java \cap files PROVE FALSE
        BY <1>10, <2>2 DEF Replaced
      <4>2. e[1].file \in DOMAIN committed
        BY <4>1 DEF KnowledgeInv, CallsAreOfOneSnapshot
      <4>3. DOMAIN committed = files
        BY <1>4, <4>2 DEF KnowledgeInv, ScanInv
      <4> QED
        BY <4>1, <4>2, <4>3
    <3>2. PICK f \in files, g \in files : /\ (g \in Java) = (f \in Java)
                                          /\ e[1] \in NodesOf(f) /\ e[2] \in NodesOf(g)
      BY <3>1, EdgeJoinsNodes
    <3>3. f \in Java /\ g \in Java
      BY <3>2, NodeHasFile
    <3>4. ~infos[f].error /\ ~infos[g].error
      BY <1>10, <2>2, <3>3 DEF Unresolvable
    <3>5. /\ e[1].file = f
          /\ [name |-> e[1].name, line |-> e[1].line] \in Decls[f][infos[f].version]
      BY <1>4, <1>5, <3>2, <3>4, NodeOfFile
    <3>6. /\ e[2].file = g
          /\ [name |-> e[2].name, line |-> e[2].line] \in Decls[g][infos[g].version]
      BY <1>4, <1>5, <3>2, <3>4, NodeOfFile
    <3> QED
      BY <1>4, <3>5, <3>6
  <2> QED
    BY <2>1, <2>2
<1> QED
  BY <1>12, <1>13, <1>14, <1>15, <1>16, <1>17 DEF KnowledgeInv

-----------------------------------------------------------------------------
(* Folders and indexes.                                                     *)

\* The cache of the folders is beside everything the invariant speaks of.
LEMMA WritingFolders ==
  ASSUME KnowledgeInv, Folders
  PROVE  KnowledgeInv'
<1>1. /\ pc = "folders" /\ pc' = "file_nodes" /\ write = NoWrite
      /\ UNCHANGED <<origin, tree, graph, vectors, committed, files, todo, infos>>
  BY DEF Folders, At, world, stores
<1>2. /\ {"folders", "scan", "lexical"} \subseteq Caches /\ "folders" \notin Files
      /\ Files \subseteq Caches
  BY CacheAssumption DEF Caches
<1>3. /\ disk' = [c \in Caches |-> disk'[c]]
      /\ \A c \in Caches : c # "folders" => disk'[c] = disk[c]
      /\ write' = NoWrite \/ write' = [cache |-> "folders", content |-> infos]
  <2>1. disk = [c \in Caches |-> disk[c]]
    BY DEF KnowledgeInv, CacheInv
  <2>2. \/ UNCHANGED <<disk, write>>
        \/ StartWrite("folders", infos)
    BY DEF Folders, NothingWritten
  <2>3. CASE UNCHANGED <<disk, write>>
    BY <1>1, <2>1, <2>3
  <2>4. CASE StartWrite("folders", infos)
    BY <2>1, <2>4 DEF StartWrite
  <2> QED
    BY <2>2, <2>3, <2>4
<1>4. \A c \in {"scan", "lexical"} \cup Files : disk'[c] = disk[c] /\ ~Writing(c)'
  BY <1>2, <1>3 DEF Writing
<1>5. TypeOK'
  <2>1. DOMAIN disk' = Caches
    BY <1>3
  <2> QED
    BY <1>1, <1>4, <2>1 DEF KnowledgeInv, TypeOK, Steps
<1>6. CacheInv'
  <2>1. write' # NoWrite => write'.cache \in Caches /\ write'.cache \notin Files
    BY <1>2, <1>3
  <2> QED
    BY <1>3, <1>4, <2>1 DEF KnowledgeInv, CacheInv
<1>7. InfoInv'
  BY <1>1 DEF KnowledgeInv, InfoInv, BeforeScan, AfterAnalysis, AfterFiles, AfterNodes, AfterCalls,
     AfterLexical
<1>8. StoreInv'
  BY <1>1 DEF KnowledgeInv, StoreInv, AfterFiles, AfterNodes, AfterCalls, AfterLexical
<1>9. ScanInv'
  BY <1>1, <1>4
     DEF KnowledgeInv, ScanInv, Writing, AfterScan, AfterAnalysis, AfterFiles, AfterNodes,
         AfterCalls, AfterLexical
<1>10. CallsAreOfOneSnapshot'
  BY <1>1 DEF KnowledgeInv, CallsAreOfOneSnapshot
<1> QED
  BY <1>5, <1>6, <1>7, <1>8, <1>9, <1>10 DEF KnowledgeInv

LEMMA WritingLexical ==
  ASSUME KnowledgeInv, Lexical
  PROVE  KnowledgeInv'
<1>1. /\ pc = "lexical" /\ pc' \in AfterLexical /\ write = NoWrite
      /\ pc' = "vectors" => todo' = files \cap Present
      /\ todo' \subseteq files
      /\ disk' = [disk EXCEPT !["lexical"] = Torn]
      /\ write' = [cache |-> "lexical", content |-> Chunks]
      /\ UNCHANGED <<origin, tree, graph, vectors, committed, files, infos>>
  BY DEF Lexical, At, StartWrite, world, stores, AfterLexical
<1>2. /\ {"scan", "lexical"} \subseteq Caches /\ "lexical" \notin Files
      /\ Files \subseteq Caches
  BY CacheAssumption DEF Caches
<1>3. Edges' = Edges /\ (\A f : NodesOf(f)' = NodesOf(f)) /\ Chunks' = Chunks
  BY <1>1, SameInfos, SameChunks
<1>4. write' # NoWrite
  <2>1. Chunks \in SUBSET (Files \X Versions)
    BY ChunksAreChunks DEF KnowledgeInv
  <2> QED
    BY <1>1, <2>1, CacheAssumption
<1>5. /\ disk' = [c \in Caches |-> disk'[c]]
      /\ \A c \in Caches : c # "lexical" => disk'[c] = disk[c]
  BY <1>1 DEF KnowledgeInv, CacheInv
<1>6. Writing("lexical")' /\ ~Writing("scan")' /\ disk'["scan"] = disk["scan"]
  BY <1>1, <1>2, <1>4, <1>5 DEF Writing
<1>7. TypeOK'
  <2>1. DOMAIN disk' = Caches /\ \A f \in Files : disk'[f] = disk[f]
    BY <1>2, <1>5
  <2> QED
    BY <1>1, <1>6, <2>1 DEF KnowledgeInv, TypeOK, Steps, AfterLexical
<1>8. CacheInv'
  BY <1>1, <1>2, <1>3, <1>5, <1>6 DEF KnowledgeInv, CacheInv
<1>9. Present' = Present
  BY <1>1 DEF Present
<1>10. InfoInv'
  BY <1>1, <1>9 DEF KnowledgeInv, InfoInv, BeforeScan, AfterAnalysis, AfterFiles, AfterNodes,
     AfterCalls, AfterLexical
<1>11. StoreInv'
  BY <1>1, <1>3, <1>6 DEF KnowledgeInv, StoreInv, AfterFiles, AfterNodes, AfterCalls, AfterLexical
<1>12. ScanInv'
  BY <1>1, <1>6
     DEF KnowledgeInv, ScanInv, Writing, AfterScan, AfterAnalysis, AfterFiles, AfterNodes,
         AfterCalls, AfterLexical
<1>13. CallsAreOfOneSnapshot'
  BY <1>1 DEF KnowledgeInv, CallsAreOfOneSnapshot
<1> QED
  BY <1>7, <1>8, <1>10, <1>11, <1>12, <1>13 DEF KnowledgeInv

LEMMA Upserting ==
  ASSUME KnowledgeInv, NEW f \in todo, Upsert(f)
  PROVE  KnowledgeInv'
<1>1. /\ pc = "vectors" /\ vectors' = vectors \cup {ChunkOf(f)} /\ todo' = todo \ {f}
      /\ UNCHANGED <<origin, tree, disk, write, graph, committed, pc, files, infos>>
  BY DEF Upsert, At, NothingWritten, world
<1>2. Edges' = Edges /\ (\A g : NodesOf(g)' = NodesOf(g)) /\ Chunks' = Chunks
  BY <1>1, SameInfos, SameChunks
<1>3. ChunkOf(f) \in Files \X Versions
  BY <1>1 DEF KnowledgeInv, TypeOK, InfoInv, ChunkOf, Present
<1>4. TypeOK'
  BY <1>1, <1>3 DEF KnowledgeInv, TypeOK
<1>5. CacheInv'
  BY <1>1, <1>2 DEF KnowledgeInv, CacheInv, Writing
<1>6. Present' = Present
  BY <1>1 DEF Present
<1>7. InfoInv'
  BY <1>1, <1>6 DEF KnowledgeInv, InfoInv
<1>8. StoreInv'
  BY <1>1, <1>2 DEF KnowledgeInv, StoreInv, Writing
<1>9. ScanInv' /\ CallsAreOfOneSnapshot'
  BY <1>1 DEF KnowledgeInv, ScanInv, Writing, CallsAreOfOneSnapshot
<1> QED
  BY <1>4, <1>5, <1>7, <1>8, <1>9 DEF KnowledgeInv

-----------------------------------------------------------------------------
(* All steps, and the theorems.                                             *)

\* Every way out of an ingestion.
Out == ScanRaises \/ AnalysisRaises \/ FoldersRaise \/ CallsRaise \/ Analysed
         \/ ExternalFailure \/ Crash

\* What only moves the run on, or happens on the branch.
Move == Start \/ EndAnalysis \/ EndSummaries \/ EndUpserts
          \/ \E f \in Files, v \in Versions \cup {Absent} : Push(f, v)

LEMMA Outs ==
  ASSUME KnowledgeInv, Out
  PROVE  KnowledgeInv'
<1>1. /\ Over /\ write' = NoWrite /\ UNCHANGED <<disk, stores, tree, origin>>
  BY DEF Out, ScanRaises, AnalysisRaises, FoldersRaise, CallsRaise, Analysed, ExternalFailure,
     Crash, Raise, At, NothingWritten, world
<1>2. origin' \in [Files -> Versions \cup {Absent}]
  BY <1>1 DEF KnowledgeInv, TypeOK
<1> QED
  BY <1>1, <1>2, Ending

LEMMA Moves ==
  ASSUME KnowledgeInv, Move
  PROVE  KnowledgeInv'
<1>1. UNCHANGED <<tree, disk, write, stores, files, infos>>
  BY DEF Move, Start, EndAnalysis, EndSummaries, EndUpserts, Push, NothingWritten, world, stores
<1>2. origin' \in [Files -> Versions \cup {Absent}]
  <2>1. origin \in [Files -> Versions \cup {Absent}]
    BY DEF KnowledgeInv, TypeOK
  <2>2. CASE \E f \in Files, v \in Versions \cup {Absent} : Push(f, v)
    BY <2>1, <2>2 DEF Push
  <2>3. CASE UNCHANGED world
    BY <2>1, <2>3 DEF world
  <2> QED
    BY <2>2, <2>3 DEF Move, Start, EndAnalysis, EndSummaries, EndUpserts
<1>3. \/ UNCHANGED <<pc, todo>>
      \/ pc = "idle" /\ pc' = "checkout" /\ UNCHANGED todo
      \/ pc = "summarise" /\ pc' = "folders" /\ UNCHANGED todo
      \/ /\ pc = "analyse" /\ todo = {} /\ pc' = "summarise" /\ todo' = Unsummarised
         /\ write = NoWrite
      \/ pc = "vectors" /\ pc' = "ready" /\ UNCHANGED todo
  BY DEF Move, Start, EndAnalysis, EndSummaries, EndUpserts, Push, At
<1> QED
  BY <1>1, <1>2, <1>3, Moving

LEMMA KnowledgeInvNext == KnowledgeInv /\ [Next]_vars => KnowledgeInv'
<1> SUFFICES ASSUME KnowledgeInv, [Next]_vars PROVE KnowledgeInv'
  OBVIOUS
<1>1. CASE Out
  BY <1>1, Outs
<1>2. CASE Move
  BY <1>2, Moves
<1>3. CASE FinishWrite
  BY <1>3, FinishingWrite
<1>4. CASE Checkout
  BY <1>4, CheckingOut
<1>5. CASE Scan
  BY <1>5, Scanning
<1>6. CASE \E f \in todo : Analyse(f) \/ Summarise(f) \/ Upsert(f)
  BY <1>6, Analysing, Summarising, Upserting
<1>7. CASE Folders
  BY <1>7, WritingFolders
<1>8. CASE FileNodes \/ FunctionNodes \/ CallsReplaced \/ ImportsMerged
  BY <1>8, GraphSteps
<1>9. CASE Lexical
  BY <1>9, WritingLexical
<1>10. CASE UNCHANGED vars
  <2>1. /\ UNCHANGED <<tree, disk, write, stores, files, infos, origin, pc, todo>>
        /\ origin \in [Files -> Versions \cup {Absent}]
    BY <1>10 DEF vars, stores, KnowledgeInv, TypeOK
  <2> QED
    BY <2>1, Moving
<1> QED
  BY <1>1, <1>2, <1>3, <1>4, <1>5, <1>6, <1>7, <1>8, <1>9, <1>10 DEF Next, IngestStep, Out, Move

\* The strengthening holds in every state that ingestions reach.
THEOREM KnowledgeInvariant == Spec => []KnowledgeInv
  BY KnowledgeInvInit, KnowledgeInvNext, PTL DEF Spec

\* All variables keep their types.
THEOREM KnowledgeTypeCorrect == Spec => []TypeOK
<1>1. KnowledgeInv => TypeOK
  BY DEF KnowledgeInv
<1> QED
  BY <1>1, KnowledgeInvariant, PTL

\* Whatever earlier ingestions and crashes left in the caches, the graph and
\* the index, one that completes is about the checkout.
THEOREM IngestionRepairsHolds == Spec => []IngestionRepairs
<1>1. KnowledgeInv => IngestionRepairs
  <2> SUFFICES ASSUME KnowledgeInv, At("ready") PROVE IngestionRepairs
    BY DEF IngestionRepairs
  <2>1. pc = "ready" /\ write = NoWrite
    BY DEF At
  <2>2. \A f \in files : /\ infos[f].version = tree[f]
                         /\ infos[f].summary \in {tree[f], None}
    BY <2>1 DEF KnowledgeInv, InfoInv, Sound, AfterAnalysis, AfterFiles, AfterNodes, AfterCalls,
       AfterLexical
  <2>3. /\ \A f \in files : <<f, infos[f]>> \in graph.files /\ NodesOf(f) \subseteq graph.nodes
        /\ Edges \subseteq graph.calls
        /\ disk["lexical"] = Chunks
    BY <2>1 DEF KnowledgeInv, StoreInv, Writing, AfterFiles, AfterNodes, AfterCalls, AfterLexical
  <2> QED
    BY <2>2, <2>3 DEF IngestionRepairs
<1> QED
  BY <1>1, KnowledgeInvariant, PTL

\* The calls of the Java files are at all times those that one ingestion found,
\* although it may have failed since or a later one be under way.
THEOREM CallsAreOfOneSnapshotHolds == Spec => []CallsAreOfOneSnapshot
<1>1. KnowledgeInv => CallsAreOfOneSnapshot
  BY DEF KnowledgeInv
<1> QED
  BY <1>1, KnowledgeInvariant, PTL
=============================================================================
