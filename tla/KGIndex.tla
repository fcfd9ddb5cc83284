-------------------------------- MODULE KGIndex --------------------------------
(***************************************************************************)
(* The knowledge graph index (pkg/sbdb/kg): a SQLite file with a node, the   *)
(* outgoing edges and the embedded chunks of each document, filled by        *)
(* sbdb index build from the documents (schema mode, BuildAll and            *)
(* IndexDocument) or from the directory (--crawl, CrawlAndIndex), and        *)
(* emptied by sbdb index drop.                                               *)
(*                                                                          *)
(* Every SQL statement is a step: only the insertion of the chunks of one    *)
(* document is a transaction.  Several commands may run at once, and each    *)
(* may be killed between two statements.                                     *)
(***************************************************************************)
EXTENDS FiniteSets

CONSTANTS
  Paths,         \* the .md files there may be under the docs root
  EntityFiles,   \* those of them in the docs_dir of the schema
  Docs,          \* document ids
  IdOf,          \* the id of a file is its base name: files may share one
  Bodies,        \* markdown bodies; their hash is the body itself
  Empty,         \* the body without text, which has no chunks
  LinksOf,       \* LinksOf[b]: the documents that body b links to
  Models,        \* embedding models
  None,          \* no file, no node, no chunks, no embedder
  Garbled,       \* the file exists and does not parse
  Builders,      \* index commands
  Modes,         \* how they are run: "schema", "crawl", "drop"
  Embedders,     \* the embedders they are run with: models, or None
  Faults         \* may a statement or the embedder fail, or a command die?

ASSUME IndexAssumption ==
  /\ IdOf \in [Paths -> Docs]
  /\ EntityFiles \subseteq Paths
  /\ Empty \in Bodies
  /\ LinksOf \in [Bodies -> SUBSET Docs]
  /\ None \notin Bodies \cup Models
  /\ Modes \subseteq {"schema", "crawl", "drop"}
  /\ Embedders \subseteq Models \cup {None}
  /\ Faults \in BOOLEAN

VARIABLES
  file,    \* file[p]: what is on disk
  node,    \* node[d]: content_sha of d's row in nodes
  edges,   \* the rows of edges: <<source, target, type>>
  chunk,   \* chunk[d][m]: the body whose chunks model m has for d
  build,   \* build[b]: what command b is doing
  torn     \* history: documents whose last indexing was cut short, lost a
           \* statement, or was overlapped by another command

kgVars == <<file, node, edges, chunk, build, torn>>

\* refs: the documents named by single-valued ref fields of the frontmatter,
\* which both modes find.
Files == [body : Bodies, refs : SUBSET Docs]

\* A document of schema mode: the refs are of the record the walk has read, the
\* body is None until EnsureLoaded has read the file again.
Loaded == [body : Bodies \cup {None}, refs : SUBSET Docs]
NoDoc == [body |-> None, refs |-> {}]

ASSUME FilesAssumption ==
  /\ None # Garbled
  /\ {None, Garbled} \cap Files = {}

NoBuild == [stage |-> "none"]

\* The content_sha of a document: the hash of its body only.
Sha(f) == f.body

RefType(mode) == IF mode = "schema" THEN "ref" ELSE "frontmatter_ref"
EdgesOf(mode, d, f) == {<<d, t, "link">> : t \in LinksOf[f.body]}
                       \cup {<<d, t, RefType(mode)>> : t \in f.refs}

\* b has written d's node and not yet the rest; or is emptying the tables.
Indexing(b, d) == /\ build[b].stage \in {"clear", "edges", "chunks", "embed"}
                  /\ build[b].at = d
Dropping(b) == build[b].stage \in {"drop_edges", "drop_chunks"}
Busy(b, d) == Indexing(b, d) \/ Dropping(b)

-----------------------------------------------------------------------------

Init ==
  /\ file = [p \in Paths |-> None]
  /\ node = [d \in Docs |-> None]
  /\ edges = {}
  /\ chunk = [d \in Docs |-> [m \in Models |-> None]]
  /\ build = [b \in Builders |-> NoBuild]
  /\ torn = {}

Scanned(mode) == IF mode = "schema" THEN EntityFiles ELSE Paths

\* runIndexBuild: the walk of schema mode fails as a whole over a file that does
\* not parse.
StartBuild(b, mode, model, force) ==
  LET found == {p \in Scanned(mode) : file[p] # None} IN
  /\ build[b] = NoBuild
  /\ mode = "schema" => \A p \in found : file[p] # Garbled
  /\ build' = [build EXCEPT ![b] =
       [stage |-> "choose", mode |-> mode, model |-> model, force |-> force,
        todo |-> found, unread |-> IF mode = "schema" THEN found ELSE {},
        docs |-> [p \in Paths |-> IF mode = "schema" /\ p \in found
                                  THEN [NoDoc EXCEPT !.refs = file[p].refs] ELSE NoDoc],
        at |-> None, file |-> None, pending |-> {}, clean |-> TRUE, quiet |-> TRUE]]
  /\ UNCHANGED <<file, node, edges, chunk, torn>>

EnsureLoaded(doc, f) ==
  IF doc.body # None \/ f \notin Files THEN doc ELSE [doc EXCEPT !.body = f.body]

\* Schema mode loads every document before it indexes the first; a file that is
\* gone or does not parse by now is left for BuildAll to try again.
LoadDoc(b, p) ==
  LET r == build[b] IN
  /\ r.stage = "choose" /\ p \in r.unread
  /\ build' = [build EXCEPT ![b] = [r EXCEPT !.unread = @ \ {p},
                                            !.docs[p] = EnsureLoaded(@, file[p])]]
  /\ UNCHANGED <<file, node, edges, chunk, torn>>

\* What others do ends the quiet of the builds in progress.
Noisy(c) == IF build[c] = NoBuild \/ Dropping(c) THEN build[c]
            ELSE [build[c] EXCEPT !.quiet = FALSE]
BuildStep(b, new) ==
  build' = [c \in Builders |-> IF c = b THEN new ELSE Noisy(c)]

\* Mutation of Skips: --force is looked at nowhere.
SkipsForced(b, d, f) == node[d] = Sha(f)

\* Is the document up to date already?  BuildAll skips the question with
\* --force, and IndexDocument asks it again.
Skips(b, d, f) == node[d] = Sha(f) /\ (build[b].mode = "schema" \/ ~build[b].force)

\* Mutation of Consider: a file that does not parse ends its directory
\* (filepath.SkipDir).
ConsiderSkipsDir(b, p) ==
  LET r == build[b]
      f == IF r.mode = "schema" THEN EnsureLoaded(r.docs[p], file[p]) ELSE file[p] IN
  /\ r.stage = "choose" /\ r.unread = {} /\ p \in r.todo
  /\ build' = [build EXCEPT ![b] =
       IF f = Garbled THEN [r EXCEPT !.todo = {}, !.docs[p] = NoDoc]
       ELSE IF f \notin Files \/ Skips(b, IdOf[p], f)
         THEN [r EXCEPT !.todo = @ \ {p}, !.docs[p] = NoDoc]
         ELSE [r EXCEPT !.todo = @ \ {p}, !.docs[p] = NoDoc,
                        !.stage = "node", !.at = IdOf[p], !.file = f]]
  /\ UNCHANGED <<file, node, edges, chunk, torn>>

\* The next file: both modes pass over one that is gone or does not parse, and
\* whatever the index has for its id stays.
Consider(b, p) ==
  LET r == build[b]
      f == IF r.mode = "schema" THEN EnsureLoaded(r.docs[p], file[p]) ELSE file[p] IN
  /\ r.stage = "choose" /\ r.unread = {} /\ p \in r.todo
  /\ build' = [build EXCEPT ![b] =
       IF f \notin Files \/ Skips(b, IdOf[p], f)
         THEN [r EXCEPT !.todo = @ \ {p}, !.docs[p] = NoDoc]
         ELSE [r EXCEPT !.todo = @ \ {p}, !.docs[p] = NoDoc,
                        !.stage = "node", !.at = IdOf[p], !.file = f]]
  /\ UNCHANGED <<file, node, edges, chunk, torn>>

\* Another command at work on the same document makes both passes suspect.
UpsertNode(b) ==
  LET r == build[b]
      overlap == \E c \in Builders \ {b} : Busy(c, r.at) IN
  /\ r.stage = "node"
  /\ node' = [node EXCEPT ![r.at] = Sha(r.file)]
  /\ torn' = IF overlap THEN torn \cup {r.at} ELSE torn
  /\ build' = [c \in Builders |->
       IF c = b THEN [r EXCEPT !.stage = "clear", !.clean = ~overlap]
       ELSE IF Indexing(c, r.at) THEN [build[c] EXCEPT !.clean = FALSE, !.quiet = FALSE]
       ELSE Noisy(c)]
  /\ UNCHANGED <<file, edges, chunk>>

\* Mutation of RemoveEdgesForDoc: edges are only ever added.
RemoveEdgesNever(b) ==
  LET r == build[b] IN
  /\ r.stage = "clear"
  /\ BuildStep(b, [r EXCEPT !.stage = "edges", !.pending = EdgesOf(r.mode, r.at, r.file)])
  /\ UNCHANGED <<file, node, edges, chunk, torn>>

RemoveEdgesForDoc(b) ==
  LET r == build[b] IN
  /\ r.stage = "clear"
  /\ edges' = {e \in edges : e[1] # r.at}
  /\ BuildStep(b, [r EXCEPT !.stage = "edges", !.pending = EdgesOf(r.mode, r.at, r.file)])
  /\ UNCHANGED <<file, node, chunk, torn>>

AddEdge(b) ==
  LET r == build[b] IN
  /\ r.stage = "edges"
  /\ \E e \in r.pending :
       /\ edges' = edges \cup {e}
       /\ BuildStep(b, [r EXCEPT !.pending = @ \ {e}])
  /\ UNCHANGED <<file, node, chunk, torn>>

\* The pass over a document is complete.
Settled(r) == [r EXCEPT !.stage = "choose", !.at = None, !.file = None, !.pending = {}]
TornAfter(r) == IF r.clean THEN torn \ {r.at} ELSE torn

\* Chunks are for embedders; a crawl skips a document without any.
EdgesDone(b) ==
  LET r == build[b] IN
  /\ r.stage = "edges" /\ r.pending = {}
  /\ IF r.model = None \/ (r.mode = "crawl" /\ r.file.body = Empty)
       THEN build' = [build EXCEPT ![b] = Settled(r)] /\ torn' = TornAfter(r)
       ELSE build' = [build EXCEPT ![b].stage = "chunks"] /\ UNCHANGED torn
  /\ UNCHANGED <<file, node, edges, chunk>>

DeleteChunks(b) ==
  LET r == build[b] IN
  /\ r.stage = "chunks"
  /\ chunk' = [chunk EXCEPT ![r.at][r.model] = None]
  /\ IF r.file.body = Empty
       THEN BuildStep(b, Settled(r)) /\ torn' = TornAfter(r)
       ELSE BuildStep(b, [r EXCEPT !.stage = "embed"]) /\ UNCHANGED torn
  /\ UNCHANGED <<file, node, edges>>

\* (doc_id, chunk_index, model_id) is unique: chunks that another command has
\* inserted since, or that were not deleted, refuse the insertion.
ChunksInTheWay(b) == /\ build[b].stage = "embed"
                     /\ chunk[build[b].at][build[b].model] # None

\* Embed, then one transaction inserts the chunks.
InsertChunks(b) ==
  LET r == build[b] IN
  /\ r.stage = "embed"
  /\ ~ChunksInTheWay(b)
  /\ chunk' = [chunk EXCEPT ![r.at][r.model] = r.file.body]
  /\ BuildStep(b, Settled(r))
  /\ torn' = TornAfter(r)
  /\ UNCHANGED <<file, node, edges>>

Finish(b) ==
  /\ build[b].stage = "choose" /\ build[b].todo = {}
  /\ build' = [build EXCEPT ![b] = NoBuild]
  /\ UNCHANGED <<file, node, edges, chunk, torn>>

(***************************************************************************)
(* sbdb index drop                                                          *)
(***************************************************************************)

DropNodes(b) ==
  /\ build[b] = NoBuild
  /\ node' = [d \in Docs |-> None]
  /\ torn' = torn \cup {d \in Docs : \E c \in Builders : Busy(c, d)}
  /\ build' = [c \in Builders |->
       IF c = b THEN [stage |-> "drop_edges", clean |-> ~\E e \in Builders, d \in Docs : Busy(e, d)]
       ELSE IF \E d \in Docs : Busy(c, d) THEN [Noisy(c) EXCEPT !.clean = FALSE]
       ELSE Noisy(c)]
  /\ UNCHANGED <<file, edges, chunk>>

DropEdges(b) ==
  /\ build[b].stage = "drop_edges"
  /\ edges' = {}
  /\ BuildStep(b, [build[b] EXCEPT !.stage = "drop_chunks"])
  /\ UNCHANGED <<file, node, chunk, torn>>

\* Mutation of DropChunks: the table is forgotten.
DropChunksNothing(b) ==
  /\ build[b].stage = "drop_chunks"
  /\ BuildStep(b, NoBuild)
  /\ UNCHANGED <<file, node, edges, chunk, torn>>

DropChunks(b) ==
  /\ build[b].stage = "drop_chunks"
  /\ chunk' = [d \in Docs |-> [m \in Models |-> None]]
  /\ BuildStep(b, NoBuild)
  /\ UNCHANGED <<file, node, edges, torn>>

(***************************************************************************)
(* Failures: what schema mode returns as an error, a crawl passes over; the *)
(* result of AddEdge is dropped in both.                                    *)
(***************************************************************************)

LoseEdge(b) ==
  LET r == build[b] IN
  /\ Faults
  /\ r.stage = "edges"
  /\ \E e \in r.pending :
       build' = [build EXCEPT ![b] = [r EXCEPT !.pending = @ \ {e},
                                               !.clean = FALSE, !.quiet = FALSE]]
  /\ torn' = torn \cup {r.at}
  /\ UNCHANGED <<file, node, edges, chunk>>

StatementFails(b) ==
  LET r == build[b]
      next == IF r.mode = "schema" THEN NoBuild ELSE
              CASE r.stage \in {"node", "embed"} -> Settled(r)
                [] r.stage = "clear"  -> [r EXCEPT !.stage = "edges",
                                            !.pending = EdgesOf(r.mode, r.at, r.file)]
                [] r.stage = "chunks" -> [r EXCEPT !.stage = "embed"] IN
  /\ Faults \/ ChunksInTheWay(b)
  /\ r.stage \in {"node", "clear", "chunks", "embed"}
  /\ build' = [build EXCEPT ![b] = IF next = NoBuild THEN NoBuild
                                   ELSE [next EXCEPT !.clean = FALSE, !.quiet = FALSE]]
  /\ torn' = IF r.stage = "node" THEN torn ELSE torn \cup {r.at}
  /\ UNCHANGED <<file, node, edges, chunk>>

Crash(b) ==
  /\ Faults
  /\ build[b] # NoBuild
  /\ build' = [build EXCEPT ![b] = NoBuild]
  /\ torn' = torn \cup {d \in Docs : Busy(b, d)}
  /\ UNCHANGED <<file, node, edges, chunk>>

\* A file is written, damaged or deleted; the index is not told.
EditDoc(p, f) ==
  /\ file[p] # f
  /\ file' = [file EXCEPT ![p] = f]
  /\ build' = [c \in Builders |-> Noisy(c)]
  /\ UNCHANGED <<node, edges, chunk, torn>>

-----------------------------------------------------------------------------

BuilderStep(b) ==
  \/ \E p \in Paths : LoadDoc(b, p) \/ Consider(b, p)
  \/ UpsertNode(b) \/ RemoveEdgesForDoc(b) \/ AddEdge(b) \/ EdgesDone(b)
  \/ DeleteChunks(b) \/ InsertChunks(b) \/ Finish(b)
  \/ DropEdges(b) \/ DropChunks(b)

Next ==
  \/ \E b \in Builders :
       \/ \E mode \in Modes \ {"drop"}, model \in Embedders, force \in BOOLEAN :
            StartBuild(b, mode, model, force)
       \/ "drop" \in Modes /\ DropNodes(b)
       \/ BuilderStep(b)
       \/ LoseEdge(b) \/ StatementFails(b) \/ Crash(b)
  \/ \E p \in Paths, f \in Files \cup {None, Garbled} : EditDoc(p, f)

Spec == Init /\ [][Next]_kgVars

-----------------------------------------------------------------------------

Types == {"link", "ref", "frontmatter_ref"}

\* Every variable holds what the code can put there.
KGTypeOK ==
  /\ file \in [Paths -> Files \cup {None, Garbled}]
  /\ node \in [Docs -> Bodies \cup {None}]
  /\ edges \subseteq Docs \X Docs \X Types
  /\ chunk \in [Docs -> [Models -> Bodies \cup {None}]]
  /\ torn \subseteq Docs
  /\ \A b \in Builders :
       build[b].stage \in {"choose", "node", "clear", "edges", "chunks", "embed"} =>
         /\ build[b].mode \in Modes \ {"drop"}
         /\ build[b].todo \subseteq Paths /\ build[b].unread \subseteq Paths
         /\ build[b].at \in Docs \cup {None}
         /\ build[b].pending \subseteq Docs \X Docs \X Types

LinkEdges(d) == {e \in edges : e[1] = d /\ e[3] = "link"}
Links(d, body) == {<<d, t, "link">> : t \in LinksOf[body]}

\* A document that passes for up to date has the links of the body it was
\* indexed with, and a document without a node has no edges - unless its last
\* indexing was cut short, lost a statement or was overlapped; and one later
\* complete pass, which starts over, repairs that.
FreshIsLinked ==
  \A d \in Docs \ torn :
    (\A b \in Builders : ~Busy(b, d)) =>
      IF node[d] = None THEN {e \in edges : e[1] = d} = {}
      ELSE LinkEdges(d) = Links(d, node[d])

\* When every build uses the same embedder, what semantic search finds of such a
\* document is the body it was indexed with.  (A crawl leaves the chunks of a
\* document whose text is gone.)
FreshIsSearchable ==
  \A d \in Docs \ torn, m \in Models :
    (Embedders = {m} /\ \A b \in Builders : ~Busy(b, d)) =>
      CASE node[d] = None  -> chunk[d][m] = None
        [] node[d] = Empty -> "crawl" \notin Modes => chunk[d][m] = None
        [] OTHER           -> chunk[d][m] = node[d]

\* A build that reached its end while nothing else happened.
QuietFinish(b, modes) == Finish(b) /\ build[b].mode \in modes /\ build[b].quiet

\* The files a build may take for document d.
Readable(mode, d) == {p \in Scanned(mode) : IdOf[p] = d /\ file[p] \in Files}

\* After a build every document that some file of its scope can be read for
\* passes for up to date with such a file: the files that do not parse, and
\* those that share its name, keep it from no other document.
BuildCoversAll ==
  [][\A b \in Builders : QuietFinish(b, {"schema", "crawl"}) =>
       \A d \in Docs : LET own == Readable(build[b].mode, d) IN
         own # {} => \E p \in own : node[d] = file[p].body
    ]_kgVars

\* "re-index all documents (ignore staleness)": after a forced build every
\* document has exactly the edges that a file of its name calls for, and the
\* chunks of the same file, whatever earlier builds left.
Reindexed(b, d, f) ==
  /\ {e \in edges : e[1] = d} = EdgesOf(build[b].mode, d, f)
  /\ (build[b].model # None /\ f.body # Empty) => chunk[d][build[b].model] = f.body
AllReindexed(b) ==
  \A d \in Docs : LET own == Readable(build[b].mode, d) IN
    own # {} => \E p \in own : Reindexed(b, d, file[p])
ForcedCrawlReindexes ==
  [][\A b \in Builders : (QuietFinish(b, {"crawl"}) /\ build[b].force) => AllReindexed(b)
    ]_kgVars
ForceReindexes ==
  [][\A b \in Builders : (QuietFinish(b, {"schema"}) /\ build[b].force) => AllReindexed(b)
    ]_kgVars
=============================================================================
