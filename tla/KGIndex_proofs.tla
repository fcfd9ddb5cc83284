---------------------------- MODULE KGIndex_proofs ----------------------------
(***************************************************************************)
(* What the knowledge graph index holds for a document, for every set of    *)
(* documents, bodies, models and index commands, whatever is interleaved,   *)
(* fails or is killed.                                                      *)
(***************************************************************************)
EXTENDS KGIndex, TLAPS

\* The index commands in progress: a drop, and a build or crawl.
Drops == [stage : {"drop_edges", "drop_chunks"}, clean : BOOLEAN]
Builds ==
  [stage : {"choose", "node", "clear", "edges", "chunks", "embed"},
   mode : Modes \ {"drop"}, model : Embedders, force : BOOLEAN,
   todo : SUBSET Paths, unread : SUBSET Paths, docs : [Paths -> Loaded],
   at : Docs \cup {None}, file : Files \cup {None},
   pending : SUBSET (Docs \X Docs \X Types), clean : BOOLEAN, quiet : BOOLEAN]

\* At work on a document, a build has it and the file it loaded.
AtWork(r) ==
  r.stage # "choose" => /\ r.at \in Docs /\ r.file \in Files
                        /\ r.stage = "edges" => r.pending \subseteq EdgesOf(r.mode, r.at, r.file)
                        /\ r.stage \in {"chunks", "embed"} => r.model \in Models
                        /\ (r.stage = "embed" \/ (r.stage = "chunks" /\ r.mode = "crawl"))
                             => r.file.body # Empty

KGShapes ==
  /\ file \in [Paths -> Files \cup {None, Garbled}]
  /\ node \in [Docs -> Bodies \cup {None}]
  /\ edges \subseteq Docs \X Docs \X Types
  /\ chunk \in [Docs -> [Models -> Bodies \cup {None}]]
  /\ torn \subseteq Docs
  /\ build \in [Builders -> Builds \cup Drops \cup {NoBuild}]
  /\ \A b \in Builders : build[b] \in Builds => AtWork(build[b])

\* The rows of edges that leave d.
From(d) == {e \in edges : e[1] = d}

-----------------------------------------------------------------------------

\* A build in progress, by its stage.
LEMMA BuildIsOne ==
  ASSUME KGShapes, NEW b \in Builders
  PROVE  /\ build[b].stage \in {"choose", "node", "clear", "edges", "chunks", "embed"}
              => build[b] \in Builds /\ AtWork(build[b])
         /\ build[b].stage \in {"drop_edges", "drop_chunks"} => build[b] \in Drops
         /\ build[b] \in Builds => build[b] # NoBuild /\ ~Dropping(b)
         /\ build[b] \in Drops => Dropping(b) /\ build[b] # NoBuild
BY DEF KGShapes, Builds, Drops, NoBuild, Dropping

\* What a command does beside another changes nothing of it but its quiet.
Quieter(b) ==
  \/ build'[b] = build[b]
  \/ build[b] \in Builds /\ build'[b] = [build[b] EXCEPT !.quiet = FALSE]

LEMMA NoisyIsQuieter ==
  ASSUME KGShapes, NEW b \in Builders
  PROVE  \/ Noisy(b) = build[b]
         \/ build[b] \in Builds /\ Noisy(b) = [build[b] EXCEPT !.quiet = FALSE]
BY BuildIsOne DEF Noisy, KGShapes

LEMMA QuieterFields ==
  ASSUME KGShapes, NEW b \in Builders, Quieter(b)
  PROVE  /\ build'[b] \in Builds <=> build[b] \in Builds
         /\ build'[b] \in Builds \cup Drops \cup {NoBuild}
         /\ build'[b].stage = build[b].stage
         /\ build[b] \in Builds =>
              /\ AtWork(build'[b])
              /\ build'[b].at = build[b].at
              /\ build'[b].clean = build[b].clean
              /\ build'[b].mode = build[b].mode
              /\ build'[b].model = build[b].model
              /\ build'[b].force = build[b].force
              /\ build'[b].todo = build[b].todo
              /\ build'[b].unread = build[b].unread
              /\ build'[b].docs = build[b].docs
              /\ build'[b].file = build[b].file
              /\ build'[b].pending = build[b].pending
<1>1. CASE build'[b] = build[b]
  BY <1>1 DEF KGShapes
<1>2. CASE build[b] \in Builds /\ build'[b] = [build[b] EXCEPT !.quiet = FALSE]
  BY <1>2 DEF Builds, AtWork, KGShapes
<1> QED BY <1>1, <1>2 DEF Quieter

\* The edges a file calls for leave its document.
LEMMA EdgesOfType ==
  ASSUME NEW d \in Docs, NEW f \in Files, NEW mode \in Modes \ {"drop"}
  PROVE  /\ EdgesOf(mode, d, f) \subseteq Docs \X Docs \X Types
         /\ \A e \in EdgesOf(mode, d, f) : e[1] = d
         /\ {e \in EdgesOf(mode, d, f) : e[3] = "link"} = Links(d, f.body)
<1>1. f.body \in Bodies /\ f.refs \subseteq Docs /\ LinksOf[f.body] \subseteq Docs
  BY IndexAssumption DEF Files
<1>2. RefType(mode) \in Types /\ RefType(mode) # "link"
  BY DEF RefType, Types
<1>3. \A e : e \in EdgesOf(mode, d, f) <=>
         \/ \E t \in LinksOf[f.body] : e = <<d, t, "link">>
         \/ \E t \in f.refs : e = <<d, t, RefType(mode)>>
  BY DEF EdgesOf
<1>4. EdgesOf(mode, d, f) \subseteq Docs \X Docs \X Types
  BY <1>1, <1>2, <1>3 DEF Types
<1>5. \A e \in EdgesOf(mode, d, f) : e[1] = d
  BY <1>3
<1>6. {e \in EdgesOf(mode, d, f) : e[3] = "link"} = Links(d, f.body)
  BY <1>2, <1>3 DEF Links
<1> QED BY <1>4, <1>5, <1>6

\* A pass that ends leaves its build choosing.
LEMMA SettledFields ==
  ASSUME NEW r \in Builds
  PROVE  /\ Settled(r) \in Builds /\ AtWork(Settled(r))
         /\ Settled(r).stage = "choose"
         /\ Settled(r).todo = r.todo /\ Settled(r).docs = r.docs
         /\ Settled(r).unread = r.unread
         /\ Settled(r).mode = r.mode /\ Settled(r).model = r.model
         /\ Settled(r).force = r.force
         /\ Settled(r).clean = r.clean /\ Settled(r).quiet = r.quiet
BY DEF Settled, Builds, AtWork
-----------------------------------------------------------------------------

\* One command steps and what the others do shows at most in their quiet: the
\* commands keep their shape.
LEMMA OneBuildSteps ==
  ASSUME KGShapes, NEW b \in Builders, NEW new,
         build' = [c \in Builders |-> IF c = b THEN new ELSE Noisy(c)],
         new \in Builds \cup Drops \cup {NoBuild}, new \in Builds => AtWork(new)
  PROVE  /\ build'[b] = new
         /\ \A c \in Builders \ {b} : Quieter(c)
         /\ build' \in [Builders -> Builds \cup Drops \cup {NoBuild}]
         /\ \A c \in Builders : build'[c] \in Builds => AtWork(build'[c])
<1>1. build'[b] = new
  OBVIOUS
<1>2. ASSUME NEW c \in Builders \ {b}
      PROVE  Quieter(c)
  <2>1. build'[c] = Noisy(c)
    OBVIOUS
  <2> QED BY <2>1, NoisyIsQuieter DEF Quieter
<1>3. \A c \in Builders : /\ build'[c] \in Builds \cup Drops \cup {NoBuild}
                          /\ build'[c] \in Builds => AtWork(build'[c])
  <2> TAKE c \in Builders
  <2>1. CASE c = b
    BY <1>1, <2>1
  <2>2. CASE c # b
    BY <1>2, <2>2, QuieterFields DEF KGShapes
  <2> QED BY <2>1, <2>2
<1> QED BY <1>1, <1>2, <1>3

\* The same of a step the others do not notice.
LEMMA OneBuildAlone ==
  ASSUME KGShapes, NEW b \in Builders, NEW new,
         build' = [build EXCEPT ![b] = new],
         new \in Builds \cup Drops \cup {NoBuild}, new \in Builds => AtWork(new)
  PROVE  /\ build'[b] = new
         /\ \A c \in Builders \ {b} : build'[c] = build[c] /\ Quieter(c)
         /\ build' \in [Builders -> Builds \cup Drops \cup {NoBuild}]
         /\ \A c \in Builders : build'[c] \in Builds => AtWork(build'[c])
BY DEF KGShapes, Quieter

\* Where the pass of a build goes at each of its steps.
OpenEdges(r) ==
  [r EXCEPT !.stage = "edges", !.pending = EdgesOf(r.mode, r.at, r.file)]

LEMMA NextStages ==
  ASSUME NEW r \in Builds, AtWork(r), r.stage # "choose"
  PROVE  /\ OpenEdges(r) \in Builds /\ AtWork(OpenEdges(r))
         /\ \A P \in SUBSET r.pending, q, c \in BOOLEAN :
              LET s == [r EXCEPT !.pending = P, !.clean = c, !.quiet = q] IN
              r.stage = "edges" => s \in Builds /\ AtWork(s)
         /\ \A P \in SUBSET r.pending :
              LET s == [r EXCEPT !.pending = P] IN
              r.stage = "edges" => s \in Builds /\ AtWork(s)
         /\ \A c \in BOOLEAN :
              LET s == [r EXCEPT !.stage = "clear", !.clean = c] IN
              s \in Builds /\ AtWork(s)
         /\ (r.model # None /\ ~(r.mode = "crawl" /\ r.file.body = Empty)) =>
              LET s == [r EXCEPT !.stage = "chunks"] IN
              s \in Builds /\ AtWork(s)
         /\ (r.stage = "chunks" /\ r.file.body # Empty) =>
              LET s == [r EXCEPT !.stage = "embed"] IN
              s \in Builds /\ AtWork(s)
         /\ LET s == [r EXCEPT !.clean = FALSE, !.quiet = FALSE] IN
              s \in Builds /\ AtWork(s)
<1>0. r.at \in Docs /\ r.file \in Files /\ r.mode \in Modes \ {"drop"}
  BY DEF Builds, AtWork
<1>1. OpenEdges(r) \in Builds /\ AtWork(OpenEdges(r))
  <2>1. EdgesOf(r.mode, r.at, r.file) \in SUBSET (Docs \X Docs \X Types)
    BY <1>0, EdgesOfType
  <2> HIDE DEF EdgesOf
  <2> QED BY <1>0, <2>1 DEF OpenEdges, Builds, AtWork
<1>2. \A P \in SUBSET r.pending, q, c \in BOOLEAN :
        LET s == [r EXCEPT !.pending = P, !.clean = c, !.quiet = q] IN
        r.stage = "edges" => s \in Builds /\ AtWork(s)
  <2> SUFFICES ASSUME NEW P \in SUBSET r.pending, NEW q \in BOOLEAN, NEW c \in BOOLEAN,
                      r.stage = "edges"
               PROVE  LET s == [r EXCEPT !.pending = P, !.clean = c, !.quiet = q] IN
                      s \in Builds /\ AtWork(s)
    OBVIOUS
  <2> DEFINE s == [r EXCEPT !.pending = P, !.clean = c, !.quiet = q]
  <2>1. r.pending \in SUBSET (Docs \X Docs \X Types)
    BY DEF Builds
  <2>2. P \in SUBSET (Docs \X Docs \X Types)
    BY <2>1
  <2>3. s \in Builds
    BY <2>2 DEF Builds
  <2>4. s.stage = "edges" /\ s.at = r.at /\ s.file = r.file
    BY DEF Builds
  <2>5. AtWork(s)
    BY <1>0, <2>4 DEF AtWork
  <2> QED BY <2>3, <2>5
<1>3. \A P \in SUBSET r.pending :
        LET s == [r EXCEPT !.pending = P] IN
        r.stage = "edges" => s \in Builds /\ AtWork(s)
  BY DEF Builds, AtWork
<1>4. \A c \in BOOLEAN :
        LET s == [r EXCEPT !.stage = "clear", !.clean = c] IN
        s \in Builds /\ AtWork(s)
  BY <1>0 DEF Builds, AtWork
<1>5. (r.model # None /\ ~(r.mode = "crawl" /\ r.file.body = Empty)) =>
        LET s == [r EXCEPT !.stage = "chunks"] IN s \in Builds /\ AtWork(s)
  BY <1>0, IndexAssumption DEF Builds, AtWork
<1>6. (r.stage = "chunks" /\ r.file.body # Empty) =>
        LET s == [r EXCEPT !.stage = "embed"] IN s \in Builds /\ AtWork(s)
  BY <1>0 DEF Builds, AtWork
<1>7. LET s == [r EXCEPT !.clean = FALSE, !.quiet = FALSE] IN
        s \in Builds /\ AtWork(s)
  BY <1>0 DEF Builds, AtWork
<1> QED BY <1>1, <1>2, <1>3, <1>4, <1>5, <1>6, <1>7

LEMMA KGShapesInit == Init => KGShapes
BY DEF Init, KGShapes, Builds, Drops, NoBuild

\* Loading a document leaves it one, and loads the file if that can be read.
LEMMA EnsureLoadedFits ==
  ASSUME NEW doc \in Loaded, NEW f \in Files \cup {None, Garbled}
  PROVE  /\ EnsureLoaded(doc, f) \in Loaded
         /\ EnsureLoaded(EnsureLoaded(doc, f), f) = EnsureLoaded(doc, f)
<1>1. CASE doc.body # None \/ f \notin Files
  BY <1>1 DEF EnsureLoaded
<1>2. CASE ~(doc.body # None \/ f \notin Files)
  <2>1. EnsureLoaded(doc, f) = [doc EXCEPT !.body = f.body] /\ f.body \in Bodies
    BY <1>2 DEF EnsureLoaded, Files
  <2>2. [doc EXCEPT !.body = f.body] \in Loaded /\ [doc EXCEPT !.body = f.body].body # None
    BY <2>1, IndexAssumption DEF Loaded
  <2> QED BY <2>1, <2>2 DEF EnsureLoaded
<1> QED BY <1>1, <1>2

\* What a build begins with.
LEMMA Started ==
  ASSUME KGShapes, NEW b \in Builders, NEW mode \in Modes \ {"drop"},
         NEW model \in Embedders, NEW force \in BOOLEAN, StartBuild(b, mode, model, force)
  PROVE  LET n == build'[b] IN
         /\ build' = [build EXCEPT ![b] = n]
         /\ n \in Builds /\ AtWork(n) /\ n.stage = "choose" /\ n.mode = mode
         /\ n.todo = {p \in Scanned(mode) : file[p] # None}
         /\ n.unread \subseteq n.todo
         /\ mode = "schema" => \A p \in n.todo :
              file[p] \in Files /\ n.docs[p] = [NoDoc EXCEPT !.refs = file[p].refs]
<1>1. PICK found : found = {p \in Scanned(mode) : file[p] # None}
  OBVIOUS
<1>2. PICK unread : unread = IF mode = "schema" THEN found ELSE {}
  OBVIOUS
<1>3. PICK docs : docs = [p \in Paths |-> IF mode = "schema" /\ p \in found
                                          THEN [NoDoc EXCEPT !.refs = file[p].refs] ELSE NoDoc]
  OBVIOUS
<1> DEFINE new == [stage |-> "choose", mode |-> mode, model |-> model, force |-> force,
                   todo |-> found, unread |-> unread, docs |-> docs, at |-> None,
                   file |-> None, pending |-> {}, clean |-> TRUE, quiet |-> TRUE]
<1>4. found \subseteq Paths
  BY <1>1, IndexAssumption DEF Scanned
<1>5. mode = "schema" => \A p \in found : file[p] \in Files
  BY <1>1, <1>4 DEF StartBuild, KGShapes
<1>6. NoDoc \in Loaded
  BY DEF NoDoc, Loaded
<1>7. \A f \in Files : [NoDoc EXCEPT !.refs = f.refs] \in Loaded
  BY DEF NoDoc, Loaded, Files
<1>8. docs \in [Paths -> Loaded]
  BY <1>3, <1>5, <1>6, <1>7
<1>9. build' = [build EXCEPT ![b] = new]
  BY <1>1, <1>2, <1>3 DEF StartBuild
<1>10. new \in Builds /\ AtWork(new)
  BY <1>2, <1>4, <1>8 DEF Builds, AtWork
<1>11. /\ new.stage = "choose" /\ new.mode = mode /\ new.todo = found
       /\ new.unread = unread /\ new.docs = docs
  OBVIOUS
<1> HIDE DEF new
<1>12. build'[b] = new
  BY <1>9 DEF KGShapes
<1>13. mode = "schema" => \A p \in found :
         file[p] \in Files /\ docs[p] = [NoDoc EXCEPT !.refs = file[p].refs]
  BY <1>3, <1>4, <1>5
<1> QED BY <1>1, <1>2, <1>9, <1>10, <1>11, <1>12, <1>13

\* What loading a document makes of a build.
LEMMA DocLoaded ==
  ASSUME KGShapes, NEW b \in Builders, NEW p \in Paths, LoadDoc(b, p)
  PROVE  LET r == build[b]
             n == build'[b] IN
         /\ build' = [build EXCEPT ![b] = n]
         /\ r \in Builds /\ n \in Builds /\ AtWork(n)
         /\ r.stage = "choose" /\ n.stage = "choose" /\ p \in r.unread
         /\ n.todo = r.todo /\ n.unread = r.unread \ {p}
         /\ n.docs = [r.docs EXCEPT ![p] = EnsureLoaded(r.docs[p], file[p])]
         /\ n.mode = r.mode /\ n.model = r.model /\ n.force = r.force
         /\ n.clean = r.clean /\ n.quiet = r.quiet
<1> DEFINE r == build[b]
<1>1. r \in Builds /\ r.stage = "choose" /\ p \in r.unread
  BY BuildIsOne DEF LoadDoc
<1>2. PICK e : e = [r.docs EXCEPT ![p] = EnsureLoaded(r.docs[p], file[p])]
  OBVIOUS
<1>3. e \in [Paths -> Loaded]
  <2>1. r.docs \in [Paths -> Loaded] /\ file[p] \in Files \cup {None, Garbled}
    BY <1>1 DEF Builds, KGShapes
  <2>2. EnsureLoaded(r.docs[p], file[p]) \in Loaded
    BY <2>1, EnsureLoadedFits
  <2> QED BY <1>2, <2>1, <2>2
<1>4. PICK u : u = r.unread \ {p}
  OBVIOUS
<1>5. u \in SUBSET Paths
  BY <1>1, <1>4 DEF Builds
<1> DEFINE n == [r EXCEPT !.unread = u, !.docs = e]
<1>6. build' = [build EXCEPT ![b] = n]
  BY <1>2, <1>4 DEF LoadDoc
<1>7. build'[b] = n
  BY <1>6 DEF KGShapes
<1>8. /\ n \in Builds /\ AtWork(n) /\ n.stage = "choose" /\ n.todo = r.todo
      /\ n.unread = u /\ n.docs = e /\ n.mode = r.mode /\ n.model = r.model
      /\ n.force = r.force /\ n.clean = r.clean /\ n.quiet = r.quiet
  BY <1>1, <1>3, <1>5 DEF Builds, AtWork
<1> HIDE DEF n
<1> QED BY <1>1, <1>2, <1>4, <1>6, <1>7, <1>8

\* What a file's turn makes of a build.
LEMMA Considered ==
  ASSUME KGShapes, NEW b \in Builders, NEW p \in Paths, Consider(b, p)
  PROVE  LET r == build[b]
             f == IF r.mode = "schema" THEN EnsureLoaded(r.docs[p], file[p]) ELSE file[p]
             n == build'[b] IN
         /\ r \in Builds /\ n \in Builds /\ AtWork(n)
         /\ r.stage = "choose" /\ r.unread = {} /\ p \in r.todo
         /\ n.todo = r.todo \ {p} /\ n.unread = {} /\ n.docs = [r.docs EXCEPT ![p] = NoDoc]
         /\ n.mode = r.mode /\ n.model = r.model /\ n.force = r.force
         /\ n.clean = r.clean /\ n.quiet = r.quiet
         /\ IF f \notin Files \/ Skips(b, IdOf[p], f) THEN n.stage = "choose"
            ELSE n.stage = "node" /\ n.at = IdOf[p] /\ n.file = f
<1> DEFINE r == build[b]
<1>0. PICK f : f = IF r.mode = "schema" THEN EnsureLoaded(r.docs[p], file[p]) ELSE file[p]
  OBVIOUS
<1>1. r \in Builds /\ r.stage = "choose" /\ r.unread = {} /\ p \in r.todo
  BY BuildIsOne DEF Consider
<1>2. PICK d \in Docs : d = IdOf[p]
  BY IndexAssumption
<1>3. PICK e : e = [r.docs EXCEPT ![p] = NoDoc]
  OBVIOUS
<1>4. e \in [Paths -> Loaded]
  <2>1. NoDoc \in Loaded /\ r.docs \in [Paths -> Loaded]
    BY <1>1 DEF NoDoc, Loaded, Builds
  <2> QED BY <1>3, <2>1
<1>5. build'[b] = IF f \notin Files \/ Skips(b, d, f)
                    THEN [r EXCEPT !.todo = @ \ {p}, !.docs = e]
                    ELSE [r EXCEPT !.todo = @ \ {p}, !.docs = e,
                                   !.stage = "node", !.at = d, !.file = f]
  BY <1>0, <1>2, <1>3 DEF Consider, KGShapes
<1>6. CASE f \notin Files \/ Skips(b, d, f)
  <2>1. build'[b] = [r EXCEPT !.todo = @ \ {p}, !.docs = e]
    BY <1>5, <1>6
  <2>2. /\ build'[b] \in Builds /\ AtWork(build'[b]) /\ build'[b].stage = "choose"
        /\ build'[b].todo = r.todo \ {p} /\ build'[b].unread = {} /\ build'[b].docs = e
        /\ build'[b].mode = r.mode /\ build'[b].model = r.model
        /\ build'[b].force = r.force /\ build'[b].clean = r.clean
        /\ build'[b].quiet = r.quiet
    BY <1>1, <1>4, <2>1 DEF Builds, AtWork
  <2> QED BY <1>0, <1>1, <1>2, <1>3, <1>6, <2>2
<1>7. CASE f \in Files /\ ~Skips(b, d, f)
  <2>1. PICK t : t = r.todo \ {p}
    OBVIOUS
  <2>2. /\ build'[b] \in Builds /\ build'[b].stage = "node" /\ build'[b].at = d
        /\ build'[b].file = f
    <3>1. build'[b] = [r EXCEPT !.todo = t, !.docs = e,
                                !.stage = "node", !.at = d, !.file = f]
      BY <1>5, <1>7, <2>1
    <3>2. t \in SUBSET Paths
      BY <1>1, <2>1 DEF Builds
    <3> QED BY <1>1, <1>4, <1>7, <3>1, <3>2 DEF Builds
  <2>3. /\ build'[b].todo = r.todo \ {p} /\ build'[b].unread = {} /\ build'[b].docs = e
        /\ build'[b].mode = r.mode /\ build'[b].model = r.model
        /\ build'[b].force = r.force /\ build'[b].clean = r.clean
        /\ build'[b].quiet = r.quiet
    BY <1>1, <1>5, <1>7 DEF Builds
  <2>4. AtWork(build'[b])
    BY <1>7, <2>2 DEF AtWork
  <2> QED BY <1>0, <1>1, <1>2, <1>3, <1>7, <2>2, <2>3, <2>4
<1> QED BY <1>6, <1>7

\* What a failed statement makes of a build.
LEMMA FailedStatement ==
  ASSUME KGShapes, NEW b \in Builders, StatementFails(b)
  PROVE  LET r == build[b]
             n == build'[b] IN
         /\ r \in Builds /\ AtWork(r)
         /\ r.stage \in {"node", "clear", "chunks", "embed"}
         /\ n \in Builds \cup {NoBuild}
         /\ n \in Builds => /\ AtWork(n) /\ n.stage \in {"choose", "edges", "embed"}
                            /\ ~n.clean /\ ~n.quiet
                            /\ n.stage # "choose" => n.at = r.at
                            /\ r.stage = "node" => n.stage = "choose"
         /\ build' = [build EXCEPT ![b] = n]
<1> DEFINE r == build[b]
           next == IF r.mode = "schema" THEN NoBuild ELSE
                   CASE r.stage \in {"node", "embed"} -> Settled(r)
                     [] r.stage = "clear"  -> OpenEdges(r)
                     [] r.stage = "chunks" -> [r EXCEPT !.stage = "embed"]
           new == IF next = NoBuild THEN NoBuild
                  ELSE [next EXCEPT !.clean = FALSE, !.quiet = FALSE]
<1>1. r \in Builds /\ AtWork(r) /\ r.stage \in {"node", "clear", "chunks", "embed"}
  BY BuildIsOne DEF StatementFails
<1>2. build' = [build EXCEPT ![b] = new]
  BY DEF StatementFails, OpenEdges
<1>3. build'[b] = new
  BY <1>2 DEF KGShapes
<1>4. r.mode = "schema" \/ r.mode = "crawl"
  BY <1>1, IndexAssumption DEF Builds
<1>5. next = NoBuild \/
      ( /\ next \in Builds /\ AtWork(next) /\ next.stage \in {"choose", "edges", "embed"}
        /\ next.stage # "choose" => next.at = r.at
        /\ r.stage = "node" => next.stage = "choose" )
  <2>1. CASE r.mode = "schema"
    BY <2>1
  <2>2. CASE r.mode # "schema" /\ r.stage \in {"node", "embed"}
    <3>1. next = Settled(r)
      BY <2>2
    <3> QED BY <1>1, <3>1, SettledFields
  <2>3. CASE r.mode # "schema" /\ r.stage = "clear"
    <3>1. next = OpenEdges(r)
      BY <2>3
    <3>2. OpenEdges(r).stage = "edges" /\ OpenEdges(r).at = r.at
      BY <1>1 DEF OpenEdges, Builds
    <3> QED BY <1>1, <2>3, <3>1, <3>2, NextStages
  <2>4. CASE r.mode = "crawl" /\ r.stage = "chunks"
    <3>1. next = [r EXCEPT !.stage = "embed"]
      BY <2>4
    <3>2. r.file.body # Empty
      BY <1>1, <2>4 DEF AtWork
    <3>3. [r EXCEPT !.stage = "embed"].stage = "embed" /\ [r EXCEPT !.stage = "embed"].at = r.at
      BY <1>1 DEF Builds
    <3>4. next \in Builds /\ AtWork(next)
      BY <1>1, <2>4, <3>1, <3>2, NextStages
    <3> QED BY <1>1, <2>4, <3>1, <3>3, <3>4
  <2> QED BY <1>1, <1>4, <2>1, <2>2, <2>3, <2>4
<1> HIDE DEF next
<1>6. CASE next = NoBuild
  <2>1. NoBuild \notin Builds
    BY DEF NoBuild, Builds
  <2>2. build'[b] = NoBuild /\ build' = [build EXCEPT ![b] = NoBuild]
    BY <1>2, <1>3, <1>6
  <2> QED BY <1>1, <2>1, <2>2
<1>7. CASE next # NoBuild
  <2>1. new = [next EXCEPT !.clean = FALSE, !.quiet = FALSE]
    BY <1>7
  <2>2. new \in Builds /\ AtWork(new) /\ new.stage = next.stage /\ new.at = next.at
        /\ ~new.clean /\ ~new.quiet
    BY <1>5, <1>7, <2>1 DEF Builds, AtWork
  <2> QED BY <1>1, <1>2, <1>3, <1>5, <1>7, <2>2
<1> QED BY <1>6, <1>7

\* The shapes of files, rows and commands survive every step.
LEMMA KGShapesStep == KGShapes /\ [Next]_kgVars => KGShapes'
<1> SUFFICES ASSUME KGShapes, [Next]_kgVars PROVE KGShapes'
  OBVIOUS
<1> DEFINE BuildsFit == /\ build' \in [Builders -> Builds \cup Drops \cup {NoBuild}]
                        /\ \A c \in Builders : build'[c] \in Builds => AtWork(build'[c])
<1>0. NoBuild \notin Builds
  BY DEF NoBuild, Builds
<1>1. ASSUME NEW b \in Builders, NEW mode \in Modes \ {"drop"}, NEW model \in Embedders,
             NEW force \in BOOLEAN, StartBuild(b, mode, model, force)
      PROVE  KGShapes'
  <2>1. PICK n \in Builds : build' = [build EXCEPT ![b] = n] /\ AtWork(n)
    BY <1>1, Started
  <2>2. BuildsFit
    BY <2>1, OneBuildAlone
  <2> QED BY <1>1, <2>2 DEF StartBuild, KGShapes
<1>2. ASSUME NEW b \in Builders, DropNodes(b)
      PROVE  KGShapes'
  <2>1. \A c \in Builders : /\ build'[c] \in Builds \cup Drops \cup {NoBuild}
                            /\ build'[c] \in Builds => AtWork(build'[c])
    <3> TAKE c \in Builders
    <3>1. CASE c = b
      BY <1>2, <3>1 DEF DropNodes, Drops, Builds
    <3>2. CASE c # b
      <4>1. Noisy(c) \in Builds => Noisy(c) = build[c] \/ Noisy(c) = [build[c] EXCEPT !.quiet = FALSE]
        BY NoisyIsQuieter
      <4>2. /\ Noisy(c) \in Builds \cup Drops \cup {NoBuild}
            /\ Noisy(c) \in Builds => AtWork(Noisy(c))
        <5>1. CASE Noisy(c) = build[c]
          BY <5>1 DEF KGShapes
        <5>2. CASE build[c] \in Builds /\ Noisy(c) = [build[c] EXCEPT !.quiet = FALSE]
          BY <5>2 DEF KGShapes, Builds, AtWork
        <5> QED BY <5>1, <5>2, NoisyIsQuieter
      <4>3. CASE \E d \in Docs : Busy(c, d)
        <5>1. build'[c] = [Noisy(c) EXCEPT !.clean = FALSE]
          BY <1>2, <3>2, <4>3 DEF DropNodes
        <5>2. Noisy(c) # NoBuild
          BY <4>3, NoisyIsQuieter DEF Busy, Indexing, Dropping, NoBuild, Builds
        <5>3. CASE Noisy(c) \in Builds
          BY <4>2, <5>1, <5>3 DEF Builds, AtWork
        <5>4. CASE Noisy(c) \in Drops
          BY <5>1, <5>4 DEF Drops, Builds
        <5> QED BY <4>2, <5>2, <5>3, <5>4
      <4>4. CASE ~\E d \in Docs : Busy(c, d)
        BY <1>2, <3>2, <4>2, <4>4 DEF DropNodes
      <4> QED BY <4>3, <4>4
    <3> QED BY <3>1, <3>2
  <2>2. build' \in [Builders -> Builds \cup Drops \cup {NoBuild}]
    BY <1>2, <2>1 DEF DropNodes
  <2> QED BY <1>2, <2>1, <2>2 DEF DropNodes, KGShapes
<1>3. ASSUME NEW b \in Builders, NEW p \in Paths, LoadDoc(b, p) \/ Consider(b, p)
      PROVE  KGShapes'
  <2>1. PICK n : build' = [build EXCEPT ![b] = n]
    BY <1>3 DEF Consider, LoadDoc
  <2>2. n \in Builds /\ AtWork(n)
    <3>1. n = build'[b]
      BY <2>1 DEF KGShapes
    <3> QED BY <1>3, <3>1, Considered, DocLoaded
  <2>3. BuildsFit
    BY <2>1, <2>2, OneBuildAlone
  <2> QED BY <1>3, <2>3 DEF Consider, LoadDoc, KGShapes
<1>4. ASSUME NEW b \in Builders, UpsertNode(b)
      PROVE  KGShapes'
  <2>1. build[b] \in Builds /\ AtWork(build[b]) /\ build[b].stage = "node"
    BY <1>4, BuildIsOne DEF UpsertNode
  <2>2. build[b].at \in Docs /\ Sha(build[b].file) \in Bodies
    BY <2>1 DEF AtWork, Sha, Files
  <2>3. \A c \in Builders : /\ build'[c] \in Builds \cup Drops \cup {NoBuild}
                            /\ build'[c] \in Builds => AtWork(build'[c])
    <3> TAKE c \in Builders
    <3>1. CASE c = b
      <4>1. PICK k \in BOOLEAN : build'[b] = [build[b] EXCEPT !.stage = "clear", !.clean = k]
        BY <1>4 DEF UpsertNode
      <4> DEFINE new == [build[b] EXCEPT !.stage = "clear", !.clean = k]
      <4>2. new \in Builds /\ AtWork(new)
        BY <2>1, NextStages
      <4> QED BY <3>1, <4>1, <4>2
    <3>2. CASE c # b /\ Indexing(c, build[b].at)
      <4>1. build'[c] = [build[c] EXCEPT !.clean = FALSE, !.quiet = FALSE]
        BY <1>4, <3>2 DEF UpsertNode
      <4>2. build[c] \in Builds /\ AtWork(build[c]) /\ build[c].stage # "choose"
        BY <3>2, BuildIsOne DEF Indexing
      <4> QED BY <4>1, <4>2, NextStages
    <3>3. CASE c # b /\ ~Indexing(c, build[b].at)
      <4>1. build'[c] = Noisy(c)
        BY <1>4, <3>3 DEF UpsertNode
      <4>2. Quieter(c)
        BY SMTT(30), <4>1, NoisyIsQuieter DEF Quieter
      <4> QED BY <4>2, QuieterFields DEF KGShapes
    <3> QED BY <3>1, <3>2, <3>3
  <2>4. build' \in [Builders -> Builds \cup Drops \cup {NoBuild}]
    BY <1>4, <2>3 DEF UpsertNode
  <2>5. torn' \subseteq Docs /\ node' \in [Docs -> Bodies \cup {None}]
    BY <1>4, <2>2 DEF UpsertNode, KGShapes
  <2> QED BY <1>4, <2>3, <2>4, <2>5 DEF UpsertNode, KGShapes
<1>5. ASSUME NEW b \in Builders, RemoveEdgesForDoc(b)
      PROVE  KGShapes'
  <2>1. build[b] \in Builds /\ AtWork(build[b]) /\ build[b].stage = "clear"
    BY <1>5, BuildIsOne DEF RemoveEdgesForDoc
  <2>2. BuildsFit
    BY <1>5, <2>1, NextStages, OneBuildSteps DEF RemoveEdgesForDoc, BuildStep, OpenEdges
  <2> QED BY <1>5, <2>2 DEF RemoveEdgesForDoc, KGShapes
<1>6. ASSUME NEW b \in Builders, AddEdge(b)
      PROVE  KGShapes'
  <2>1. build[b] \in Builds /\ AtWork(build[b]) /\ build[b].stage = "edges"
    BY <1>6, BuildIsOne DEF AddEdge
  <2>2. PICK e \in build[b].pending :
          /\ edges' = edges \cup {e}
          /\ BuildStep(b, [build[b] EXCEPT !.pending = @ \ {e}])
    BY <1>6 DEF AddEdge
  <2> DEFINE P == build[b].pending \ {e}
             new == [build[b] EXCEPT !.pending = P]
  <2>3. P \in SUBSET build[b].pending
    BY SMTT(30)
  <2>4. new \in Builds /\ AtWork(new)
    <3> HIDE DEF P
    <3> QED BY <2>1, <2>3, NextStages
  <2>5. BuildStep(b, new)
    BY <2>2
  <2> HIDE DEF new
  <2>6. BuildsFit
    BY <2>4, <2>5, OneBuildSteps DEF BuildStep
  <2>7. edges' \subseteq Docs \X Docs \X Types
    BY <2>1, <2>2 DEF KGShapes, Builds
  <2> QED BY <1>6, <2>6, <2>7 DEF AddEdge, KGShapes
<1>7. ASSUME NEW b \in Builders, EdgesDone(b)
      PROVE  KGShapes'
  <2>1. build[b] \in Builds /\ AtWork(build[b]) /\ build[b].stage = "edges"
        /\ build[b].at \in Docs
    BY <1>7, BuildIsOne DEF EdgesDone, AtWork
  <2>2. PICK n : /\ build' = [build EXCEPT ![b] = n]
                 /\ n \in Builds /\ AtWork(n)
    <3>1. CASE build[b].model = None \/ (build[b].mode = "crawl" /\ build[b].file.body = Empty)
      BY <1>7, <2>1, <3>1, SettledFields DEF EdgesDone
    <3>2. CASE ~(build[b].model = None \/ (build[b].mode = "crawl" /\ build[b].file.body = Empty))
      <4>1. build' = [build EXCEPT ![b] = [build[b] EXCEPT !.stage = "chunks"]]
        BY <1>7, <3>2 DEF EdgesDone, KGShapes
      <4> QED BY <2>1, <3>2, <4>1, NextStages
    <3> QED BY <3>1, <3>2
  <2>3. BuildsFit
    BY <2>2, OneBuildAlone
  <2>4. torn' \subseteq Docs
    BY <1>7 DEF EdgesDone, TornAfter, KGShapes
  <2> QED BY <1>7, <2>3, <2>4 DEF EdgesDone, KGShapes
<1>8. ASSUME NEW b \in Builders, DeleteChunks(b) \/ InsertChunks(b)
      PROVE  KGShapes'
  <2>1. build[b] \in Builds /\ AtWork(build[b]) /\ build[b].stage \in {"chunks", "embed"}
        /\ build[b].at \in Docs /\ build[b].model \in Models /\ build[b].file.body \in Bodies
    BY <1>8, BuildIsOne DEF DeleteChunks, InsertChunks, AtWork, Files
  <2>2. PICK n : BuildStep(b, n) /\ n \in Builds /\ AtWork(n)
    <3>1. CASE InsertChunks(b) \/ (DeleteChunks(b) /\ build[b].file.body = Empty)
      BY SMTT(30), <2>1, <3>1, SettledFields DEF InsertChunks, DeleteChunks
    <3>2. CASE DeleteChunks(b) /\ build[b].file.body # Empty
      BY <2>1, <3>2, NextStages DEF DeleteChunks
    <3> QED BY <1>8, <3>1, <3>2
  <2>3. BuildsFit
    BY <2>2, OneBuildSteps DEF BuildStep
  <2>4. chunk' \in [Docs -> [Models -> Bodies \cup {None}]]
    <3>1. PICK x \in Bodies \cup {None} :
            chunk' = [chunk EXCEPT ![build[b].at][build[b].model] = x]
      BY <1>8, <2>1 DEF DeleteChunks, InsertChunks
    <3> DEFINE d == build[b].at
               m == build[b].model
    <3>2. chunk' = [chunk EXCEPT ![d] = [chunk[d] EXCEPT ![m] = x]]
      BY <3>1
    <3>3. d \in Docs /\ m \in Models
      BY <2>1
    <3> HIDE DEF d, m
    <3>4. chunk[d] \in [Models -> Bodies \cup {None}]
      BY <3>3 DEF KGShapes
    <3>5. [chunk[d] EXCEPT ![m] = x] \in [Models -> Bodies \cup {None}]
      BY <3>3, <3>4
    <3> QED BY <3>2, <3>3, <3>5 DEF KGShapes
  <2>5. torn' \subseteq Docs
    BY <1>8 DEF DeleteChunks, InsertChunks, TornAfter, KGShapes
  <2> QED BY <1>8, <2>3, <2>4, <2>5 DEF DeleteChunks, InsertChunks, KGShapes
<1>9. ASSUME NEW b \in Builders, Finish(b) \/ Crash(b)
      PROVE  KGShapes'
  <2>1. BuildsFit
    BY <1>0, <1>9, OneBuildAlone DEF Finish, Crash
  <2> QED BY <1>9, <2>1 DEF Finish, Crash, KGShapes
<1>10. ASSUME NEW b \in Builders, DropEdges(b) \/ DropChunks(b)
       PROVE  KGShapes'
  <2>1. PICK n : BuildStep(b, n) /\ n \in Drops \cup {NoBuild}
    BY <1>10, BuildIsOne DEF DropEdges, DropChunks, Drops
  <2>2. n \notin Builds
    BY <1>0, <2>1 DEF Drops, Builds
  <2>3. BuildsFit
    BY <2>1, <2>2, OneBuildSteps DEF BuildStep
  <2> QED BY <1>10, <2>3 DEF DropEdges, DropChunks, KGShapes
<1>11. ASSUME NEW b \in Builders, LoseEdge(b)
       PROVE  KGShapes'
  <2>1. build[b] \in Builds /\ AtWork(build[b]) /\ build[b].stage = "edges"
        /\ build[b].at \in Docs
    BY <1>11, BuildIsOne DEF LoseEdge, AtWork
  <2>2. PICK e \in build[b].pending :
          build' = [build EXCEPT ![b] = [build[b] EXCEPT !.pending = @ \ {e},
                                                         !.clean = FALSE, !.quiet = FALSE]]
    BY <1>11 DEF LoseEdge
  <2> DEFINE P == build[b].pending \ {e}
             new == [build[b] EXCEPT !.pending = P, !.clean = FALSE, !.quiet = FALSE]
  <2>3. P \in SUBSET build[b].pending
    OBVIOUS
  <2>4. new \in Builds /\ AtWork(new)
    <3> HIDE DEF P
    <3> QED BY <2>1, <2>3, NextStages
  <2>5. build' = [build EXCEPT ![b] = new]
    BY <2>2
  <2> HIDE DEF new
  <2>6. BuildsFit
    BY <2>4, <2>5, OneBuildAlone
  <2> QED BY <1>11, <2>1, <2>6 DEF LoseEdge, KGShapes
<1>12. ASSUME NEW b \in Builders, StatementFails(b)
       PROVE  KGShapes'
  <2>1. PICK n : /\ build' = [build EXCEPT ![b] = n]
                 /\ n \in Builds \cup {NoBuild}
                 /\ n \in Builds => AtWork(n)
    BY <1>12, FailedStatement
  <2>2. BuildsFit
    BY <2>1, OneBuildAlone
  <2>3. torn' \subseteq Docs
    BY <1>12, FailedStatement DEF StatementFails, AtWork, KGShapes
  <2> QED BY <1>12, <2>2, <2>3 DEF StatementFails, KGShapes
<1>13. ASSUME NEW p \in Paths, NEW f \in Files \cup {None, Garbled}, EditDoc(p, f)
       PROVE  KGShapes'
  <2>1. \A c \in Builders : build'[c] = Noisy(c)
    BY <1>13 DEF EditDoc
  <2>2. \A c \in Builders : Quieter(c)
    BY <2>1, NoisyIsQuieter DEF Quieter
  <2>3. \A c \in Builders : /\ build'[c] \in Builds \cup Drops \cup {NoBuild}
                            /\ build'[c] \in Builds => AtWork(build'[c])
    BY <2>2, QuieterFields DEF KGShapes
  <2>4. build' \in [Builders -> Builds \cup Drops \cup {NoBuild}]
    BY <1>13, <2>3 DEF EditDoc
  <2> QED BY <1>13, <2>3, <2>4 DEF EditDoc, KGShapes
<1>14. CASE UNCHANGED kgVars
  BY <1>14 DEF kgVars, KGShapes
<1> QED
  BY <1>1, <1>2, <1>3, <1>4, <1>5, <1>6, <1>7, <1>8, <1>9, <1>10, <1>11, <1>12,
     <1>13, <1>14 DEF Next, BuilderStep
-----------------------------------------------------------------------------

\* How far the pass of b over d has come: the node says what it indexes, the
\* edges that leave d are those it has added, and the chunks that its model had
\* for d are gone before new ones are inserted.
Progress(b, d) ==
  LET r == build[b]
      wanted == EdgesOf(r.mode, d, r.file) IN
  /\ node[d] = r.file.body
  /\ r.stage = "edges" => From(d) = wanted \ r.pending
  /\ r.stage \in {"chunks", "embed"} => From(d) = wanted
  /\ r.stage = "embed" => chunk[d][r.model] = None

\* What the two properties say of one document.
Linked(d) ==
  IF node[d] = None THEN From(d) = {}
  ELSE LinkEdges(d) = Links(d, node[d])
Searchable(d) ==
  \A m \in Models :
    Embedders = {m} =>
      CASE node[d] = None  -> chunk[d][m] = None
        [] node[d] = Empty -> "crawl" \notin Modes => chunk[d][m] = None
        [] OTHER           -> chunk[d][m] = node[d]

\* A pass that is not alone on its document, or lost something, is not clean and
\* the document is torn; a clean pass has come as far as its stage says; a drop
\* has emptied its tables in order; and a document at rest is as promised.
DocInv(d) ==
  /\ \A b, c \in Builders :
       (b # c /\ Busy(b, d) /\ Busy(c, d)) =>
         d \in torn /\ (Indexing(b, d) => ~build[b].clean)
  /\ \A b \in Builders :
       Indexing(b, d) => IF build[b].clean THEN Progress(b, d) ELSE d \in torn
  /\ \A b \in Builders :
       (Dropping(b) /\ d \notin torn) =>
         node[d] = None /\ (build[b].stage = "drop_chunks" => From(d) = {})
  /\ (d \notin torn /\ \A b \in Builders : ~Busy(b, d)) => Linked(d) /\ Searchable(d)

KGInv == KGShapes /\ \A d \in Docs : DocInv(d)

\* What a step leaves of a command's part in d.
SameFor(c, d) ==
  /\ Indexing(c, d)' <=> Indexing(c, d)
  /\ Dropping(c)' <=> Dropping(c)
  /\ (Indexing(c, d) \/ Dropping(c)) => build'[c].stage = build[c].stage
  /\ Indexing(c, d) => /\ build'[c].clean = build[c].clean
                       /\ build'[c].mode = build[c].mode
                       /\ build'[c].model = build[c].model
                       /\ build'[c].file = build[c].file
                       /\ build'[c].pending = build[c].pending

LEMMA QuieterIsSame ==
  ASSUME KGShapes, NEW c \in Builders, Quieter(c), NEW d \in Docs
  PROVE  SameFor(c, d) /\ (Busy(c, d)' <=> Busy(c, d))
<1>1. Dropping(c)' <=> Dropping(c)
  BY QuieterFields DEF Dropping
<1>2. Indexing(c, d)' <=> Indexing(c, d)
  BY QuieterFields, BuildIsOne DEF Indexing
<1> QED BY <1>1, <1>2, QuieterFields, BuildIsOne DEF SameFor, Busy, Indexing

\* A step that leaves d, and everybody's part in it, as they were.
LEMMA Untouched ==
  ASSUME NEW d \in Docs, DocInv(d),
         From(d)' = From(d), node'[d] = node[d], chunk'[d] = chunk[d],
         d \in torn' <=> d \in torn, \A c \in Builders : SameFor(c, d)
  PROVE  DocInv(d)'
<1>1. \A b \in Builders : Busy(b, d)' <=> Busy(b, d)
  BY DEF SameFor, Busy
<1>2. \A b \in Builders : (Indexing(b, d) /\ Progress(b, d)) => Progress(b, d)'
  BY DEF SameFor, Progress
<1>3. Linked(d) => Linked(d)'
  BY DEF Linked, From, LinkEdges
<1>4. Searchable(d) => Searchable(d)'
  BY DEF Searchable
<1> QED BY <1>1, <1>2, <1>3, <1>4 DEF DocInv, SameFor

\* A torn document asks nothing but that nobody takes its pass for clean.
LEMMA TornIsFine ==
  ASSUME NEW d \in Docs, d \in torn',
         \A c \in Builders : Indexing(c, d)' => ~build'[c].clean
  PROVE  DocInv(d)'
BY DEF DocInv

\* A document that only b may be at work on.
LEMMA Lonely ==
  ASSUME NEW d \in Docs, NEW b \in Builders,
         \A c \in Builders \ {b} : ~Busy(c, d)',
         Indexing(b, d)' => IF build'[b].clean THEN Progress(b, d)' ELSE d \in torn',
         (Dropping(b)' /\ d \notin torn') =>
            node'[d] = None /\ (build'[b].stage = "drop_chunks" => From(d)' = {}),
         (~Busy(b, d)' /\ d \notin torn') => Linked(d)' /\ Searchable(d)'
  PROVE  DocInv(d)'
BY DEF DocInv, Busy

\* The next step of the pass of b over d.
LEMMA PassStep ==
  ASSUME KGShapes, NEW d \in Docs, DocInv(d), NEW b \in Builders, Indexing(b, d),
         \A c \in Builders \ {b} : Quieter(c),
         ~Dropping(b)', Indexing(b, d)' /\ build'[b].clean => build[b].clean,
         ~build[b].clean /\ d \in torn => d \in torn',
         (build[b].clean /\ Progress(b, d)) =>
            /\ Indexing(b, d)' => IF build'[b].clean THEN Progress(b, d)' ELSE d \in torn'
            /\ (~Indexing(b, d)' /\ d \notin torn') => Linked(d)' /\ Searchable(d)'
  PROVE  DocInv(d)'
<1>1. \A c \in Builders \ {b} : SameFor(c, d) /\ (Busy(c, d)' <=> Busy(c, d))
  BY QuieterIsSame
<1>2. CASE build[b].clean
  <2>1. Progress(b, d)
    BY <1>2 DEF DocInv
  <2>2. \A c \in Builders \ {b} : ~Busy(c, d)'
    BY <1>1, <1>2 DEF DocInv, Busy
  <2> QED BY <1>2, <2>1, <2>2, Lonely DEF Busy
<1>3. CASE ~build[b].clean
  <2>1. d \in torn'
    BY <1>3 DEF DocInv
  <2>2. \A c \in Builders \ {b} : Indexing(c, d)' => ~build'[c].clean
    BY <1>1 DEF DocInv, Busy, SameFor
  <2> QED BY <1>3, <2>1, <2>2, TornIsFine
<1> QED BY <1>2, <1>3

\* A step of b that has no part in d.
LEMMA Elsewhere ==
  ASSUME KGShapes, NEW d \in Docs, DocInv(d), NEW b \in Builders,
         ~Busy(b, d), ~Busy(b, d)',
         \A c \in Builders \ {b} : Quieter(c),
         From(d)' = From(d), node'[d] = node[d], chunk'[d] = chunk[d],
         d \in torn' <=> d \in torn
  PROVE  DocInv(d)'
<1>1. \A c \in Builders : SameFor(c, d)
  BY QuieterIsSame DEF SameFor, Busy
<1> QED BY <1>1, Untouched

LEMMA KGInvInit == Init => KGInv
<1> SUFFICES ASSUME Init PROVE KGInv
  OBVIOUS
<1>1. ASSUME NEW d \in Docs
      PROVE  DocInv(d)
  <2>1. \A b \in Builders : ~Busy(b, d) /\ ~Indexing(b, d) /\ ~Dropping(b)
    BY DEF Init, NoBuild, Busy, Indexing, Dropping
  <2>2. Linked(d) /\ Searchable(d)
    BY DEF Init, Linked, Searchable, From
  <2> QED BY <2>1, <2>2 DEF DocInv
<1> QED BY <1>1, KGShapesInit DEF KGInv

\* The edges of a document that passes for up to date, from those of its pass.
LEMMA WantedIsLinked ==
  ASSUME KGShapes, NEW d \in Docs, NEW f \in Files, NEW mode \in Modes \ {"drop"},
         node[d] = f.body, From(d) = EdgesOf(mode, d, f)
  PROVE  Linked(d)
<1>1. f.body # None
  BY IndexAssumption DEF Files
<1>2. LinkEdges(d) = {e \in From(d) : e[3] = "link"}
  BY DEF LinkEdges, From
<1> QED BY <1>1, <1>2, EdgesOfType DEF Linked

\* Nobody begins or ends a pass: commands start, choose and finish, files change.
LEMMA NobodyActs ==
  ASSUME KGInv, UNCHANGED <<node, edges, chunk, torn>>,
         \A c \in Builders : \/ Quieter(c)
                             \/ \A d \in Docs : ~Busy(c, d) /\ ~Busy(c, d)'
  PROVE  \A d \in Docs : DocInv(d)'
<1> SUFFICES ASSUME NEW d \in Docs PROVE DocInv(d)'
  OBVIOUS
<1>1. \A c \in Builders : SameFor(c, d)
  BY QuieterIsSame DEF SameFor, Busy, KGInv
<1>2. From(d)' = From(d)
  BY DEF From
<1> QED BY <1>1, <1>2, Untouched DEF KGInv

LEMMA UpsertKeeps ==
  ASSUME KGInv, NEW b \in Builders, UpsertNode(b)
  PROVE  \A d \in Docs : DocInv(d)'
<1> SUFFICES ASSUME NEW d \in Docs PROVE DocInv(d)'
  OBVIOUS
<1> DEFINE r == build[b]
           overlap == \E c \in Builders \ {b} : Busy(c, r.at)
<1>0. KGShapes
  BY DEF KGInv
<1>1. r \in Builds /\ AtWork(r) /\ r.stage = "node" /\ r.at \in Docs
  BY <1>0, BuildIsOne DEF UpsertNode, AtWork
<1>2. /\ node' = [node EXCEPT ![r.at] = r.file.body]
      /\ torn' = IF overlap THEN torn \cup {r.at} ELSE torn
      /\ build'[b] = [r EXCEPT !.stage = "clear", !.clean = ~overlap]
      /\ \A c \in Builders \ {b} :
           build'[c] = IF Indexing(c, r.at)
                         THEN [build[c] EXCEPT !.clean = FALSE, !.quiet = FALSE]
                         ELSE Noisy(c)
      /\ edges' = edges /\ chunk' = chunk
  BY DEF UpsertNode, Sha
<1>3. /\ build'[b].stage = "clear" /\ build'[b].at = r.at /\ build'[b].file = r.file
      /\ build'[b].clean = ~overlap
  <2> HIDE DEF overlap
  <2> QED BY <1>1, <1>2 DEF Builds
<1>4. Indexing(b, r.at)' /\ ~Dropping(b)' /\ (d # r.at => ~Busy(b, d)')
  BY <1>3 DEF Indexing, Dropping, Busy
<1>5. \A c \in Builders \ {b} : ~Indexing(c, r.at) => Quieter(c)
  BY <1>0, <1>2, NoisyIsQuieter DEF Quieter
<1>6. ASSUME NEW c \in Builders \ {b}, Indexing(c, r.at)
      PROVE  /\ build'[c] = [build[c] EXCEPT !.clean = FALSE, !.quiet = FALSE]
             /\ build'[c].stage = build[c].stage /\ build'[c].at = r.at
             /\ ~build'[c].clean /\ ~Dropping(c) /\ ~Dropping(c)'
  <2>1. build[c] \in Builds /\ build[c].at = r.at /\ ~Dropping(c)
    BY <1>0, <1>6, BuildIsOne DEF Indexing
  <2>2. build'[c] = [build[c] EXCEPT !.clean = FALSE, !.quiet = FALSE]
    BY <1>2, <1>6
  <2> QED BY <2>1, <2>2 DEF Builds, Dropping
<1>7. CASE d # r.at
  <2>1. \A c \in Builders \ {b} : SameFor(c, d)
    <3> SUFFICES ASSUME NEW c \in Builders \ {b} PROVE SameFor(c, d)
      OBVIOUS
    <3>1. CASE Indexing(c, r.at)
      BY <1>6, <1>7, <3>1 DEF SameFor, Indexing
    <3>2. CASE ~Indexing(c, r.at)
      BY <1>0, <1>5, <3>2, QuieterIsSame
    <3> QED BY <3>1, <3>2
  <2>2. SameFor(b, d)
    BY <1>1, <1>4, <1>7 DEF SameFor, Busy, Indexing, Dropping
  <2>3. From(d)' = From(d) /\ node'[d] = node[d] /\ chunk'[d] = chunk[d]
        /\ (d \in torn' <=> d \in torn)
    BY <1>0, <1>2, <1>7 DEF From, KGShapes
  <2>4. \A c \in Builders : SameFor(c, d)
    BY <2>1, <2>2
  <2> QED BY <2>3, <2>4, Untouched DEF KGInv
<1>8. CASE d = r.at /\ overlap
  <2>1. d \in torn' /\ ~build'[b].clean
    BY <1>2, <1>3, <1>8
  <2>2. \A c \in Builders \ {b} : Indexing(c, d)' => ~build'[c].clean
    <3> SUFFICES ASSUME NEW c \in Builders \ {b}, Indexing(c, d)' PROVE ~build'[c].clean
      OBVIOUS
    <3>1. Indexing(c, d)
      BY <1>0, <1>5, <1>8, QuieterIsSame DEF SameFor
    <3> QED BY <1>6, <1>8, <3>1
  <2> QED BY <2>1, <2>2, TornIsFine
<1>9. CASE d = r.at /\ ~overlap
  <2>1. \A c \in Builders \ {b} : ~Busy(c, d)'
    BY <1>0, <1>5, <1>9, QuieterIsSame DEF Busy
  <2>2. Progress(b, d)'
    BY <1>0, <1>1, <1>2, <1>3, <1>9 DEF Progress, KGShapes
  <2> QED BY <1>3, <1>4, <1>9, <2>1, <2>2, Lonely DEF Busy
<1> QED BY <1>7, <1>8, <1>9

\* A step of the pass of b that others see as noise only, on the document at
\* hand; the other documents are left alone.
LEMMA PassKeeps ==
  ASSUME KGInv, NEW b \in Builders, build[b] \in Builds, NEW at, at = build[b].at,
         Indexing(b, at), ~Dropping(b)', node' = node,
         \A d \in Docs \ {at} :
           /\ ~Indexing(b, d)' /\ chunk'[d] = chunk[d] /\ From(d)' = From(d)
           /\ d \in torn' <=> d \in torn,
         \A c \in Builders \ {b} : Quieter(c),
         Indexing(b, at)' /\ build'[b].clean => build[b].clean,
         ~build[b].clean /\ at \in torn => at \in torn',
         (build[b].clean /\ Progress(b, at)) =>
            /\ Indexing(b, at)' => IF build'[b].clean THEN Progress(b, at)' ELSE at \in torn'
            /\ (~Indexing(b, at)' /\ at \notin torn') => Linked(at)' /\ Searchable(at)'
  PROVE  \A d \in Docs : DocInv(d)'
<1> SUFFICES ASSUME NEW d \in Docs PROVE DocInv(d)'
  OBVIOUS
<1>0. KGShapes /\ DocInv(d)
  BY DEF KGInv
<1>1. CASE d = at
  BY <1>0, <1>1, PassStep
<1>2. CASE d # at
  <2>1. ~Busy(b, d) /\ ~Busy(b, d)'
    BY <1>0, <1>2, BuildIsOne DEF Busy, Indexing
  <2> QED BY <1>0, <1>2, <2>1, Elsewhere
<1> QED BY <1>1, <1>2

\* The build at work on a document.
LEMMA WorkingBuild ==
  ASSUME KGShapes, NEW b \in Builders,
         build[b].stage \in {"clear", "edges", "chunks", "embed"}
  PROVE  /\ build[b] \in Builds /\ AtWork(build[b])
         /\ build[b].at \in Docs /\ build[b].file \in Files
         /\ build[b].mode \in Modes \ {"drop"}
         /\ Indexing(b, build[b].at)
BY BuildIsOne DEF AtWork, Indexing, Builds

LEMMA ClearKeeps ==
  ASSUME KGInv, NEW b \in Builders, RemoveEdgesForDoc(b)
  PROVE  \A d \in Docs : DocInv(d)'
<1> PICK at : at = build[b].at
  OBVIOUS
<1> DEFINE r == build[b]
           wanted == EdgesOf(r.mode, at, r.file)
<1>0. KGShapes
  BY DEF KGInv
<1>1. /\ r \in Builds /\ AtWork(r) /\ at \in Docs /\ r.file \in Files
      /\ r.mode \in Modes \ {"drop"} /\ Indexing(b, at) /\ r.stage = "clear"
  BY <1>0, WorkingBuild DEF RemoveEdgesForDoc
<1>2. /\ build'[b] = OpenEdges(r) /\ \A c \in Builders \ {b} : Quieter(c)
  BY <1>0, <1>1, NextStages, OneBuildSteps DEF RemoveEdgesForDoc, BuildStep, OpenEdges
<1>3. /\ build'[b].stage = "edges" /\ build'[b].at = at /\ build'[b].clean = r.clean
      /\ build'[b].mode = r.mode /\ build'[b].file = r.file /\ build'[b].pending = wanted
  <2>1. PICK w : w = wanted
    OBVIOUS
  <2>2. OpenEdges(r) = [r EXCEPT !.stage = "edges", !.pending = w]
    BY <2>1 DEF OpenEdges
  <2> HIDE DEF wanted
  <2> QED BY <1>1, <1>2, <2>1, <2>2 DEF Builds
<1>4. Indexing(b, at)' /\ ~Dropping(b)' /\ \A d \in Docs \ {at} : ~Indexing(b, d)'
  BY <1>3 DEF Indexing, Dropping
<1>5. \A d \in Docs \ {at} : From(d)' = From(d)
  <2>1. edges' = {e \in edges : e[1] # at}
    BY DEF RemoveEdgesForDoc
  <2> QED BY <2>1 DEF From
<1>6. From(at)' = {}
  <2>1. edges' = {e \in edges : e[1] # at}
    BY DEF RemoveEdgesForDoc
  <2> QED BY <2>1 DEF From
<1>7. Progress(b, at) => Progress(b, at)'
  BY <1>3, <1>6 DEF Progress, RemoveEdgesForDoc
<1>8. node' = node /\ chunk' = chunk /\ torn' = torn
  BY DEF RemoveEdgesForDoc
<1> QED BY <1>1, <1>2, <1>3, <1>4, <1>5, <1>7, <1>8, PassKeeps DEF KGInv

LEMMA AddKeeps ==
  ASSUME KGInv, NEW b \in Builders, AddEdge(b)
  PROVE  \A d \in Docs : DocInv(d)'
<1> PICK at : at = build[b].at
  OBVIOUS
<1> DEFINE r == build[b]
           wanted == EdgesOf(r.mode, at, r.file)
<1>0. KGShapes
  BY DEF KGInv
<1>1. /\ r \in Builds /\ AtWork(r) /\ at \in Docs /\ r.file \in Files
      /\ r.mode \in Modes \ {"drop"} /\ Indexing(b, at) /\ r.stage = "edges"
  BY <1>0, WorkingBuild DEF AddEdge
<1>2. PICK e \in r.pending : /\ edges' = edges \cup {e}
                             /\ BuildStep(b, [r EXCEPT !.pending = r.pending \ {e}])
  BY DEF AddEdge
<1>3. PICK P \in SUBSET r.pending : P = r.pending \ {e}
  OBVIOUS
<1> DEFINE new == [r EXCEPT !.pending = P]
<1>4. new \in Builds /\ AtWork(new)
  BY <1>1, NextStages
<1>5. new.stage = "edges" /\ new.at = at /\ new.clean = r.clean /\ new.mode = r.mode
      /\ new.file = r.file /\ new.pending = P
  BY <1>1 DEF Builds
<1>6. BuildStep(b, new)
  BY <1>2, <1>3
<1> HIDE DEF new
<1>7. build'[b] = new /\ \A c \in Builders \ {b} : Quieter(c)
  BY <1>0, <1>4, <1>6, OneBuildSteps DEF BuildStep
<1>8. Indexing(b, at)' /\ ~Dropping(b)' /\ \A d \in Docs \ {at} : ~Indexing(b, d)'
  BY <1>5, <1>7 DEF Indexing, Dropping
<1>9. node' = node /\ chunk' = chunk /\ torn' = torn
  BY DEF AddEdge
<1>10. e \in wanted /\ e[1] = at /\ r.pending \subseteq wanted
  BY <1>1, EdgesOfType DEF AtWork
<1>11. \A d \in Docs \ {at} : From(d)' = From(d)
  <2> QED BY <1>2, <1>10 DEF From
<1>12. Progress(b, at) => Progress(b, at)'
  <2> SUFFICES ASSUME Progress(b, at) PROVE Progress(b, at)'
    OBVIOUS
  <2>1. From(at)' = From(at) \cup {e}
    <3> QED BY <1>2, <1>10 DEF From
  <2>2. From(at) = wanted \ r.pending
    BY <1>1 DEF Progress
  <2>3. From(at)' = wanted \ P
    BY <1>3, <1>10, <2>1, <2>2
  <2> QED BY <1>1, <1>5, <1>7, <1>9, <2>3 DEF Progress
<1> QED BY <1>1, <1>5, <1>7, <1>8, <1>9, <1>11, <1>12, PassKeeps DEF KGInv

LEMMA EdgesDoneKeeps ==
  ASSUME KGInv, NEW b \in Builders, EdgesDone(b)
  PROVE  \A d \in Docs : DocInv(d)'
<1> PICK at : at = build[b].at
  OBVIOUS
<1> DEFINE r == build[b]
           leaves == r.model = None \/ (r.mode = "crawl" /\ r.file.body = Empty)
<1>0. KGShapes
  BY DEF KGInv
<1>1. /\ r \in Builds /\ AtWork(r) /\ at \in Docs /\ r.file \in Files
      /\ r.mode \in Modes \ {"drop"} /\ Indexing(b, at) /\ r.stage = "edges" /\ r.pending = {}
  BY <1>0, WorkingBuild DEF EdgesDone
<1>2. node' = node /\ chunk' = chunk /\ edges' = edges /\ \A d : From(d)' = From(d)
  BY DEF EdgesDone, From
<1>3. Progress(b, at) => Linked(at)'
  <2> SUFFICES ASSUME Progress(b, at) PROVE Linked(at)'
    OBVIOUS
  <2>1. From(at) = EdgesOf(r.mode, at, r.file) /\ node[at] = r.file.body
    BY <1>1 DEF Progress
  <2>2. Linked(at)
    BY <1>0, <1>1, <2>1, WantedIsLinked
  <2> QED BY <1>2, <2>2 DEF Linked, LinkEdges, From
<1>4. CASE leaves
  <2>1. build' = [build EXCEPT ![b] = Settled(r)] /\ torn' = TornAfter(r)
    BY <1>4 DEF EdgesDone
  <2>2. build'[b] = Settled(r) /\ \A c \in Builders \ {b} : Quieter(c)
    BY <1>0, <1>1, <2>1, SettledFields, OneBuildAlone
  <2>3. ~Dropping(b)' /\ \A d \in Docs : ~Indexing(b, d)'
    BY <1>1, <2>2, SettledFields DEF Dropping, Indexing
  <2>4. Progress(b, at) => Searchable(at)'
    <3>1. ASSUME NEW m \in Models, Embedders = {m}, Progress(b, at)
          PROVE  node[at] = Empty /\ "crawl" \in Modes
      <4>1. r.model # None
        BY <1>1, <3>1, IndexAssumption DEF Builds
      <4> QED BY <1>1, <1>4, <3>1, <4>1 DEF Progress, Builds
    <3>2. Empty # None
      BY IndexAssumption
    <3> QED BY <1>2, <3>1, <3>2 DEF Searchable
  <2>5. /\ \A d \in Docs \ {at} : d \in torn' <=> d \in torn
        /\ ~r.clean => torn' = torn
    BY <2>1 DEF TornAfter
  <2> QED BY <1>1, <1>2, <1>3, <2>2, <2>3, <2>4, <2>5, PassKeeps
<1>5. CASE ~leaves
  <2> DEFINE new == [r EXCEPT !.stage = "chunks"]
  <2>1. build' = [build EXCEPT ![b] = new] /\ torn' = torn
    BY SMTT(30), <1>5 DEF EdgesDone, KGShapes
  <2>2. new \in Builds /\ AtWork(new)
    BY <1>1, <1>5, NextStages
  <2>3. new.stage = "chunks" /\ new.at = at /\ new.clean = r.clean /\ new.mode = r.mode
        /\ new.file = r.file
    BY <1>1 DEF Builds
  <2> HIDE DEF new
  <2>4. build'[b] = new /\ \A c \in Builders \ {b} : Quieter(c)
    BY <1>0, <2>1, <2>2, OneBuildAlone
  <2>5. Indexing(b, at)' /\ ~Dropping(b)' /\ \A d \in Docs \ {at} : ~Indexing(b, d)'
    BY <2>3, <2>4 DEF Indexing, Dropping
  <2>6. Progress(b, at) => Progress(b, at)'
    BY <1>1, <1>2, <2>3, <2>4 DEF Progress
  <2> QED BY <1>1, <1>2, <2>1, <2>3, <2>4, <2>5, <2>6, PassKeeps
<1> QED BY <1>4, <1>5

LEMMA DeleteKeeps ==
  ASSUME KGInv, NEW b \in Builders, DeleteChunks(b)
  PROVE  \A d \in Docs : DocInv(d)'
<1> PICK at : at = build[b].at
  OBVIOUS
<1> PICK m : m = build[b].model
  OBVIOUS
<1> DEFINE r == build[b]
<1>0. KGShapes
  BY DEF KGInv
<1>1. /\ r \in Builds /\ AtWork(r) /\ at \in Docs /\ r.file \in Files
      /\ r.mode \in Modes \ {"drop"} /\ Indexing(b, at) /\ r.stage = "chunks" /\ m \in Models
  BY <1>0, WorkingBuild DEF DeleteChunks, AtWork
<1>2. chunk' = [chunk EXCEPT ![at] = [chunk[at] EXCEPT ![m] = None]]
  BY DEF DeleteChunks
<1>3. chunk'[at][m] = None /\ \A d \in Docs \ {at} : chunk'[d] = chunk[d]
  <2>1. chunk[at] \in [Models -> Bodies \cup {None}]
    BY <1>0, <1>1 DEF KGShapes
  <2> QED BY <1>0, <1>1, <1>2, <2>1 DEF KGShapes
<1>4. node' = node /\ edges' = edges /\ \A d : From(d)' = From(d)
  BY DEF DeleteChunks, From
<1>5. CASE r.file.body = Empty
  <2>1. BuildStep(b, Settled(r)) /\ torn' = TornAfter(r)
    BY <1>5 DEF DeleteChunks
  <2>2. build'[b] = Settled(r) /\ \A c \in Builders \ {b} : Quieter(c)
    BY <1>0, <1>1, <2>1, SettledFields, OneBuildSteps DEF BuildStep
  <2>3. ~Dropping(b)' /\ \A d \in Docs : ~Indexing(b, d)'
    BY <1>1, <2>2, SettledFields DEF Dropping, Indexing
  <2>4. Progress(b, at) => Linked(at)'
    <3> SUFFICES ASSUME Progress(b, at) PROVE Linked(at)'
      OBVIOUS
    <3>1. Linked(at)
      BY <1>0, <1>1, WantedIsLinked DEF Progress
    <3> QED BY <1>4, <3>1 DEF Linked, LinkEdges, From
  <2>5. Progress(b, at) => Searchable(at)'
    <3>1. ASSUME NEW k \in Models, Embedders = {k}
          PROVE  k = m
      BY <1>1, <3>1 DEF Builds
    <3>2. Empty # None
      BY IndexAssumption
    <3> QED BY <1>3, <1>4, <1>5, <3>1, <3>2 DEF Searchable, Progress
  <2>6. /\ \A d \in Docs \ {at} : d \in torn' <=> d \in torn
        /\ ~r.clean => torn' = torn
    BY <2>1 DEF TornAfter
  <2> QED BY <1>1, <1>3, <1>4, <2>2, <2>3, <2>4, <2>5, <2>6, PassKeeps
<1>6. CASE r.file.body # Empty
  <2> DEFINE new == [r EXCEPT !.stage = "embed"]
  <2>1. BuildStep(b, new) /\ torn' = torn
    BY SMTT(30), <1>6 DEF DeleteChunks
  <2>2. new \in Builds /\ AtWork(new)
    BY <1>1, <1>6, NextStages
  <2>3. new.stage = "embed" /\ new.at = at /\ new.clean = r.clean /\ new.mode = r.mode
        /\ new.file = r.file /\ new.model = m
    BY <1>1 DEF Builds
  <2> HIDE DEF new
  <2>4. build'[b] = new /\ \A c \in Builders \ {b} : Quieter(c)
    BY <1>0, <2>1, <2>2, OneBuildSteps DEF BuildStep
  <2>5. Indexing(b, at)' /\ ~Dropping(b)' /\ \A d \in Docs \ {at} : ~Indexing(b, d)'
    BY <2>3, <2>4 DEF Indexing, Dropping
  <2>6. Progress(b, at) => Progress(b, at)'
    BY <1>1, <1>3, <1>4, <2>3, <2>4 DEF Progress
  <2> QED BY <1>1, <1>3, <1>4, <2>1, <2>3, <2>4, <2>5, <2>6, PassKeeps
<1> QED BY <1>5, <1>6

LEMMA InsertKeeps ==
  ASSUME KGInv, NEW b \in Builders, InsertChunks(b)
  PROVE  \A d \in Docs : DocInv(d)'
<1> PICK at : at = build[b].at
  OBVIOUS
<1> PICK m : m = build[b].model
  OBVIOUS
<1> DEFINE r == build[b]
<1>0. KGShapes
  BY DEF KGInv
<1>1. /\ r \in Builds /\ AtWork(r) /\ at \in Docs /\ r.file \in Files
      /\ r.mode \in Modes \ {"drop"} /\ Indexing(b, at) /\ r.stage = "embed"
      /\ m \in Models /\ r.file.body # Empty
  BY <1>0, WorkingBuild DEF InsertChunks, AtWork
<1>2. chunk' = [chunk EXCEPT ![at] = [chunk[at] EXCEPT ![m] = r.file.body]]
  BY DEF InsertChunks
<1>3. chunk'[at][m] = r.file.body /\ \A d \in Docs \ {at} : chunk'[d] = chunk[d]
  <2>1. chunk[at] \in [Models -> Bodies \cup {None}]
    BY <1>0, <1>1 DEF KGShapes
  <2> QED BY <1>0, <1>1, <1>2, <2>1 DEF KGShapes
<1>4. node' = node /\ edges' = edges /\ \A d : From(d)' = From(d)
  BY DEF InsertChunks, From
<1>5. BuildStep(b, Settled(r)) /\ torn' = TornAfter(r)
  BY DEF InsertChunks
<1>6. build'[b] = Settled(r) /\ \A c \in Builders \ {b} : Quieter(c)
  BY <1>0, <1>1, <1>5, SettledFields, OneBuildSteps DEF BuildStep
<1>7. ~Dropping(b)' /\ \A d \in Docs : ~Indexing(b, d)'
  BY <1>1, <1>6, SettledFields DEF Dropping, Indexing
<1>8. Progress(b, at) => Linked(at)'
  <2> SUFFICES ASSUME Progress(b, at) PROVE Linked(at)'
    OBVIOUS
  <2>1. Linked(at)
    BY <1>0, <1>1, WantedIsLinked DEF Progress
  <2> QED BY <1>4, <2>1 DEF Linked, LinkEdges, From
<1>9. Progress(b, at) => Searchable(at)'
  <2>1. ASSUME NEW k \in Models, Embedders = {k}
        PROVE  k = m
    BY <1>1, <2>1 DEF Builds
  <2>2. r.file.body # None
    BY <1>1, IndexAssumption DEF Files
  <2> QED BY <1>1, <1>3, <1>4, <2>1, <2>2 DEF Searchable, Progress
<1>10. /\ \A d \in Docs \ {at} : d \in torn' <=> d \in torn
       /\ ~r.clean => torn' = torn
  BY <1>5 DEF TornAfter
<1> QED BY <1>1, <1>3, <1>4, <1>6, <1>7, <1>8, <1>9, <1>10, PassKeeps

LEMMA LoseKeeps ==
  ASSUME KGInv, NEW b \in Builders, LoseEdge(b)
  PROVE  \A d \in Docs : DocInv(d)'
<1> PICK at : at = build[b].at
  OBVIOUS
<1> DEFINE r == build[b]
<1>0. KGShapes
  BY DEF KGInv
<1>1. /\ r \in Builds /\ AtWork(r) /\ at \in Docs /\ Indexing(b, at) /\ r.stage = "edges"
  BY <1>0, WorkingBuild DEF LoseEdge
<1>2. PICK P \in SUBSET r.pending :
        build' = [build EXCEPT ![b] = [r EXCEPT !.pending = P, !.clean = FALSE,
                                                !.quiet = FALSE]]
  <2>1. PICK e \in r.pending :
          build' = [build EXCEPT ![b] = [r EXCEPT !.pending = r.pending \ {e},
                                                  !.clean = FALSE, !.quiet = FALSE]]
    BY DEF LoseEdge
  <2>2. r.pending \ {e} \in SUBSET r.pending
    OBVIOUS
  <2> QED BY <2>1, <2>2
<1> DEFINE new == [r EXCEPT !.pending = P, !.clean = FALSE, !.quiet = FALSE]
<1>3. new \in Builds /\ AtWork(new)
  BY <1>1, NextStages
<1>4. new.stage = "edges" /\ new.at = at /\ ~new.clean
  BY <1>1 DEF Builds
<1>5. build' = [build EXCEPT ![b] = new]
  BY <1>2
<1> HIDE DEF new
<1>6. build'[b] = new /\ \A c \in Builders \ {b} : Quieter(c)
  BY <1>0, <1>3, <1>5, OneBuildAlone
<1>7. Indexing(b, at)' /\ ~Dropping(b)' /\ \A d \in Docs \ {at} : ~Indexing(b, d)'
  BY <1>4, <1>6 DEF Indexing, Dropping
<1>8. /\ node' = node /\ chunk' = chunk /\ edges' = edges /\ torn' = torn \cup {at}
      /\ \A d : From(d)' = From(d)
  BY DEF LoseEdge, From
<1> QED BY <1>1, <1>4, <1>6, <1>7, <1>8, PassKeeps

LEMMA FailureKeeps ==
  ASSUME KGInv, NEW b \in Builders, StatementFails(b)
  PROVE  \A d \in Docs : DocInv(d)'
<1> PICK at : at = build[b].at
  OBVIOUS
<1> DEFINE r == build[b]
<1>0. KGShapes
  BY DEF KGInv
<1>1. PICK n : n = build'[b]
  OBVIOUS
<1>2. /\ r \in Builds /\ AtWork(r) /\ r.stage \in {"node", "clear", "chunks", "embed"}
      /\ n \in Builds \cup {NoBuild}
      /\ n \in Builds => /\ ~n.clean /\ n.stage \in {"choose", "edges", "embed"}
                         /\ n.stage # "choose" => n.at = at
                         /\ r.stage = "node" => n.stage = "choose"
      /\ build' = [build EXCEPT ![b] = n]
  BY <1>0, <1>1, FailedStatement
<1>3. \A c \in Builders \ {b} : Quieter(c)
  BY <1>2 DEF Quieter
<1>4. ~Dropping(b)' /\ (\A d \in Docs \ {at} : ~Indexing(b, d)')
      /\ (Indexing(b, at)' => ~build'[b].clean) /\ (r.stage = "node" => ~Indexing(b, at)')
  BY <1>1, <1>2 DEF Dropping, Indexing, NoBuild
<1>5. /\ node' = node /\ chunk' = chunk /\ edges' = edges
      /\ torn' = IF r.stage = "node" THEN torn ELSE torn \cup {at}
      /\ \A d : From(d)' = From(d)
  BY DEF StatementFails, From
<1>6. CASE r.stage = "node"
  <2>1. \A d \in Docs : ~Busy(b, d) /\ ~Busy(b, d)'
    BY <1>2, <1>4, <1>6 DEF Busy, Indexing, Dropping
  <2> QED BY <1>3, <1>5, <1>6, <2>1, NobodyActs
<1>7. CASE r.stage # "node"
  <2>1. Indexing(b, at) /\ at \in Docs
    BY <1>2, <1>7 DEF Indexing, AtWork
  <2> QED BY <1>2, <1>3, <1>4, <1>5, <1>7, <2>1, PassKeeps
<1> QED BY <1>6, <1>7

\* Whoever else is at work on a document knows that it is not alone.
LEMMA OthersAreUnclean ==
  ASSUME KGInv, NEW b \in Builders, NEW c \in Builders \ {b}, NEW d \in Docs,
         Busy(b, d), Indexing(c, d)
  PROVE  d \in torn /\ ~build[c].clean
BY DEF KGInv, DocInv, Busy

LEMMA CrashKeeps ==
  ASSUME KGInv, NEW b \in Builders, Crash(b)
  PROVE  \A d \in Docs : DocInv(d)'
<1> SUFFICES ASSUME NEW d \in Docs PROVE DocInv(d)'
  OBVIOUS
<1>0. KGShapes /\ DocInv(d)
  BY DEF KGInv
<1>1. /\ build' = [build EXCEPT ![b] = NoBuild]
      /\ torn' = torn \cup {e \in Docs : Busy(b, e)}
      /\ node' = node /\ chunk' = chunk /\ From(d)' = From(d)
  BY DEF Crash, From
<1>2. build'[b] = NoBuild /\ \A c \in Builders \ {b} : build'[c] = build[c] /\ Quieter(c)
  BY <1>0, <1>1 DEF KGShapes, Quieter
<1>3. ~Busy(b, d)'
  BY <1>2 DEF Busy, Indexing, Dropping, NoBuild
<1>4. CASE Busy(b, d)
  <2>1. \A c \in Builders : Indexing(c, d)' => ~build'[c].clean
    BY <1>2, <1>3, <1>4, OthersAreUnclean DEF Busy, Indexing
  <2> QED BY <1>1, <1>4, <2>1, TornIsFine
<1>5. CASE ~Busy(b, d)
  BY <1>0, <1>1, <1>2, <1>3, <1>5, Elsewhere
<1> QED BY <1>4, <1>5

LEMMA DropNodesKeeps ==
  ASSUME KGInv, NEW b \in Builders, DropNodes(b)
  PROVE  \A d \in Docs : DocInv(d)'
<1> SUFFICES ASSUME NEW d \in Docs PROVE DocInv(d)'
  OBVIOUS
<1>0. KGShapes
  BY DEF KGInv
<1>1. /\ build[b] = NoBuild /\ node'[d] = None
      /\ torn' = torn \cup {e \in Docs : \E c \in Builders : Busy(c, e)}
      /\ build'[b].stage = "drop_edges"
      /\ \A c \in Builders \ {b} :
           build'[c] = IF \E e \in Docs : Busy(c, e)
                         THEN [Noisy(c) EXCEPT !.clean = FALSE] ELSE Noisy(c)
  BY DEF DropNodes
<1>2. Dropping(b)' /\ ~Indexing(b, d)' /\ ~Busy(b, d)
  BY <1>1 DEF Dropping, Indexing, Busy, NoBuild
<1>3. ASSUME NEW c \in Builders \ {b}
      PROVE  (Busy(c, d)' => Busy(c, d)) /\ (Indexing(c, d)' => ~build'[c].clean)
  <2>1. CASE \E e \in Docs : Busy(c, e)
    <3>1. build'[c] = [Noisy(c) EXCEPT !.clean = FALSE]
      BY <1>1, <2>1
    <3>2. build[c] \in Builds \cup Drops
      BY <1>0, <2>1 DEF Busy, Indexing, Dropping, NoBuild, KGShapes
    <3>3. Noisy(c) \in Builds \cup Drops /\ Noisy(c).stage = build[c].stage
          /\ (build[c] \in Builds => Noisy(c) \in Builds /\ Noisy(c).at = build[c].at)
      <4>1. CASE Noisy(c) = build[c]
        BY <3>2, <4>1
      <4>2. CASE build[c] \in Builds /\ Noisy(c) = [build[c] EXCEPT !.quiet = FALSE]
        BY <4>2 DEF Builds
      <4> QED BY <1>0, <4>1, <4>2, NoisyIsQuieter
    <3>4. CASE build[c] \in Builds
      <4>1. /\ build'[c].stage = build[c].stage /\ build'[c].at = build[c].at
            /\ ~build'[c].clean
        BY <3>1, <3>3, <3>4 DEF Builds
      <4> QED BY <4>1 DEF Busy, Indexing, Dropping
    <3>5. CASE build[c] \in Drops
      <4>1. Dropping(c) /\ build'[c].stage = build[c].stage
        BY <3>1, <3>3, <3>5, <1>0, BuildIsOne DEF Builds, Drops
      <4> QED BY <4>1 DEF Busy, Indexing, Dropping
    <3> QED BY <3>2, <3>4, <3>5
  <2>2. CASE ~\E e \in Docs : Busy(c, e)
    <3>1. Quieter(c)
      BY <1>0, <1>1, <2>2, NoisyIsQuieter DEF Quieter
    <3> QED BY <1>0, <2>2, <3>1, QuieterIsSame DEF Busy
  <2> QED BY <2>1, <2>2
<1>4. CASE \E c \in Builders : Busy(c, d)
  BY <1>1, <1>2, <1>3, <1>4, TornIsFine
<1>5. CASE ~\E c \in Builders : Busy(c, d)
  BY <1>1, <1>2, <1>3, <1>5, Lonely DEF Busy
<1> QED BY <1>4, <1>5

LEMMA DropKeeps ==
  ASSUME KGInv, NEW b \in Builders, DropEdges(b) \/ DropChunks(b)
  PROVE  \A d \in Docs : DocInv(d)'
<1> SUFFICES ASSUME NEW d \in Docs PROVE DocInv(d)'
  OBVIOUS
<1>0. KGShapes /\ DocInv(d)
  BY DEF KGInv
<1>1. PICK n : /\ BuildStep(b, n) /\ n \in Drops \cup {NoBuild}
               /\ DropEdges(b) => n.stage = "drop_chunks"
               /\ DropChunks(b) => n.stage = "none"
               /\ node' = node /\ torn' = torn /\ Dropping(b)
               /\ DropChunks(b) => build[b].stage = "drop_chunks" /\ edges' = edges
  <2>1. CASE DropEdges(b)
    <3>1. build[b] \in Drops
      BY <1>0, <2>1, BuildIsOne DEF DropEdges
    <3>2. [build[b] EXCEPT !.stage = "drop_chunks"] \in Drops
          /\ [build[b] EXCEPT !.stage = "drop_chunks"].stage = "drop_chunks"
      BY <3>1 DEF Drops
    <3>3. ~DropChunks(b) /\ Dropping(b)
      BY <2>1 DEF DropEdges, DropChunks, Dropping
    <3> QED BY <2>1, <3>2, <3>3 DEF DropEdges
  <2>2. CASE DropChunks(b)
    BY <2>2 DEF DropEdges, DropChunks, Dropping, NoBuild
  <2> QED BY <2>1, <2>2
<1>2. n \notin Builds
  BY <1>1 DEF Drops, NoBuild, Builds
<1>3. build'[b] = n /\ \A c \in Builders \ {b} : Quieter(c)
  BY <1>0, <1>1, <1>2, OneBuildSteps DEF BuildStep
<1>4. ~Indexing(b, d)' /\ (Dropping(b)' <=> DropEdges(b))
      /\ (DropEdges(b) => build'[b].stage = "drop_chunks")
  BY <1>1, <1>3 DEF Indexing, Dropping
<1>5. Busy(b, d)
  BY <1>1 DEF Busy
<1>6. CASE d \in torn
  <2>1. \A c \in Builders \ {b} : Indexing(c, d)' => ~build'[c].clean
    BY <1>0, <1>3, <1>5, OthersAreUnclean, QuieterIsSame DEF SameFor
  <2> QED BY <1>1, <1>4, <1>6, <2>1, TornIsFine
<1>7. CASE d \notin torn
  <2>1. \A c \in Builders \ {b} : ~Busy(c, d)'
    BY <1>0, <1>3, <1>5, <1>7, QuieterIsSame DEF DocInv
  <2>2. node'[d] = None /\ From(d)' = {}
    <3>1. node[d] = None /\ (build[b].stage = "drop_chunks" => From(d) = {})
      BY <1>0, <1>1, <1>7 DEF DocInv
    <3>2. From(d)' = {}
      <4>1. CASE DropEdges(b)
        BY <4>1 DEF DropEdges, From
      <4>2. CASE DropChunks(b)
        BY <1>1, <3>1, <4>2 DEF From
      <4> QED BY <4>1, <4>2
    <3> QED BY <1>1, <3>1, <3>2
  <2>3. Linked(d)'
    BY <2>2 DEF Linked
  <2>4. DropChunks(b) => Searchable(d)'
    <3>1. None # Empty
      BY IndexAssumption
    <3>2. DropChunks(b) => \A m \in Models : chunk'[d][m] = None
      BY DEF DropChunks
    <3> QED BY <2>2, <3>1, <3>2 DEF Searchable
  <2> QED BY <1>1, <1>4, <2>1, <2>2, <2>3, <2>4, Lonely DEF Busy
<1> QED BY <1>6, <1>7

\* Every step of every command, and every edit, keeps the invariant.
LEMMA KGInvStep == KGInv /\ [Next]_kgVars => KGInv'
<1> SUFFICES ASSUME KGInv, [Next]_kgVars PROVE \A d \in Docs : DocInv(d)'
  BY KGShapesStep DEF KGInv
<1>0. KGShapes
  BY DEF KGInv
<1>1. ASSUME NEW b \in Builders, NEW mode \in Modes \ {"drop"}, NEW model \in Embedders,
             NEW force \in BOOLEAN, StartBuild(b, mode, model, force)
      PROVE  \A d \in Docs : DocInv(d)'
  <2>1. PICK n : build' = [build EXCEPT ![b] = n] /\ n.stage = "choose"
    BY <1>0, <1>1, Started
  <2>2. \A c \in Builders \ {b} : Quieter(c)
    BY <2>1 DEF Quieter
  <2>3. build'[b] = n
    BY <1>0, <2>1 DEF KGShapes
  <2>4. \A d \in Docs : ~Busy(b, d) /\ ~Busy(b, d)'
    BY <1>1, <2>1, <2>3 DEF StartBuild, Busy, Indexing, Dropping, NoBuild
  <2> QED BY <1>1, <2>2, <2>4, NobodyActs DEF StartBuild
<1>2. ASSUME NEW b \in Builders, NEW p \in Paths, LoadDoc(b, p) \/ Consider(b, p)
      PROVE  \A d \in Docs : DocInv(d)'
  <2>1. /\ build[b].stage = "choose" /\ build'[b].stage \in {"choose", "node"}
        /\ \A c \in Builders \ {b} : build'[c] = build[c]
    <3>1. build[b].stage = "choose" /\ build'[b].stage \in {"choose", "node"}
      BY <1>0, <1>2, Considered, DocLoaded
    <3>2. \A c \in Builders \ {b} : build'[c] = build[c]
      BY <1>0, <1>2 DEF Consider, LoadDoc, KGShapes
    <3> QED BY <3>1, <3>2
  <2>2. \A c \in Builders \ {b} : Quieter(c)
    BY <2>1 DEF Quieter
  <2>3. \A d \in Docs : ~Busy(b, d) /\ ~Busy(b, d)'
    BY <2>1 DEF Busy, Indexing, Dropping
  <2> QED BY <1>2, <2>2, <2>3, NobodyActs DEF Consider, LoadDoc
<1>3. ASSUME NEW b \in Builders, Finish(b)
      PROVE  \A d \in Docs : DocInv(d)'
  <2>1. /\ build[b].stage = "choose" /\ build'[b] = NoBuild
        /\ \A c \in Builders \ {b} : build'[c] = build[c]
    BY <1>0, <1>3 DEF Finish, KGShapes
  <2>2. \A c \in Builders \ {b} : Quieter(c)
    BY <2>1 DEF Quieter
  <2>3. \A d \in Docs : ~Busy(b, d) /\ ~Busy(b, d)'
    BY <2>1 DEF Busy, Indexing, Dropping, NoBuild
  <2> QED BY <1>3, <2>2, <2>3, NobodyActs DEF Finish
<1>4. ASSUME NEW p \in Paths, NEW f \in Files \cup {None, Garbled}, EditDoc(p, f)
      PROVE  \A e \in Docs : DocInv(e)'
  <2>1. \A c \in Builders : build'[c] = Noisy(c)
    BY <1>4 DEF EditDoc
  <2>2. \A c \in Builders : Quieter(c)
    BY <1>0, <2>1, NoisyIsQuieter DEF Quieter
  <2> QED BY <1>4, <2>2, NobodyActs DEF EditDoc
<1>5. CASE UNCHANGED kgVars
  <2>1. \A c \in Builders : Quieter(c)
    BY <1>5 DEF kgVars, Quieter
  <2> QED BY <1>5, <2>1, NobodyActs DEF kgVars
<1> QED
  BY <1>1, <1>2, <1>3, <1>4, <1>5, UpsertKeeps, ClearKeeps, AddKeeps, EdgesDoneKeeps,
     DeleteKeeps, InsertKeeps, LoseKeeps, FailureKeeps, CrashKeeps, DropNodesKeeps,
     DropKeeps DEF Next, BuilderStep

THEOREM KGInvAlways == Spec => []KGInv
<1> QED BY KGInvInit, KGInvStep, PTL DEF Spec

\* Every variable of the index keeps its type, whatever commands overlap, fail
\* or are killed.
THEOREM KGTypeCorrect == Spec => []KGTypeOK
<1>1. KGInv => KGTypeOK
  <2> SUFFICES ASSUME KGInv PROVE KGTypeOK
    OBVIOUS
  <2>1. KGShapes
    BY DEF KGInv
  <2>2. ASSUME NEW b \in Builders,
               build[b].stage \in {"choose", "node", "clear", "edges", "chunks", "embed"}
        PROVE  /\ build[b].mode \in Modes \ {"drop"}
               /\ build[b].todo \subseteq Paths /\ build[b].unread \subseteq Paths
               /\ build[b].at \in Docs \cup {None}
               /\ build[b].pending \subseteq Docs \X Docs \X Types
    BY <2>1, <2>2, BuildIsOne DEF Builds
  <2> QED BY <2>1, <2>2 DEF KGTypeOK, KGShapes
<1> QED BY <1>1, KGInvAlways, PTL

\* A document that passes for up to date has exactly the links of the body it
\* was indexed with, for any number of commands that overlap, lose statements
\* and die, unless the last pass over it was one of those.
THEOREM FreshAlwaysLinked == Spec => []FreshIsLinked
<1>1. KGInv => FreshIsLinked
  <2> SUFFICES ASSUME KGInv, NEW d \in Docs \ torn, \A b \in Builders : ~Busy(b, d)
               PROVE  IF node[d] = None THEN {e \in edges : e[1] = d} = {}
                      ELSE LinkEdges(d) = Links(d, node[d])
    BY DEF FreshIsLinked
  <2>1. Linked(d)
    BY DEF KGInv, DocInv
  <2> QED BY <2>1 DEF Linked, From
<1> QED BY <1>1, KGInvAlways, PTL

\* With one embedder, the chunks that semantic search finds of such a document
\* are those of the body it was indexed with.
THEOREM FreshAlwaysSearchable == Spec => []FreshIsSearchable
<1>1. KGInv => FreshIsSearchable
  <2> SUFFICES ASSUME KGInv PROVE FreshIsSearchable
    OBVIOUS
  <2>1. \A d \in Docs \ torn : (\A b \in Builders : ~Busy(b, d)) => Searchable(d)
    BY DEF KGInv, DocInv
  <2> QED BY <2>1 DEF FreshIsSearchable, Searchable
<1> QED BY <1>1, KGInvAlways, PTL
-----------------------------------------------------------------------------

\* What an undisturbed build has done with a document: it has indexed it from a
\* file that bears its name.
DoneFrom(b, d, f) ==
  LET r == build[b] IN
  /\ node[d] = f.body
  /\ (r.mode = "crawl" /\ r.force) =>
       /\ From(d) = EdgesOf(r.mode, d, f)
       /\ (r.model # None /\ f.body # Empty) => chunk[d][r.model] = f.body
DoneWith(b, d) == \E p \in Readable(build[b].mode, d) : DoneFrom(b, d, file[p])

\* Undisturbed, a build has the files to do as they are on disk, is done with
\* the documents of the others, and has come with the one at hand as far as its
\* stage says.
OnTrack(b) ==
  LET r == build[b]
      wanted == EdgesOf(r.mode, r.at, r.file) IN
  /\ r.todo \subseteq Scanned(r.mode)
  /\ \A p \in Scanned(r.mode) :
       IF p \in r.todo THEN r.mode = "schema" => EnsureLoaded(r.docs[p], file[p]) = file[p]
       ELSE file[p] \in Files =>
              (r.stage # "choose" /\ IdOf[p] = r.at) \/ DoneWith(b, IdOf[p])
  /\ r.stage # "choose" => /\ \E p \in Readable(r.mode, r.at) : file[p] = r.file
                           /\ r.stage # "node" => node[r.at] = r.file.body
  /\ r.stage = "edges" => From(r.at) = wanted \ r.pending
  /\ r.stage \in {"chunks", "embed"} => From(r.at) = wanted

Quiet(b) == build[b] \in Builds /\ build[b].quiet
QuietInv == \A b \in Builders : Quiet(b) => OnTrack(b)

\* Another's step: whoever stays quiet has been left alone.
Bystands(b) ==
  Quiet(b)' => build'[b] = build[b] /\ UNCHANGED <<file, node, edges, chunk>>

LEMMA BystanderOnTrack ==
  ASSUME NEW b \in Builders, Bystands(b), Quiet(b) => OnTrack(b)
  PROVE  Quiet(b)' => OnTrack(b)'
BY DEF Bystands, Quiet, OnTrack, DoneWith, DoneFrom, Readable, From

LEMMA NoisyIsNotQuiet ==
  ASSUME KGShapes, NEW b \in Builders
  PROVE  ~(Noisy(b) \in Builds /\ Noisy(b).quiet)
<1>1. CASE build[b] = NoBuild \/ Dropping(b)
  <2>1. Noisy(b) = build[b]
    BY <1>1 DEF Noisy
  <2> QED BY <1>1, <2>1, BuildIsOne DEF Dropping, Builds, NoBuild
<1>2. CASE build[b] # NoBuild /\ ~Dropping(b)
  <2>1. build[b] \in Builds
    BY <1>2, BuildIsOne DEF KGShapes
  <2>2. Noisy(b) = [build[b] EXCEPT !.quiet = FALSE]
    BY <1>2 DEF Noisy
  <2> QED BY <2>1, <2>2 DEF Builds
<1> QED BY <1>1, <1>2

\* Whoever is not the one to act is left alone or is no longer quiet.
LEMMA Bystanders ==
  ASSUME KGShapes, NEW b \in Builders, NEW c \in Builders \ {b},
         \/ \E mode \in Modes \ {"drop"}, model \in Embedders, force \in BOOLEAN :
              StartBuild(c, mode, model, force)
         \/ DropNodes(c) \/ BuilderStep(c)
         \/ LoseEdge(c) \/ StatementFails(c) \/ Crash(c)
  PROVE  Bystands(b)
<1>1. CASE \/ \E mode \in Modes \ {"drop"}, model \in Embedders, force \in BOOLEAN :
                StartBuild(c, mode, model, force)
           \/ \E p \in Paths : LoadDoc(c, p) \/ Consider(c, p)
           \/ EdgesDone(c) \/ Finish(c) \/ LoseEdge(c) \/ StatementFails(c) \/ Crash(c)
  <2>1. build'[b] = build[b]
    <3>1. \A n : build' = [build EXCEPT ![c] = n] => build'[b] = build[b]
      BY DEF KGShapes
    <3>2. \A n : build' = [build EXCEPT ![c].stage = n] => build'[b] = build[b]
      BY DEF KGShapes
    <3>3. ASSUME NEW mode, NEW model, NEW force, StartBuild(c, mode, model, force)
          PROVE  build'[b] = build[b]
      <4>1. PICK n : build' = [build EXCEPT ![c] = n]
        BY <3>3 DEF StartBuild
      <4> QED BY <3>1, <4>1
    <3>4. ASSUME NEW p \in Paths, LoadDoc(c, p) \/ Consider(c, p)
          PROVE  build'[b] = build[b]
      <4>1. PICK n : build' = [build EXCEPT ![c] = n]
        BY <3>4 DEF Consider, LoadDoc
      <4> QED BY <3>1, <4>1
    <3>5. CASE EdgesDone(c)
      BY <3>1, <3>2, <3>5 DEF EdgesDone
    <3>6. CASE Finish(c) \/ Crash(c)
      BY <3>1, <3>6 DEF Finish, Crash
    <3>7. CASE LoseEdge(c)
      <4>1. PICK n : build' = [build EXCEPT ![c] = n]
        BY <3>7 DEF LoseEdge
      <4> QED BY <3>1, <4>1
    <3>8. CASE StatementFails(c)
      BY <3>1, <3>8, FailedStatement
    <3> QED BY <1>1, <3>3, <3>4, <3>5, <3>6, <3>7, <3>8
  <2> QED BY <1>1, <2>1 DEF StartBuild, LoadDoc, Consider, EdgesDone, Finish, LoseEdge,
                            StatementFails, Crash, Bystands
<1>2. CASE RemoveEdgesForDoc(c) \/ AddEdge(c) \/ DeleteChunks(c) \/ InsertChunks(c)
           \/ DropEdges(c) \/ DropChunks(c)
  <2>1. \E new : BuildStep(c, new)
    BY <1>2 DEF RemoveEdgesForDoc, AddEdge, DeleteChunks, InsertChunks, DropEdges, DropChunks
  <2>2. build'[b] = Noisy(b)
    BY <2>1 DEF BuildStep
  <2> QED BY <2>2, NoisyIsNotQuiet DEF Bystands, Quiet
<1>3. CASE UpsertNode(c)
  <2> DEFINE at == build[c].at
  <2>1. CASE Indexing(b, at)
    <3>1. build'[b] = [build[b] EXCEPT !.clean = FALSE, !.quiet = FALSE]
      BY <1>3, <2>1 DEF UpsertNode
    <3>2. build[b] \in Builds
      BY <2>1, BuildIsOne DEF Indexing
    <3> QED BY <3>1, <3>2 DEF Bystands, Quiet, Builds
  <2>2. CASE ~Indexing(b, at)
    <3>1. build'[b] = Noisy(b)
      BY <1>3, <2>2 DEF UpsertNode
    <3> QED BY <3>1, NoisyIsNotQuiet DEF Bystands, Quiet
  <2> QED BY <2>1, <2>2
<1>4. CASE DropNodes(c)
  <2>1. CASE \E d \in Docs : Busy(b, d)
    <3>1. build'[b] = [Noisy(b) EXCEPT !.clean = FALSE]
      BY <1>4, <2>1 DEF DropNodes
    <3>2. build[b] # NoBuild
      BY <2>1 DEF Busy, Indexing, Dropping, NoBuild
    <3>3. CASE build[b] \in Builds
      <4>1. Noisy(b) = [build[b] EXCEPT !.quiet = FALSE]
        BY <3>3, BuildIsOne DEF Noisy
      <4> QED BY <3>1, <3>3, <4>1 DEF Bystands, Quiet, Builds
    <3>4. CASE build[b] \in Drops
      <4>1. Noisy(b) = build[b]
        BY <3>4, BuildIsOne DEF Noisy
      <4> QED BY <3>1, <3>4, <4>1 DEF Bystands, Quiet, Builds, Drops
    <3> QED BY <3>2, <3>3, <3>4 DEF KGShapes
  <2>2. CASE ~\E d \in Docs : Busy(b, d)
    <3>1. build'[b] = Noisy(b)
      BY <1>4, <2>2 DEF DropNodes
    <3> QED BY <3>1, NoisyIsNotQuiet DEF Bystands, Quiet
  <2> QED BY <2>1, <2>2
<1> QED BY SMTT(30), <1>1, <1>2, <1>3, <1>4 DEF BuilderStep

LEMMA StartOnTrack ==
  ASSUME KGShapes, NEW b \in Builders, NEW mode \in Modes \ {"drop"},
         NEW model \in Embedders, NEW force \in BOOLEAN, StartBuild(b, mode, model, force)
  PROVE  OnTrack(b)'
<1> DEFINE n == build'[b]
<1>1. /\ n.stage = "choose" /\ n.mode = mode
      /\ n.todo = {p \in Scanned(mode) : file[p] # None}
      /\ mode = "schema" => \A p \in n.todo :
           file[p] \in Files /\ n.docs[p] = [NoDoc EXCEPT !.refs = file[p].refs]
  BY Started
<1>2. file' = file
  BY DEF StartBuild
<1>3. None \notin Files
  BY FilesAssumption
<1>4. \A p \in n.todo : mode = "schema" => EnsureLoaded(n.docs[p], file[p]) = file[p]
  <2> SUFFICES ASSUME NEW p \in n.todo, mode = "schema"
               PROVE  EnsureLoaded(n.docs[p], file[p]) = file[p]
    OBVIOUS
  <2>1. PICK f \in Files : f = file[p]
    BY <1>1
  <2>2. [NoDoc EXCEPT !.refs = f.refs].body = None
    BY DEF NoDoc
  <2>3. [[NoDoc EXCEPT !.refs = f.refs] EXCEPT !.body = f.body] = f
    BY DEF NoDoc, Files
  <2>4. n.docs[p] = [NoDoc EXCEPT !.refs = f.refs]
    BY <1>1, <2>1
  <2>5. EnsureLoaded([NoDoc EXCEPT !.refs = f.refs], f) = f
    BY <2>2, <2>3 DEF EnsureLoaded
  <2> QED BY <2>1, <2>4, <2>5
<1>5. ASSUME NEW p \in Scanned(mode)
      PROVE  IF p \in n.todo
               THEN mode = "schema" => EnsureLoaded(n.docs[p], file[p]) = file[p]
               ELSE file[p] \notin Files
  BY <1>1, <1>3, <1>4
<1> QED BY <1>1, <1>2, <1>5 DEF OnTrack

LEMMA LoadOnTrack ==
  ASSUME KGShapes, NEW b \in Builders, NEW p \in Paths, LoadDoc(b, p), OnTrack(b)
  PROVE  OnTrack(b)'
<1> DEFINE r == build[b]
           n == build'[b]
<1>1. /\ r \in Builds /\ r.stage = "choose" /\ n.stage = "choose" /\ n.todo = r.todo
      /\ n.docs = [r.docs EXCEPT ![p] = EnsureLoaded(r.docs[p], file[p])]
      /\ n.mode = r.mode /\ n.model = r.model /\ n.force = r.force
  BY DocLoaded
<1>2. UNCHANGED <<file, node, edges, chunk>>
  BY DEF LoadDoc
<1>3. \A d \in Docs : DoneWith(b, d) => DoneWith(b, d)'
  BY <1>1, <1>2 DEF DoneWith, DoneFrom, Readable, From
<1>4. r.docs \in [Paths -> Loaded] /\ file[p] \in Files \cup {None, Garbled}
  BY <1>1 DEF Builds, KGShapes
<1>5. \A q \in Paths : EnsureLoaded(n.docs[q], file[q]) = EnsureLoaded(r.docs[q], file[q])
  BY <1>1, <1>4, EnsureLoadedFits
<1>6. r.todo \subseteq Paths /\ \A q \in Scanned(r.mode) : q \in Paths /\ IdOf[q] \in Docs
  BY <1>1, IndexAssumption DEF Builds, Scanned
<1>7. ASSUME NEW q \in Scanned(r.mode)
      PROVE  IF q \in r.todo
               THEN r.mode = "schema" => EnsureLoaded(n.docs[q], file[q]) = file[q]
               ELSE file[q] \in Files => DoneWith(b, IdOf[q])'
  BY <1>1, <1>3, <1>5, <1>6 DEF OnTrack
<1>8. r.todo \subseteq Scanned(r.mode)
  BY DEF OnTrack
<1> HIDE DEF n
<1>9. n = build'[b]
  BY DEF n
<1> QED BY <1>1, <1>2, <1>7, <1>8, <1>9 DEF OnTrack

LEMMA ConsiderOnTrack ==
  ASSUME KGShapes, NEW b \in Builders, NEW p \in Paths, Consider(b, p), OnTrack(b)
  PROVE  OnTrack(b)'
<1> DEFINE r == build[b]
           n == build'[b]
<1>0. PICK f : f = IF r.mode = "schema" THEN EnsureLoaded(r.docs[p], file[p]) ELSE file[p]
  OBVIOUS
<1>d. PICK d \in Docs : d = IdOf[p]
  BY IndexAssumption
<1>1. /\ r \in Builds /\ n \in Builds /\ r.stage = "choose" /\ p \in r.todo
      /\ n.todo = r.todo \ {p} /\ n.docs = [r.docs EXCEPT ![p] = NoDoc]
      /\ n.mode = r.mode /\ n.model = r.model /\ n.force = r.force
      /\ IF f \notin Files \/ Skips(b, d, f) THEN n.stage = "choose"
         ELSE n.stage = "node" /\ n.at = d /\ n.file = f
  BY <1>0, <1>d, Considered
<1>2. f = file[p] /\ p \in Scanned(r.mode)
  BY <1>0, <1>1 DEF OnTrack
<1>3. UNCHANGED <<file, node, edges, chunk>>
  BY DEF Consider
<1>4. \A e \in Docs : DoneWith(b, e) => DoneWith(b, e)'
  BY <1>1, <1>3 DEF DoneWith, DoneFrom, Readable, From
<1>5. \A q \in Paths \ {p} : n.docs[q] = r.docs[q]
  BY <1>1 DEF Builds
<1>6. f \in Files /\ Skips(b, d, f) => DoneWith(b, d)
  <2> SUFFICES ASSUME f \in Files, Skips(b, d, f) PROVE DoneWith(b, d)
    OBVIOUS
  <2>1. node[d] = file[p].body /\ (r.mode = "schema" \/ ~r.force)
    BY <1>2 DEF Skips, Sha
  <2>2. p \in Readable(r.mode, d)
    BY <1>d, <1>2 DEF Readable
  <2> QED BY <2>1, <2>2 DEF DoneWith, DoneFrom
<1>7. ASSUME NEW q \in Scanned(n.mode)
      PROVE  IF q \in n.todo
               THEN n.mode = "schema" => EnsureLoaded(n.docs[q], file'[q]) = file'[q]
               ELSE file'[q] \in Files =>
                      (n.stage # "choose" /\ IdOf[q] = n.at) \/ DoneWith(b, IdOf[q])'
  <2>0. q \in Paths /\ q \in Scanned(r.mode) /\ IdOf[q] \in Docs
    BY <1>1, IndexAssumption DEF Scanned
  <2>1. CASE q = p
    BY <1>d, <1>1, <1>2, <1>3, <1>4, <1>6, <2>1
  <2>2. CASE q # p
    <3>1. q \in n.todo <=> q \in r.todo
      BY <1>1, <2>2
    <3>2. q \notin r.todo /\ file[q] \in Files => DoneWith(b, IdOf[q])
      BY <1>1, <2>0 DEF OnTrack
    <3>3. q \in r.todo /\ r.mode = "schema" => EnsureLoaded(r.docs[q], file[q]) = file[q]
      BY <2>0 DEF OnTrack
    <3> QED BY <1>1, <1>3, <1>4, <1>5, <2>0, <2>2, <3>1, <3>2, <3>3
  <2> QED BY <2>1, <2>2
<1>8. n.stage # "choose" =>
        \E q \in Scanned(n.mode) : IdOf[q] = n.at /\ file'[q] \in Files /\ file'[q] = n.file
  BY <1>d, <1>1, <1>2, <1>3
<1>9. n.todo \subseteq Scanned(n.mode)
  BY <1>1 DEF OnTrack
<1> HIDE DEF n
<1>10. n = build'[b]
  BY DEF n
<1> QED BY <1>1, <1>7, <1>8, <1>9, <1>10 DEF OnTrack, Readable

\* The pass over the document at hand goes on: the documents it is through with
\* stay as they are.
LEMMA PassOnTrack ==
  ASSUME NEW b \in Builders, OnTrack(b), NEW at \in Docs, at = build[b].at,
         build[b].stage # "choose", file' = file,
         build'[b].todo = build[b].todo, build'[b].docs = build[b].docs,
         build'[b].mode = build[b].mode, build'[b].model = build[b].model,
         build'[b].force = build[b].force,
         \A d \in Docs \ {at} : /\ node'[d] = node[d] /\ chunk'[d] = chunk[d]
                                /\ From(d)' = From(d),
         \/ build'[b].stage = "choose" /\ DoneWith(b, at)'
         \/ /\ build'[b].stage # "choose" /\ build'[b].at = at
            /\ build'[b].file = build[b].file
            /\ build'[b].stage # "node" => node'[at] = build[b].file.body
            /\ build'[b].stage = "edges" =>
                 From(at)' = EdgesOf(build[b].mode, at, build[b].file) \ build'[b].pending
            /\ build'[b].stage \in {"chunks", "embed"} =>
                 From(at)' = EdgesOf(build[b].mode, at, build[b].file)
  PROVE  OnTrack(b)'
<1>1. \E p \in Readable(build[b].mode, at) : file[p] = build[b].file
  BY DEF OnTrack
<1>2. ASSUME NEW d \in Docs \ {at}, DoneWith(b, d)
      PROVE  DoneWith(b, d)'
  BY <1>2 DEF DoneWith, DoneFrom, Readable
<1>3. ASSUME NEW p \in Scanned(build[b].mode)
      PROVE  IF p \in build'[b].todo
               THEN build'[b].mode = "schema" =>
                      EnsureLoaded(build'[b].docs[p], file'[p]) = file'[p]
               ELSE file'[p] \in Files =>
                      \/ build'[b].stage # "choose" /\ IdOf[p] = build'[b].at
                      \/ DoneWith(b, IdOf[p])'
  <2>0. IdOf[p] \in Docs
    BY IndexAssumption DEF Scanned
  <2>1. CASE IdOf[p] = at
    BY <2>1 DEF OnTrack
  <2>2. CASE IdOf[p] # at
    BY <1>2, <2>0, <2>2 DEF OnTrack
  <2> QED BY <2>1, <2>2
<1>4. build'[b].todo \subseteq Scanned(build'[b].mode)
  BY DEF OnTrack
<1>5. CASE build'[b].stage = "choose"
  BY <1>3, <1>4, <1>5 DEF OnTrack
<1>6. CASE build'[b].stage # "choose"
  BY <1>1, <1>3, <1>4, <1>6 DEF OnTrack, From, Readable
<1> QED BY <1>5, <1>6

\* Each step of an undisturbed pass keeps it on track.
LEMMA UpsertOnTrack ==
  ASSUME KGShapes, NEW b \in Builders, UpsertNode(b), OnTrack(b)
  PROVE  OnTrack(b)'
<1> PICK at : at = build[b].at
  OBVIOUS
<1> DEFINE r == build[b]
<1>1. r \in Builds /\ AtWork(r) /\ r.stage = "node" /\ at \in Docs
  BY BuildIsOne DEF UpsertNode, AtWork
<1>2. PICK k \in BOOLEAN : build'[b] = [r EXCEPT !.stage = "clear", !.clean = k]
  BY DEF UpsertNode
<1>3. /\ build'[b].stage = "clear" /\ build'[b].at = at /\ build'[b].file = r.file
      /\ build'[b].todo = r.todo /\ build'[b].docs = r.docs /\ build'[b].mode = r.mode
      /\ build'[b].model = r.model /\ build'[b].force = r.force
  BY <1>1, <1>2 DEF Builds
<1>4. /\ file' = file /\ chunk' = chunk /\ edges' = edges
      /\ node'[at] = r.file.body /\ \A d \in Docs \ {at} : node'[d] = node[d]
      /\ \A d : From(d)' = From(d)
  BY <1>1 DEF UpsertNode, Sha, KGShapes, From
<1> QED BY <1>1, <1>3, <1>4, PassOnTrack

LEMMA ClearOnTrack ==
  ASSUME KGShapes, NEW b \in Builders, RemoveEdgesForDoc(b), OnTrack(b)
  PROVE  OnTrack(b)'
<1> PICK at : at = build[b].at
  OBVIOUS
<1> DEFINE r == build[b]
           wanted == EdgesOf(r.mode, at, r.file)
<1>1. r \in Builds /\ AtWork(r) /\ r.stage = "clear" /\ at \in Docs
  BY WorkingBuild DEF RemoveEdgesForDoc
<1>2. build'[b] = OpenEdges(r)
  BY DEF RemoveEdgesForDoc, BuildStep, OpenEdges
<1>3. /\ build'[b].stage = "edges" /\ build'[b].at = at /\ build'[b].file = r.file
      /\ build'[b].todo = r.todo /\ build'[b].docs = r.docs /\ build'[b].mode = r.mode
      /\ build'[b].model = r.model /\ build'[b].force = r.force
      /\ build'[b].pending = wanted
  <2>1. PICK w : w = wanted
    OBVIOUS
  <2>2. OpenEdges(r) = [r EXCEPT !.stage = "edges", !.pending = w]
    BY <2>1 DEF OpenEdges
  <2> HIDE DEF wanted
  <2> QED BY <1>1, <1>2, <2>1, <2>2 DEF Builds
<1>4. /\ file' = file /\ chunk' = chunk /\ node' = node
      /\ edges' = {e \in edges : e[1] # at}
  BY DEF RemoveEdgesForDoc
<1>5. From(at)' = {} /\ \A d \in Docs \ {at} : From(d)' = From(d)
  BY <1>4 DEF From
<1>6. node[at] = r.file.body
  BY <1>1 DEF OnTrack
<1> HIDE DEF wanted
<1>7. From(at)' = wanted \ build'[b].pending
  BY <1>3, <1>5
<1> USE DEF wanted
<1> QED BY <1>1, <1>3, <1>4, <1>5, <1>6, <1>7, PassOnTrack

LEMMA AddOnTrack ==
  ASSUME KGShapes, NEW b \in Builders, AddEdge(b), OnTrack(b)
  PROVE  OnTrack(b)'
<1> PICK at : at = build[b].at
  OBVIOUS
<1> DEFINE r == build[b]
           wanted == EdgesOf(r.mode, at, r.file)
<1>1. /\ r \in Builds /\ AtWork(r) /\ r.stage = "edges" /\ at \in Docs /\ r.file \in Files
      /\ r.mode \in Modes \ {"drop"}
  BY WorkingBuild DEF AddEdge
<1>2. PICK e \in r.pending : /\ edges' = edges \cup {e}
                             /\ BuildStep(b, [r EXCEPT !.pending = r.pending \ {e}])
  BY DEF AddEdge
<1>3. PICK P \in SUBSET r.pending : P = r.pending \ {e}
  OBVIOUS
<1>4. build'[b] = [r EXCEPT !.pending = P]
  BY <1>2, <1>3 DEF BuildStep
<1>5. /\ build'[b].stage = "edges" /\ build'[b].at = at /\ build'[b].file = r.file
      /\ build'[b].todo = r.todo /\ build'[b].docs = r.docs /\ build'[b].mode = r.mode
      /\ build'[b].model = r.model /\ build'[b].force = r.force
      /\ build'[b].pending = P
  BY <1>1, <1>4 DEF Builds
<1>6. file' = file /\ chunk' = chunk /\ node' = node
  BY DEF AddEdge
<1>7. e \in wanted /\ e[1] = at /\ r.pending \subseteq wanted
  BY <1>1, EdgesOfType DEF AtWork
<1>8. From(at)' = From(at) \cup {e} /\ \A d \in Docs \ {at} : From(d)' = From(d)
  BY <1>2, <1>7 DEF From
<1>9. From(at)' = wanted \ P /\ node[at] = r.file.body
  <2>1. From(at) = wanted \ r.pending /\ node[at] = r.file.body
    BY <1>1 DEF OnTrack
  <2> QED BY <1>3, <1>7, <1>8, <2>1
<1> QED BY <1>1, <1>5, <1>6, <1>8, <1>9, PassOnTrack

\* The end of the pass: nothing is left to do with the document at hand.
LEMMA EdgesDoneOnTrack ==
  ASSUME KGShapes, NEW b \in Builders, EdgesDone(b), OnTrack(b)
  PROVE  OnTrack(b)'
<1> PICK at : at = build[b].at
  OBVIOUS
<1> DEFINE r == build[b]
           wanted == EdgesOf(r.mode, at, r.file)
           leaves == r.model = None \/ (r.mode = "crawl" /\ r.file.body = Empty)
<1>1. /\ r \in Builds /\ AtWork(r) /\ r.stage = "edges" /\ r.pending = {} /\ at \in Docs
  BY WorkingBuild DEF EdgesDone
<1>2. /\ file' = file /\ chunk' = chunk /\ node' = node /\ \A d : From(d)' = From(d)
  BY DEF EdgesDone, From
<1>3. /\ From(at) = wanted /\ node[at] = r.file.body
      /\ \E p \in Readable(r.mode, at) : file[p] = r.file
  BY <1>1 DEF OnTrack
<1>4. CASE leaves
  <2>1. build'[b] = Settled(r)
    BY <1>4 DEF EdgesDone, KGShapes
  <2>2. /\ build'[b].stage = "choose" /\ build'[b].todo = r.todo /\ build'[b].docs = r.docs
        /\ build'[b].mode = r.mode /\ build'[b].model = r.model /\ build'[b].force = r.force
    BY <1>1, <2>1, SettledFields
  <2>3. DoneWith(b, at)'
    BY <1>2, <1>3, <1>4, <2>2 DEF DoneWith, DoneFrom, Readable
  <2> QED BY <1>1, <1>2, <2>2, <2>3, PassOnTrack
<1>5. CASE ~leaves
  <2>1. build'[b] = [r EXCEPT !.stage = "chunks"]
    BY <1>5 DEF EdgesDone, KGShapes
  <2>2. /\ build'[b].stage = "chunks" /\ build'[b].at = at /\ build'[b].file = r.file
        /\ build'[b].todo = r.todo /\ build'[b].docs = r.docs /\ build'[b].mode = r.mode
        /\ build'[b].model = r.model /\ build'[b].force = r.force
    BY <1>1, <2>1 DEF Builds
  <2> QED BY <1>1, <1>2, <1>3, <2>2, PassOnTrack
<1> QED BY <1>4, <1>5

LEMMA ChunksOnTrack ==
  ASSUME KGShapes, NEW b \in Builders, DeleteChunks(b) \/ InsertChunks(b), OnTrack(b)
  PROVE  OnTrack(b)'
<1> PICK at : at = build[b].at
  OBVIOUS
<1> PICK m : m = build[b].model
  OBVIOUS
<1> DEFINE r == build[b]
           wanted == EdgesOf(r.mode, at, r.file)
<1>1. /\ r \in Builds /\ AtWork(r) /\ r.stage \in {"chunks", "embed"} /\ at \in Docs
      /\ m \in Models
  BY WorkingBuild DEF DeleteChunks, InsertChunks, AtWork
<1>2. /\ file' = file /\ node' = node /\ edges' = edges /\ \A d : From(d)' = From(d)
  BY DEF DeleteChunks, InsertChunks, From
<1>3. /\ From(at) = wanted /\ node[at] = r.file.body
      /\ \E p \in Readable(r.mode, at) : file[p] = r.file
  BY <1>1 DEF OnTrack
<1>4. PICK x : chunk' = [chunk EXCEPT ![at] = [chunk[at] EXCEPT ![m] = x]]
               /\ (InsertChunks(b) => x = r.file.body)
  BY DEF DeleteChunks, InsertChunks
<1>5. chunk'[at][m] = x /\ \A d \in Docs \ {at} : chunk'[d] = chunk[d]
  <2>1. chunk[at] \in [Models -> Bodies \cup {None}]
    BY <1>1 DEF KGShapes
  <2> QED BY <1>1, <1>4, <2>1 DEF KGShapes
<1>6. CASE InsertChunks(b) \/ r.file.body = Empty
  <2>1. build'[b] = Settled(r)
    BY <1>6 DEF InsertChunks, DeleteChunks, BuildStep
  <2>2. /\ build'[b].stage = "choose" /\ build'[b].todo = r.todo /\ build'[b].docs = r.docs
        /\ build'[b].mode = r.mode /\ build'[b].model = r.model /\ build'[b].force = r.force
    BY <1>1, <2>1, SettledFields
  <2>3. DoneWith(b, at)'
    BY <1>2, <1>3, <1>4, <1>5, <1>6, <2>2 DEF DoneWith, DoneFrom, Readable
  <2> QED BY <1>1, <1>2, <1>5, <2>2, <2>3, PassOnTrack
<1>7. CASE ~(InsertChunks(b) \/ r.file.body = Empty)
  <2>1. build'[b] = [r EXCEPT !.stage = "embed"]
    BY <1>7 DEF DeleteChunks, BuildStep
  <2>2. /\ build'[b].stage = "embed" /\ build'[b].at = at /\ build'[b].file = r.file
        /\ build'[b].todo = r.todo /\ build'[b].docs = r.docs /\ build'[b].mode = r.mode
        /\ build'[b].model = r.model /\ build'[b].force = r.force
    BY <1>1, <2>1 DEF Builds
  <2> QED BY <1>1, <1>2, <1>3, <1>5, <2>2, PassOnTrack
<1> QED BY <1>6, <1>7

\* Whoever goes on undisturbed was undisturbed before.
LEMMA QuietBefore ==
  ASSUME KGShapes, NEW b \in Builders, BuilderStep(b), Quiet(b)'
  PROVE  Quiet(b)
<1>1. CASE \E p \in Paths : LoadDoc(b, p) \/ Consider(b, p)
  BY <1>1, Considered, DocLoaded DEF Quiet
<1>2. CASE UpsertNode(b)
  <2>1. build[b] \in Builds
    BY <1>2, BuildIsOne DEF UpsertNode
  <2>2. PICK k \in BOOLEAN : build'[b] = [build[b] EXCEPT !.stage = "clear", !.clean = k]
    BY <1>2 DEF UpsertNode
  <2> QED BY <2>1, <2>2 DEF Quiet, Builds
<1>3. CASE RemoveEdgesForDoc(b)
  <2>1. build[b] \in Builds
    BY <1>3, WorkingBuild DEF RemoveEdgesForDoc
  <2>2. PICK w : build'[b] = [build[b] EXCEPT !.stage = "edges", !.pending = w]
    BY <1>3 DEF RemoveEdgesForDoc, BuildStep
  <2> QED BY <2>1, <2>2 DEF Quiet, Builds
<1>4. CASE AddEdge(b)
  <2>1. build[b] \in Builds
    BY <1>4, WorkingBuild DEF AddEdge
  <2>2. PICK P : build'[b] = [build[b] EXCEPT !.pending = P]
    BY <1>4 DEF AddEdge, BuildStep
  <2> QED BY <2>1, <2>2 DEF Quiet, Builds
<1>5. CASE EdgesDone(b) \/ DeleteChunks(b) \/ InsertChunks(b)
  <2>1. build[b] \in Builds
    BY <1>5, WorkingBuild DEF EdgesDone, DeleteChunks, InsertChunks
  <2>2. build'[b] = Settled(build[b]) \/ \E s : build'[b] = [build[b] EXCEPT !.stage = s]
    <3>1. CASE EdgesDone(b)
      BY <3>1 DEF EdgesDone, KGShapes
    <3>2. CASE DeleteChunks(b) \/ InsertChunks(b)
      BY <3>2 DEF DeleteChunks, InsertChunks, BuildStep
    <3> QED BY <1>5, <3>1, <3>2
  <2>3. CASE build'[b] = Settled(build[b])
    BY <2>1, <2>3, SettledFields DEF Quiet
  <2>4. CASE \E s : build'[b] = [build[b] EXCEPT !.stage = s]
    BY <2>1, <2>4 DEF Quiet, Builds
  <2> QED BY <2>2, <2>3, <2>4
<1>6. CASE Finish(b) \/ DropChunks(b)
  <2>1. build'[b] = NoBuild
    BY <1>6 DEF Finish, DropChunks, BuildStep, KGShapes
  <2> QED BY <2>1 DEF Quiet, NoBuild, Builds
<1>7. CASE DropEdges(b)
  <2>1. build[b] \in Drops
    BY <1>7, BuildIsOne DEF DropEdges
  <2>2. build'[b] = [build[b] EXCEPT !.stage = "drop_chunks"]
    BY <1>7 DEF DropEdges, BuildStep
  <2> QED BY <2>1, <2>2 DEF Quiet, Drops, Builds
<1> QED BY <1>1, <1>2, <1>3, <1>4, <1>5, <1>6, <1>7 DEF BuilderStep

LEMMA QuietInvInit == Init => QuietInv
BY DEF Init, QuietInv, Quiet, NoBuild, Builds

LEMMA QuietInvStep == KGShapes /\ QuietInv /\ [Next]_kgVars => QuietInv'
<1> SUFFICES ASSUME KGShapes, QuietInv, [Next]_kgVars, NEW b \in Builders, Quiet(b)'
             PROVE  OnTrack(b)'
  BY DEF QuietInv
<1>0. Quiet(b) => OnTrack(b)
  BY DEF QuietInv
<1>1. CASE \E c \in Builders \ {b} :
             \/ \E mode \in Modes \ {"drop"}, model \in Embedders, force \in BOOLEAN :
                  StartBuild(c, mode, model, force)
             \/ DropNodes(c) \/ BuilderStep(c)
             \/ LoseEdge(c) \/ StatementFails(c) \/ Crash(c)
  <2>1. Bystands(b)
    BY <1>1, Bystanders
  <2> QED BY <1>0, <2>1, BystanderOnTrack
<1>2. ASSUME NEW mode \in Modes \ {"drop"}, NEW model \in Embedders, NEW force \in BOOLEAN,
             StartBuild(b, mode, model, force)
      PROVE  OnTrack(b)'
  BY <1>2, StartOnTrack
<1>3. CASE BuilderStep(b)
  <2>1. OnTrack(b)
    BY <1>0, <1>3, QuietBefore
  <2>2. CASE \/ \E p \in Paths : LoadDoc(b, p) \/ Consider(b, p)
             \/ UpsertNode(b) \/ RemoveEdgesForDoc(b) \/ AddEdge(b) \/ EdgesDone(b)
             \/ DeleteChunks(b) \/ InsertChunks(b)
    BY <2>1, <2>2, LoadOnTrack, ConsiderOnTrack, UpsertOnTrack, ClearOnTrack, AddOnTrack,
       EdgesDoneOnTrack, ChunksOnTrack
  <2>3. CASE Finish(b) \/ DropChunks(b)
    <3>1. build'[b] = NoBuild
      BY <2>3 DEF Finish, DropChunks, BuildStep, KGShapes
    <3> QED BY <3>1 DEF Quiet, NoBuild, Builds
  <2>4. CASE DropEdges(b)
    <3>1. build[b] \in Drops /\ build'[b] = [build[b] EXCEPT !.stage = "drop_chunks"]
      BY <2>4, BuildIsOne DEF DropEdges, BuildStep
    <3> QED BY <3>1 DEF Quiet, Drops, Builds
  <2> QED BY <1>3, <2>2, <2>3, <2>4 DEF BuilderStep
<1>4. CASE DropNodes(b)
  <2>1. build'[b].stage = "drop_edges"
    BY <1>4 DEF DropNodes
  <2> QED BY <2>1 DEF Quiet, Builds
<1>5. CASE LoseEdge(b)
  <2>1. build[b] \in Builds
    BY <1>5, WorkingBuild DEF LoseEdge
  <2>2. PICK P : build'[b] = [build[b] EXCEPT !.pending = P, !.clean = FALSE, !.quiet = FALSE]
    BY <1>5 DEF LoseEdge, KGShapes
  <2> QED BY <2>1, <2>2 DEF Quiet, Builds
<1>6. CASE StatementFails(b)
  BY <1>6, FailedStatement DEF Quiet
<1>7. CASE Crash(b)
  <2>1. build'[b] = NoBuild
    BY <1>7 DEF Crash, KGShapes
  <2> QED BY <2>1 DEF Quiet, NoBuild, Builds
<1>8. ASSUME NEW p \in Paths, NEW f \in Files \cup {None, Garbled}, EditDoc(p, f)
      PROVE  OnTrack(b)'
  <2>1. build'[b] = Noisy(b)
    BY <1>8 DEF EditDoc
  <2> QED BY <2>1, NoisyIsNotQuiet DEF Quiet
<1>9. CASE UNCHANGED kgVars
  BY <1>0, <1>9, BystanderOnTrack DEF kgVars, Bystands, Quiet
<1> QED
  BY <1>1, <1>2, <1>3, <1>4, <1>5, <1>6, <1>7, <1>8, <1>9 DEF Next

THEOREM QuietBuildsOnTrack == Spec => [](KGShapes /\ QuietInv)
<1> QED BY KGShapesInit, KGShapesStep, QuietInvInit, QuietInvStep, PTL DEF Spec

\* A build or crawl that ends undisturbed is done with every document that a file
\* in its scope can be read for.
LEMMA AllDone ==
  ASSUME KGShapes, QuietInv, NEW b \in Builders, Finish(b),
         build[b].quiet, build[b].mode \in {"schema", "crawl"}
  PROVE  \A d \in Docs : Readable(build[b].mode, d) # {} => DoneWith(b, d)
<1>1. build[b] \in Builds /\ build[b].stage = "choose" /\ build[b].todo = {}
  BY BuildIsOne DEF Finish
<1>2. OnTrack(b)
  BY <1>1 DEF QuietInv, Quiet
<1> QED BY <1>1, <1>2 DEF OnTrack, Readable

\* A build that ends, and that nobody and nothing disturbed, leaves no document
\* that a file can be read for without passing for up to date with such a file:
\* neither a file that does not parse nor one of the same name keeps it from that.
THEOREM BuildsCoverAll == Spec => BuildCoversAll
<1> DEFINE A == \A b \in Builders : QuietFinish(b, {"schema", "crawl"}) =>
                  \A d \in Docs : LET own == Readable(build[b].mode, d) IN
                    own # {} => \E p \in own : node[d] = file[p].body
<1>1. KGShapes /\ QuietInv /\ [Next]_kgVars => A
  <2> SUFFICES ASSUME KGShapes, QuietInv, NEW b \in Builders,
                      QuietFinish(b, {"schema", "crawl"}), NEW d \in Docs,
                      Readable(build[b].mode, d) # {}
               PROVE  \E p \in Readable(build[b].mode, d) : node[d] = file[p].body
    OBVIOUS
  <2>1. DoneWith(b, d)
    BY AllDone DEF QuietFinish
  <2> QED BY <2>1 DEF DoneWith, DoneFrom
<1>2. KGShapes /\ QuietInv /\ [Next]_kgVars => [A]_kgVars
  BY <1>1
<1> HIDE DEF A
<1>3. Spec => [][A]_kgVars
  BY <1>2, QuietBuildsOnTrack, PTL DEF Spec
<1> QED BY <1>3 DEF A, BuildCoversAll

\* A forced crawl that nothing disturbed has made the edges and the chunks of
\* every document anew, all from one file of its name.
THEOREM ForcedCrawlsReindex == Spec => ForcedCrawlReindexes
<1> DEFINE A == \A b \in Builders :
                  (QuietFinish(b, {"crawl"}) /\ build[b].force) => AllReindexed(b)
<1>1. KGShapes /\ QuietInv /\ [Next]_kgVars => A
  <2> SUFFICES ASSUME KGShapes, QuietInv, NEW b \in Builders,
                      QuietFinish(b, {"crawl"}), build[b].force, NEW d \in Docs,
                      Readable(build[b].mode, d) # {}
               PROVE  \E p \in Readable(build[b].mode, d) : Reindexed(b, d, file[p])
    BY DEF AllReindexed
  <2>1. DoneWith(b, d) /\ build[b].mode = "crawl"
    BY AllDone DEF QuietFinish
  <2> QED BY <2>1 DEF DoneWith, DoneFrom, Reindexed, From
<1>2. KGShapes /\ QuietInv /\ [Next]_kgVars => [A]_kgVars
  BY <1>1
<1> HIDE DEF A
<1>3. Spec => [][A]_kgVars
  BY <1>2, QuietBuildsOnTrack, PTL DEF Spec
<1> QED BY <1>3 DEF A, ForcedCrawlReindexes
=============================================================================
