--------------------------------- MODULE Query ---------------------------------
(***************************************************************************)
(* One query over the documents of an entity (pkg/sbdb/query/queryset.go):  *)
(* the walker lists the markdown files and parses them with a pool of       *)
(* goroutines (pkg/sbdb/storage/walker.go); the records are filtered,       *)
(* ordered and cut to a page; and with --load-content each document of the  *)
(* page is read once more.  Other processes write the files meanwhile.      *)
(*                                                                          *)
(* Docs are the numbers of the paths in the order of the walk. A version of *)
(* a document is a rank, the frontmatter field the query looks at, and a    *)
(* text; both are read together by the walk, and the text again by a load.  *)
(***************************************************************************)
EXTENDS Naturals, Sequences, FiniteSets

CONSTANTS
  Docs, Versions,
  NoFile, Garbled,     \* no such file; a file that does not parse
  Unfilled,            \* a slot nobody has written yet
  Workers,             \* the goroutines of the pool
  Queries,             \* the queries asked
  MaxEdits             \* bound: documents that change during the query

ASSUME QueryAssumption ==
  /\ Docs \subseteq Nat /\ IsFiniteSet(Docs) /\ Docs # {}
  /\ Workers # {}
  /\ \A v \in Versions : v = [rank |-> v.rank, text |-> v.text] /\ v.rank \in Nat
  /\ {NoFile, Garbled} \cap Versions = {} /\ NoFile # Garbled
  /\ Unfilled \notin [doc : Docs, version : Versions \cup {NoFile}, error : BOOLEAN]
  /\ \A q \in Queries : /\ q.wanted \subseteq Nat
                        /\ q.order \in {"none", "asc", "desc"}
                        /\ {q.skip, q.limit} \subseteq Nat

VARIABLES
  file,     \* file[d]: the markdown file of d
  stage,    \* "start", "walk", "load", "done"
  jobs,     \* the channel of paths
  idx,      \* the slots handed out so far
  slots,    \* results and errs: one slot for every path
  worker,   \* worker[w]: where goroutine w is, and with which path and slot
  query, rows, answer,
  listed,   \* history: the files as they were listed
  edited    \* history: the documents that changed since

walkVars == <<jobs, idx, slots, worker>>
queryVars == <<file, stage, walkVars, query, rows, answer, listed, edited>>

Found(d, v) == [doc |-> d, version |-> v, error |-> FALSE]
Failed(d) == [doc |-> d, version |-> NoFile, error |-> TRUE]
Parsed(d) == IF file[d] \in Versions THEN Found(d, file[d]) ELSE Failed(d)

NoQuery == [wanted |-> {}, order |-> "none", skip |-> 0, limit |-> 0, load |-> FALSE]
NoAnswer == [status |-> "none", rows |-> <<>>]

-----------------------------------------------------------------------------

\* The elements of S, in ascending order.
InOrder(S) ==
  CHOOSE s \in [1..Cardinality(S) -> S] :
    \A i, j \in 1..Cardinality(S) : i < j => s[i] < s[j]

Before(order, a, b) == \/ order = "asc"  /\ a.version.rank < b.version.rank
                       \/ order = "desc" /\ a.version.rank > b.version.rank

\* sort.SliceStable of the records at the positions I of s: where that at i goes.
Place(s, I, order, i) ==
  1 + Cardinality({j \in I : \/ Before(order, s[j], s[i])
                             \/ j < i /\ ~Before(order, s[i], s[j])})
Sorted(s, I, order) ==
  [k \in 1..Cardinality(I) |-> s[CHOOSE i \in I : Place(s, I, order, i) = k]]

\* Mutation of Page: the limit counts from the first record.
PageFromStart(s, q) ==
  IF q.skip > Len(s) THEN <<>>
  ELSE SubSeq(s, q.skip + 1, IF q.limit > 0 /\ q.limit < Len(s) THEN q.limit ELSE Len(s))

\* applyPaging; limit 0 is no limit.
Page(s, q) ==
  IF q.skip > Len(s) THEN <<>>
  ELSE SubSeq(s, q.skip + 1,
              IF q.limit > 0 /\ q.limit < Len(s) - q.skip
                THEN q.skip + q.limit ELSE Len(s))

Wanted(q, r) == r.version.rank \in q.wanted

\* What All and Records make of the records of a walk, the filled slots.
Filled == {i \in DOMAIN slots : slots[i] # Unfilled}
Matching(q) == {i \in Filled : Wanted(q, slots[i])}
Evaluate(q) == Page(Sorted(slots, Matching(q), q.order), q)

-----------------------------------------------------------------------------

Init ==
  /\ file \in [Docs -> Versions \cup {NoFile, Garbled}]
  /\ stage = "start"
  /\ jobs = <<>> /\ idx = 0 /\ slots = <<>>
  /\ worker = [w \in Workers |-> [at |-> "take", path |-> 0, slot |-> 0]]
  /\ query = NoQuery /\ rows = <<>> /\ answer = NoAnswer
  /\ listed = file /\ edited = {}

\* collectMDPaths, and the channel filled with the paths.
List ==
  LET paths == InOrder({d \in Docs : file[d] # NoFile}) IN
  /\ stage = "start"
  /\ stage' = "walk"
  /\ jobs' = paths
  /\ slots' = [i \in DOMAIN paths |-> Unfilled]
  /\ listed' = file
  /\ UNCHANGED <<file, idx, worker, query, rows, answer, edited>>

WorkerAt(w, at) == stage = "walk" /\ worker[w].at = at
PoolUnchanged == UNCHANGED <<file, stage, query, rows, answer, listed, edited>>

\* A goroutine takes the next path from the channel ...
TakeJob(w) ==
  /\ WorkerAt(w, "take") /\ jobs # <<>>
  /\ worker' = [worker EXCEPT ![w] = [at |-> "claim", path |-> Head(jobs), slot |-> 0]]
  /\ jobs' = Tail(jobs)
  /\ PoolUnchanged /\ UNCHANGED <<idx, slots>>

\* Mutation of ClaimSlot: the counter is read and written without its mutex.
ClaimSlotUnlocked(w) ==
  /\ WorkerAt(w, "claim")
  /\ worker' = [worker EXCEPT ![w].at = "parse", ![w].slot = idx + 1]
  /\ idx' \in {idx, idx + 1}
  /\ PoolUnchanged /\ UNCHANGED <<jobs, slots>>

\* ... the next slot under the mutex ...
ClaimSlot(w) ==
  /\ WorkerAt(w, "claim")
  /\ worker' = [worker EXCEPT ![w].at = "parse", ![w].slot = idx + 1]
  /\ idx' = idx + 1
  /\ PoolUnchanged /\ UNCHANGED <<jobs, slots>>

\* Mutation of ParseFile: an error ends the goroutine without a trace.
ParseFileQuietly(w) ==
  LET r == worker[w] IN
  /\ WorkerAt(w, "parse")
  /\ slots' = [slots EXCEPT ![r.slot] = IF file[r.path] \in Versions
                                          THEN Parsed(r.path) ELSE Unfilled]
  /\ worker' = [worker EXCEPT ![w] = [at |-> "take", path |-> 0, slot |-> 0]]
  /\ PoolUnchanged /\ UNCHANGED <<jobs, idx>>

\* ... and parses the file.
ParseFile(w) ==
  LET r == worker[w] IN
  /\ WorkerAt(w, "parse")
  /\ slots' = [slots EXCEPT ![r.slot] = Parsed(r.path)]
  /\ worker' = [worker EXCEPT ![w] = [at |-> "take", path |-> 0, slot |-> 0]]
  /\ PoolUnchanged /\ UNCHANGED <<jobs, idx>>

\* Mutation of LastJob: the channel is never closed, the goroutine waits.
LastJobWaits(w) ==
  /\ WorkerAt(w, "take") /\ jobs = <<>>
  /\ UNCHANGED queryVars

\* The channel is closed and empty.
LastJob(w) ==
  /\ WorkerAt(w, "take") /\ jobs = <<>>
  /\ worker' = [worker EXCEPT ![w].at = "done"]
  /\ PoolUnchanged /\ UNCHANGED <<jobs, idx, slots>>

\* wg.Wait; the error of the first slot that has one fails the walk, otherwise
\* the records of the filled slots are evaluated.  (Which query is asked first
\* matters here.)
Gather(q) ==
  LET errors == {i \in Filled : slots[i].error}
      found == Evaluate(q) IN
  /\ stage = "walk"
  /\ \A w \in Workers : worker[w].at = "done"
  /\ query' = q
  /\ IF errors # {}
       THEN /\ stage' = "done"
            /\ answer' = [status |-> "error",
                          rows |-> <<slots[CHOOSE i \in errors : \A j \in errors : i <= j]>>]
            /\ UNCHANGED rows
       ELSE IF q.load /\ found # <<>>
       THEN stage' = "load" /\ rows' = found /\ UNCHANGED answer
       ELSE stage' = "done" /\ answer' = [status |-> "ok", rows |-> found] /\ UNCHANGED rows
  /\ UNCHANGED <<file, walkVars, listed, edited>>

\* EnsureLoaded reads the file again and keeps the fields of the record.
Reloaded(r) == Found(r.doc, [rank |-> r.version.rank, text |-> file[r.doc].text])

Load ==
  LET r == Head(rows) IN
  /\ stage = "load"
  /\ IF file[r.doc] \notin Versions
       THEN /\ stage' = "done" /\ rows' = <<>>
            /\ answer' = [status |-> "error", rows |-> <<Failed(r.doc)>>]
       ELSE /\ stage' = IF Len(rows) = 1 THEN "done" ELSE "load"
            /\ rows' = Tail(rows)
            /\ answer' = [status |-> IF Len(rows) = 1 THEN "ok" ELSE "none",
                          rows |-> Append(answer.rows, Reloaded(r))]
  /\ UNCHANGED <<file, walkVars, query, listed, edited>>

\* Another process replaces or removes a document; bound: once per document, and
\* not before the listing or after the answer, where it would go unseen.
Edit(d, v) ==
  /\ stage \in {"walk", "load"}
  /\ Cardinality(edited) < MaxEdits /\ d \notin edited /\ v # file[d]
  /\ file' = [file EXCEPT ![d] = v]
  /\ edited' = edited \cup {d}
  /\ UNCHANGED <<stage, walkVars, query, rows, answer, listed>>

WorkerStep(w) == TakeJob(w) \/ ClaimSlot(w) \/ ParseFile(w) \/ LastJob(w)

Next ==
  \/ List
  \/ \E w \in Workers : WorkerStep(w)
  \/ \E q \in Queries : Gather(q)
  \/ Load
  \/ \E d \in Docs, v \in Versions \cup {NoFile, Garbled} : Edit(d, v)

\* The Go scheduler runs every goroutine that can run, and the command goes on.
Fairness ==
  /\ WF_queryVars(List)
  /\ \A w \in Workers : WF_queryVars(WorkerStep(w))
  /\ WF_queryVars(\E q \in Queries : Gather(q))
  /\ WF_queryVars(Load)

Spec == Init /\ [][Next]_queryVars /\ Fairness

-----------------------------------------------------------------------------

Slots == {Found(d, v) : d \in Docs, v \in Versions} \cup {Failed(d) : d \in Docs}

\* Every variable holds what the code can put there.
QueryTypeOK ==
  /\ file \in [Docs -> Versions \cup {NoFile, Garbled}]
  /\ listed \in [Docs -> Versions \cup {NoFile, Garbled}]
  /\ stage \in {"start", "walk", "load", "done"}
  /\ jobs \in Seq(Docs)
  /\ slots \in Seq(Slots \cup {Unfilled})
  /\ idx \in 0..Len(slots)
  /\ worker \in [Workers -> [at : {"take", "claim", "parse", "done"},
                             path : Docs \cup {0}, slot : 0..Len(slots)]]
  /\ edited \subseteq Docs

Holding(d) == {w \in Workers : worker[w].at \in {"claim", "parse"} /\ worker[w].path = d}
SlotsOf(d) == {i \in Filled : slots[i].doc = d}
Waiting(d) == {i \in DOMAIN jobs : jobs[i] = d}

\* The pool neither loses nor repeats a path: each is in the channel, in the
\* hands of one goroutine, or in one slot; and no two goroutines write to a slot.
EachPathOnce ==
  stage = "walk" =>
    /\ \A d \in Docs :
         Cardinality(Holding(d)) + Cardinality(SlotsOf(d)) + Cardinality(Waiting(d))
           = IF listed[d] = NoFile THEN 0 ELSE 1
    /\ \A v, w \in Workers :
         (worker[v].at = "parse" /\ worker[w].at = "parse" /\ worker[v].slot = worker[w].slot)
           => v = w

\* Did nothing happen to d between the listing and the answer?
Steady(d) == d \notin edited
Matches(d) == listed[d] \in Versions /\ listed[d].rank \in query.wanted
Answered == stage = "done" /\ answer.status = "ok"
Ahead(d, rank) == \/ query.order = "asc"  /\ listed[d].rank < rank
                  \/ query.order = "desc" /\ listed[d].rank > rank
Behind(d, rank) == \/ query.order = "asc"  /\ listed[d].rank > rank
                   \/ query.order = "desc" /\ listed[d].rank < rank

\* When nothing changed during the query, its answer is the page asked for of
\* the matching documents, in an order the query allows: as many as there are
\* from skip to limit, none twice, and each with no more documents ahead of it,
\* and behind it, than its place leaves room for.  A document that changed may be
\* answered half old and half new, but the field it was filtered by is the old one.
PageIsRight ==
  /\ Answered => \A i \in DOMAIN answer.rows : answer.rows[i].version.rank \in query.wanted
  /\ (Answered /\ edited = {}) =>
    LET all == {d \in Docs : Matches(d)}
        left == IF query.skip > Cardinality(all) THEN 0 ELSE Cardinality(all) - query.skip
        n == IF query.limit = 0 \/ query.limit > left THEN left ELSE query.limit IN
    /\ Len(answer.rows) = n
    /\ \A i \in 1..n :
         LET r == answer.rows[i] IN
         /\ r.doc \in all
         /\ \A j \in 1..n : answer.rows[j].doc = r.doc => i = j
         /\ Cardinality({d \in all : Ahead(d, r.version.rank)}) < query.skip + i
         /\ Cardinality({d \in all : Behind(d, r.version.rank)})
              <= Cardinality(all) - query.skip - i

\* Whatever changes meanwhile, a query without a page that succeeds lists every
\* matching document that did not change, once, whole and as it is on disk.
SteadyDocsAreListed ==
  (Answered /\ query.skip = 0 /\ query.limit = 0) =>
    \A d \in Docs : (Steady(d) /\ Matches(d)) =>
      \E i \in DOMAIN answer.rows :
        /\ answer.rows[i] = Found(d, listed[d])
        /\ \A j \in DOMAIN answer.rows : answer.rows[j].doc = d => i = j

\* A query fails because a file did not parse or was gone by the time it was
\* read, and names such a file; with one there from the beginning it does fail.
ErrorsHaveCause ==
  /\ (stage = "done" /\ answer.status = "error") =>
       LET d == answer.rows[1].doc IN
       listed[d] = Garbled \/ (d \in edited /\ file[d] \notin Versions)
  /\ Answered => \A d \in Docs : Steady(d) => listed[d] # Garbled

\* The query comes to an end, whatever the goroutines' schedule.
QueryEnds == <>(stage = "done")
=============================================================================
