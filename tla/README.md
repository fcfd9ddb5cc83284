# A TLA+ model of secondbrain-db

`sbdb` keeps a knowledge base of markdown documents in git: every document
`docs/<entity>/<id>.md` has a *sidecar* `<id>.yaml` with hashes (and, with a
key, an HMAC) of what the tool last wrote. A library (`pkg/sbdb`) and a CLI
(`cmd/`) create, update and delete documents, `doctor` audits and repairs
sidecars, and around that core live a SQLite knowledge graph, records of pushes
to external systems, an untracked-file registry, and per-document encryption.

There is no server and no lock. Everything is a short-lived process, or a
goroutine of a Go program that embeds the library, that reads files, decides,
and then replaces files one at a time with temp-file-and-rename. What can go
wrong lives between those steps: two callers at once, a process killed half
way, an editor or `git checkout` in between, a write that fails after another
succeeded. The models make every file access and every SQL statement a step.

## Inventory

State, operations and correctness of each component; the last column names the
module or *no*.

| component | state | operations | correct when | module |
|---|---|---|---|---|
| document store (`pkg/sbdb/repo.go`, `document/`, `storage/markdown.go`) | `<id>.md`, `<id>.yaml` | Create, Update, Delete, Get | calls on one document behave atomically when they do not overlap; the two files agree unless a call was cut short; a create replaces nothing | DocStore, DocStoreAbs, DocStoreRefines |
| integrity sidecars (`integrity/sidecar.go`, `hmac.go`, `hash.go`) | hashes, signature, key | NewSidecar, SignWith, Verify, LoadKey | a document the tool wrote verifies, anything else is reported | Integrity |
| doctor (`cmd/doctor.go`, `doctor_heal.go`) | sidecars, exit code | check, fix, sign, heal, init-key, status, migrate | check reports its scope exactly; heal and sign converge; unacknowledged tamper is never overwritten | Doctor, Migrate (status, a count: no) |
| git scope (`integrity/gitscope.go`) | git work tree against HEAD | GitChanged, GitChangedSince | documents outside the scope really were verified before | Doctor |
| plugin hooks (`claude-plugin/hooks`), CI action | — | heal at end of turn, check before commit | changed documents are reconciled | Doctor (as runs) |
| storage walker (`storage/walker.go`) | worker pool, claim counter, result slots | WalkDocs, WalkDocsToSlice | every path processed once, a failure has its cause, ends | Query |
| knowledge graph index (`kg/index.go`, `crawl.go`, `db.go`) | SQLite tables nodes, edges, chunks | index build, build --crawl, drop | what counts as fresh holds the edges and chunks of its body; a build leaves out no document that can be read | KGIndex |
| graph queries (`kg/graph.go`, `kg/search.go`) | — | Incoming, Outgoing, Neighbors, exports, search ranking | Neighbors is reachability within a depth, an export is closed, also while the graph changes | Graph (ranking, text formats: no) |
| chunker, link extraction (`kg/chunker.go`, `extract.go`) | — | ChunkMarkdown, ExtractMarkdownLinks | chunks cover the text and respect the limit | no (see *Not modelled*) |
| graphstore (`kg/graphstore`) | bbolt buckets: vertices, edges, an index of outgoing and one of incoming edges | PutVertex, PutEdge, RemoveVertex, RemoveEdgesFrom, Drop, Neighbors, ShortestPath, exports | the indexes mirror the edges; a path is a shortest one | Graph, Reach |
| external sync (`sync/`, `cmd/sync_*.go`) | `<id>.integrations.yaml` | state get, state set (push, check, error), check, targets, enforcement | a recorded push was confirmed; the last push is the one recorded; drift is computed from it | SyncState (targets, enforcement: no) |
| untracked registry (`untracked/`, `cmd/untracked.go`) | `data/.untracked.yaml`, signed files | create, sign, sign-all, verify, delete | registry and files agree; no entry goes away by itself | Untracked |
| ACL and encryption filter (`acl/`, `cmd/lock.go`, `acl.go`, `keys.go`, `filter.go`) | ACL files, key ring, private key, envelopes in the work tree | lock, unlock, clean, smudge, acl set, add and rm, keys self-init, export and import | git takes an envelope for exactly the readers meant, no text is lost, lock leaves no plain text | Vault |
| events (`events/git_projection.go`) | — | projection of `git log` onto events | one event per change of a document | no (see *Not modelled*) |
| queries (`query/`) | — | lookups, ordering, paging, search | the page asked for of the matching documents, in order | Query (text search: no) |
| schemas (`schema/`, `cmd/schema_*.go`) | `schemas/*.yaml` | load, validate, Diff, classify, evolve | every breaking change is classified as one | no (see *Not modelled*) |
| virtual fields (`virtuals/`) | compiled Starlark functions by name | EvaluateAll | — | no: an interpreter; its failure and its effect on the record are in Integrity and DocStore |
| v1 migration (`doctor migrate`) | `data/` and the new sidecars | convert, then remove `data/` | nothing is removed that was not converted | Migrate |
| facade, options, CLI shell, init wizard, output | — | flags, configuration, formatting | — | no: sequential text handling |
| embedding client (`semantic/`) | — | one HTTP call | — | its failure is in KGIndex |

How they meet: every CLI command opens a `Repo` on the same files. `doctor`
reads and rewrites the sidecars the store writes, taking its targets from git
or from the walker; git commits what both left; the hooks call `doctor`. `index
build` reads documents through a query (walker and loader) and never hears of a
delete. `sync` writes a third file next to the two of a document, which the git
scope sees. The untracked registry lives in `data/`, the directory that `doctor
migrate` removes, and classifies files by the sidecars the store writes. git
calls the encryption filter on the files every other part reads and writes.

What is hard to test here, with the line where each bites, is the list
`hazards` in `PROJECT.json`.

## The modules

### Integrity

Operators only. A document version is the set of edits it carries and its form
(`Versions`): plain, or an envelope, well formed or not, which every part but
`doctor check` takes for a document without frontmatter. SHA-256 is injective, so
a sidecar (`Sidecars`) is the version it
was computed from, whether the record that was hashed held the scalar virtual
fields, and who signed it. `Verdict` is `checkOneDoc` with its order of tests: the
envelope sentinel first (`EnvelopeReport`), then the sidecar, then the markdown.
`Drifted` is `Sidecar.Verify`; `KeyOrNil` is the dropped error of `LoadKey`. An
update of an envelope renders frontmatter in front of it (`With`), so the result
is none.

### DocStore

Callers `Procs` run Create, Update, Delete and Get on documents. `md` and
`sidecar` are the files, `job[p]` the call in progress (its stage is the next
file access), `reply[p]` the last answer.

| action | code |
|---|---|
| CreateStat, UpdateGet, DeleteStat, Get | the first lines of the `Repo` methods, up to the first write |
| WriteMarkdown, SaveRefused | `Document.Save`: virtuals, rendering, rename of `<id>.md` |
| WriteSidecar, SidecarRefused | `writeSidecar`: LoadKey, hashes, rename of `<id>.yaml` |
| ReadBack | the `Get` that ends Create and Update |
| RemoveMarkdown, RemoveSidecar, RemoveRefused | `Document.Delete` |
| Crash, HandEdit, ChangeKey | a killed process, an editor or checkout, another key |

`disturbed` is a history variable: documents whose last save or delete was cut
short, edited by hand, or overlapped by another call. Without it nothing could
be said of the two files under concurrency; with it the claim is exact: they
disagree *only* in those documents, and one later undisturbed save repairs them.

**DocStoreAbs** is what a caller may count on while nobody else is calling for
the same document: an atomic map, with create, update-of-the-version-shown and
delete, and truthful answers. **DocStoreRefines** maps the two-file store to it
(the map is the markdown files, a call is done once its markdown is written).
With `SerialCallers` the code implements it, crashes and refused writes
included; without, it does not (see *Divergences*).

### Doctor

DocStore with a `doctor` run beside the callers, and the git work tree. A run
(`run`) collects its targets once (`ScopeTargets`: all through the walker,
uncommitted through `git status`, since through `git diff`, or by id), then
takes them in turn: `Inspect` and `Compare` are `checkOneDoc` (an envelope is
reported before the sidecar is looked at, and the sidecar is
read before the markdown is parsed), `Parse` and `Save` are `healOneDoc` and
`writeSidecarFromMD`, which read the markdown again. `Repairs` and `Reports`
are the decisions of `runDoctorHeal` and `runDoctorCheck` per verdict: check counts
every report, that of an encrypted document too; heal repairs what is missing or
tampered, and passes over the rest. `Covers` says which documents a scope reaches,
as a user who knows git would: `git status` lists no file of an untracked
directory, `git diff` no untracked file. `head`
is HEAD, `pushed` the uncommitted integrations files, `verified` and `gated`
history for the claim that committed documents were verified.

### KGIndex

Index commands `Builders` over files that editors change. Every SQL
statement of a schema build (`BuildAll`, `IndexDocument`), a crawl
(`CrawlAndIndex`) and a drop is a step; only the chunks of a document go in as
one transaction. What schema mode returns as an error ends the command, a crawl
passes over it; the result of `AddEdge` is dropped by both. `torn` is the
history variable: documents whose last pass was cut short, lost a statement or
was overlapped. A file is a body and the ids its frontmatter refers to, or does not
parse; its document's id is its base name (`IdOf`, `pathToDocID`), which files of
several directories may share. A schema build walks the files of its entity
(`EntityFiles`) and fails as a whole if one does not parse, then loads each
document (`LoadDoc`) and indexes it; a crawl takes every file when it comes to it.
`Consider` passes over what is gone or does not parse by then. The content hash is
the body's only, as in the code, which is why a forced
schema build does not re-index (run `index_force`).
Staleness is read once although `BuildAll` and `IndexDocument` both read it (the
second read alone decides whether to go on); a query error there, which counts
as stale, is left out.

### Query

One query, from the listing of the directory to the answer. Goroutines
(`worker`) share a channel of paths (`jobs`), a slot counter (`idx`) and the
slices of results and errors (`slots`).

| action | code |
|---|---|
| List | `collectMDPaths`, the channel filled and closed |
| TakeJob, ClaimSlot, ParseFile, LastJob | the loop of a goroutine of `WalkDocsToSlice`: receive, `nextIdx`, `ParseMarkdown` and the store into the slot, end of the channel |
| Gather | `wg.Wait`, the first error by slot, then `applyFilters`, `applyOrdering`, `applyPaging` |
| Load | one `EnsureLoaded` of `query --load-content` |
| Edit | another process replacing, removing or damaging a file |

A version is a rank (the field filtered and ordered by) and a text (what a load
reads again); a lookup is the set of ranks it matches, whatever its operator.
`Sorted` says what a stable sort is, `Page` is `applyPaging`. `listed` and
`edited` are history. `PageIsRight` defines a right page without sorting, from
the number of documents ahead of and behind each row, because documents of one
rank come in whatever order the goroutines claimed their slots. A query fails
without an answer of its own kind in two more places that are left out: a
directory that cannot be read, and a negative offset, which no flag passes on.

### SyncState

One document, the services it is pushed to, and the runtimes (agents, scripts)
that push it and have sbdb record what happened. `ledger` is
`<id>.integrations.yaml`, one file for all integrations; `remote[i]` the updates
a service took, `run[p]` where a runtime is between `state get` and the end of
`state set`, `audit` the document a `sync check` has read.

| action | code |
|---|---|
| StateGet | `runSyncStateGet`: the document and the target it names |
| Push, PushFails, Observe, RemoteEdit | the service, and what a runtime records after it |
| ResolveTarget | `runSyncStateSet` with `--published-hash`: the document is read again for its target |
| ReadLedger, WriteLedger | `mutateSection`: ReadSidecar, one section changed, WriteSidecar (a rename) |
| GiveUp | a file that cannot be read or written, or a kill |
| CheckReadsDoc, CheckReadsLedger | `ResolveDocIntegration` in `sync check`: the document, then the file |

Nothing locks the file between the read and the write, so a record may be taken
back by another runtime's, even one of another integration. `loose` is the
history variable for that: the integrations whose last push may not be the
recorded one, because a record was taken back, given up, or overlapped by a push
of the same integration; a later push recorded without company clears it.
`PushesAreConfirmed` needs no such exception: what the file claims is stale at
worst, and never made up from two records.

### Untracked

The commands of `cmd/untracked.go` over `disk[f]` (markdown files), `sidecar[f]`
and `registry[f]`, the single file `data/.untracked.yaml`. A command in progress
(`cmd[p]`) carries the entry it computed and the copy of the registry it loaded.

| action | code |
|---|---|
| Truncate, Write | `os.WriteFile` of `untracked create` |
| Write, Pair | the two files of a document save (`Repo.Create`, `Update`) |
| RemoveDocument, Unpair, DocumentAbsent | `Repo.Delete`: the markdown, then its sidecar, or ErrNotFound |
| SignFile | `SignFile`: the file is read back and hashed |
| Load, Save | `untracked.Load`; `Add` or `Remove` on the copy and `Registry.Save` (a rename) |
| Visit, SignEach | `DiscoverUnregistered` and the loop of `sign-all` |
| RemoveFile | `os.Remove` of `untracked delete`, before the registry is loaded |
| CommandFails, HandEdit | a failed read or write, a kill; an editor |

`loose` is history: the files for which an entry need not match, because someone
edited them, a document save or delete changed them, or a command that touched them was
cut short or saved a registry loaded before another command's save. A later
command that runs alone clears it. A text stands for both hashes of an entry;
signatures are left out, since no untracked command verifies one before it
replaces it. sign-all walks in a fixed order, as `filepath.Walk` does.

### Migrate

`doctor migrate` beside the commands of Untracked: the records and the manifest
of every entity (`legacy`), the migration in progress (`mig`), and `os.RemoveAll`
of `data/` as one step per file in any order, so that a kill leaves any part of
it. `BuildSidecar` is `buildSidecarFromV1`.

| action | code |
|---|---|
| StartMigrate | `runDoctorMigrate` up to the loading of the schemas; without `data/` there is nothing to do |
| LoadRecords, SkipEntity | the records directory of the next entity, as its schema names it (`named`), or `continue` if it is not found |
| RewriteSchema | `schema migrate`, or a user, dropping `records_dir`: the default `data/<entity>` takes its place |
| LoadManifest, Convert, SaveSidecar, NextEntity | the loop over the records; a record without a file field (`Unfiled`) is passed over |
| WipeLegacy, WipeRegistry, WipeDir | `os.RemoveAll(data/)`, whatever was skipped |
| MigrateFails | an error return or a kill at any step |

`cut` and `completed` are history: whether a run ended while removing, and whether
one has ended well. `RecordsBecomeSidecars` and `MigrationIsFaithful` are about the
entities whose schema names their records and the records with a file field: the
others are lost, which the run `migrate_schema` shows of the first.
`MigrationIsFaithful` excludes what follows a `cut`: the manifest may be gone
while the records are there, and the next run then takes the text on disk for
the recorded one.

### Reach and Graph

Reach defines what a graph promises: `Ball`, `EdgesWithin`, `Distance`, each from
the walks there are (`Within`), without a queue, a visited set or recursion. Graph has the two stores
side by side (`store`): "kg", the edges table of the SQLite database, and "bolt",
the buckets of `graphstore` with `outIdx` and `inIdx`.

| action | code |
|---|---|
| PutVertex, PutEdge, RemoveEdgesFrom, RemoveVertex, Drop | the methods of those names and `UpsertNode`, `AddEdge`, `RemoveEdgesForDoc`: one transaction each (`Commit`) |
| RemoveNode | `RemoveNode` of the SQLite store: one transaction of DELETEs of which any may fail, committed all the same |
| StartNeighbors, QueryLevel | `DB.Neighbors`, one query per level |
| StartNeighbors, FollowOut, FollowIn | `Store.Neighbors`, two transactions per node of the frontier, whose order is left open |
| StartPath, NextHop | `Store.ShortestPath`, one transaction per node, its edges in the order of the keys (`InOrder`) |
| StartExport, ExportNodes, ExportEdges | `ExportJSON`, `ExportGraphJSON` |

`Swept` is what bbolt does when a key is deleted under the cursor of a bucket
that the transaction has already changed: the keys move up and the next one is
passed over. It is external code, modelled by its behaviour, and the reason
`RemovalIsComplete` has an exception. A traversal records as history the edges
that were there all along (`steady`) and at any moment (`ever`), and is judged
by both. bbolt keys are compared as bytes; ids are numbers with that order, and
ids with a colon, where one key could be the prefix of another, are left out, as
are the weights and contexts of edges.

### Vault

Encryption per document in one clone. A text is never enciphered: an envelope is
the text together with the set of keys that open it (`Contents`). `work` and
`repo` are the working tree and the blob git last took, `acl` the ACL files (token
sets), `ring` the key ring in its order, `mykey` the private key.

| action | code |
|---|---|
| Load, ReadACL, Truncate, WriteACL | `acl set`, `add`, `rm`: `LoadKeyring`, `ReadACL`, `WriteACL` (`os.WriteFile`, so the file is empty in between) |
| Forge, Forged, Load, Truncate, SaveKeyring | `keys self-init`: the private key, then the ring; `keys import` is the second half |
| Unlock | `registerFilter`: `.git/config`, then `.gitattributes` |
| LockOpen, LockSeal, LockSpills, LockDone | the walk of `lock`: read, truncate, `FilterClean`, or its error |
| Add, Checkout | git calling `filter clean` and `filter smudge` |
| Edit, PeerRotates, CommandFails | an editor; another clone; a failed write or a kill |

`latest`, `named`, `spilled` and `muddled` are history: the text last written by
an editor, the persons that the ACL commands on a document amount to, the
documents a lock emptied and could not fill again, and those whose ACL file two
commands rewrote at once or one left half written. `FilterClean` reads the ACL
and the ring in one step; the public key files belong to the ring's entries; a
truncated ring reads as empty, a truncated private key stops git's smudge. An
`acl add` or `rm` with no name writes back what it read and is left out.

### MC modules

`MCDocStore`, `MCDoctor`, `MCKGIndex`, `MCQuery`, `MCSyncState`, `MCMigrate`,
`MCGraph` and `MCVault` hold symmetry sets, views and values for constants that a
cfg cannot write. `DoctorView` leaves out what no property of those runs reads
(answers and the store's history variable), which no action reads either. Three of
them have a specification of their own (`MCSpec`), whose steps are those of the
module that keep to named bounds; *Runs* says what each leaves out.

## Runs

| run | instance | shows |
|---|---|---|
| `store_serial` | 1 document, 2 callers, 2 edits, faults, hand edits, key changes; serial | `TypeOK`; the refinement `AtomicForSerialCallers` |
| `store_race` | 1 document, 3 callers, faults; overlapping | `PairsAgree` and its strengthening `OneWriter` |
| `doctor_runs` | 1 document, 2 keys, a caller, faults, hand edits, envelopes of both kinds, key changes, commits, integrations files; all subcommands and scopes (`ByTree` or `ByGit`) | `HeadVerified`, `HealConverges`, `SignConverges`, `UnackedHealKeepsEvidence`, `CheckIsExact` |
| `index_build` | 1 document that links or refers to itself, 2 files of its name, 1 of them outside the schema, each of which may be missing or not parse; 2 commands, all modes, failures, kills, edits (`TwoTexts`, `TwoFilesOrTwoCommands`) | `FreshIsLinked`, `FreshIsSearchable`, `BuildCoversAll`, `ForcedCrawlReindexes` |
| `query_walk` | 3 files, 2 goroutines, 1 file changed meanwhile, 40 queries | `EachPathOnce`, `PageIsRight`, `SteadyDocsAreListed`, `ErrorsHaveCause`, `QueryEnds` |
| `sync_records` | 1 document in 3 versions, 2 integrations, 2 runtimes, 2 pages | `PushesAreConfirmed`, `LedgerHasLastPush`, `ReportsAreTrue` |
| `migrate_datadir` | 2 v1 documents of an entity whose `records_dir` may be dropped, 1 of them with a record without a file field; 2 processes, 3 commands or migrations, 1 edit or fault (`DriftedEntries`, `OneSaved`, `SchemaOrThree`) | `EntriesVerify`, `SignAllIsExact`, `NoEntryLost`, `RecordsBecomeSidecars`, `MigrationIsFaithful` |
| `graph_traversal` | 3 nodes, 2 edge types, 8 initial graphs, both stores, 2 transactions beside traversals | `IndexesAgree`, `RemovalIsComplete`, `NeighborsAreRight`, `PathIsShortest`, `ExportIsClosed`, `TraversalsEnd` |
| `vault_encryption` | 1 document, its owner and a peer with up to 2 key pairs each, 2 processes, 3 commands, edits, git operations or rotations, 1 fault | `TextSurvives`, `ACLNamesReaders`, `GitTakesEnvelopes`, `LockScrubs` |

and the runs whose property is what a comment, a test or a document says, and which
the code violates:

| run | instance | violates |
|---|---|---|
| `doctor_virtuals` | a schema with a scalar virtual field | `HealConverges`: "Post-heal must check clean" |
| `index_force` | one forced schema build | `ForceReindexes`: "re-index all documents (ignore staleness)" |
| `migrate_schema` | migrate after `records_dir` was dropped | `RecordsDirIsIgnored`: "'records_dir' is deprecated and ignored in v2; remove it" |

Bounds. Documents do not interact in the store (each has its own two files), so
one document with several actors is where every interleaving is; two edits tell
a version from an older one, from a concurrent one and from both, and three
callers allow a third to come between two that overlap. Two keys tell a
re-signed sidecar from a stale signature, and the faulty key, no key and a good
one are all initial states. What the doctor makes of keys and of git is
independent: a behaviour either runs check, heal and sign on everything or by id,
with keys, signatures and kills, or runs check, the acknowledged heal and fix on
what git reports, with commits and without keys and envelopes (`ByTree`,
`ByGit`); of each kind of envelope there is one (`FewEnvelopes`). In the index a document
writes only rows it is the source of, and links are data, so one document with
a link to itself has every row: one text links and one refers (`TwoTexts`). Two
commands give every overlap, and files that share a name, or do not parse, matter
to one build at a time: with the second file there, one command runs
(`TwoFilesOrTwoCommands`), and each of the two may come first, alone or not at
all. In the query three files and two goroutines let one
goroutine overtake the other and take a second path while the first still
parses; two ranks over three files give ties; offsets and limits reach zero, the
middle and past the end. `MaxEdits`, its only counter, lets one file change,
since each row depends on its own file. In the bookkeeping two integrations
share the file, which is where records get lost, two runtimes give every
overlap, the three versions differ in text and in target, and `MaxRevision` lets
one service take two updates (an older push, a remote edit) and the other one.
The registry is shared by all files: two that a schema manages, with and without
a sidecar, give every class of `ClassifyFile`, and two processes every overlap;
`MaxStarted` lets a migration run twice with a command between, and `MaxFaults`
gives one edit, failure or kill, which may hit any step. A manifest entry that
differs from the file tells a copy from a recomputed one (`DriftedEntries`); the
record without a file field is passed over, so it is enough that the registry
commands, except create, come by it (`OneSaved`); and a schema without its records
directory, which makes a migration short, goes with two commands or migrations
(`SchemaOrThree`). Three nodes hold a
cycle, a path that is not the shortest and a vertex with an outgoing and two
incoming edges (where the cursor of RemoveVertex slips); with `MaxWrites` 2 a
writer can remove and add between any two reads. In the vault one document and
two persons tell a reader from a stranger, two key pairs tell a key from its
replacement, and `MaxActs` 3 is the length of every history that matters: change
the ACL, encrypt, read; that `lock` goes from one document to the next is in the
module only.
Deadlock checking is off where a program whose callers are done, and a query
that has answered, may stop; it is on in `graph_traversal`.

Fairness: the store, the doctor, the index, the bookkeeping, the registry and
the vault have safety and
action properties only, because nothing in the code makes a caller go on.
A query runs in one process: the Go scheduler runs every goroutine that can run and the command
goes on, so List, Gather and Load and the steps of *each* goroutine are weakly
fair, and `QueryEnds` follows; edits need no fairness. A traversal of a graph is
one goroutine that nothing blocks for ever (bbolt's readers do not wait for
writers, SQLite's time out into an error that ends the command), so `Read` is
weakly fair and `TraversalsEnd` follows however writers go on.

A violated property is a real disagreement between the code and what a comment,
a test or a document says of it; `findings` in `PROJECT.json` quotes the line.

### Divergences

Seen on the way, without a run of their own:

- "If a document with that id already exists, returns ErrConflict" (`pkg/sbdb/repo.go:24`)
  is not so of two creates that overlap: `repo.go:37` asks for the file and writes it
  in two steps, both succeed, and one document is replaced. `AtomicForSerialCallers`
  leaves such calls out.
- `repo.go:47` says of concurrent updates "last writer wins". The two renames of
  one Save and those of another may interleave: the markdown is then one
  writer's, the sidecar the other's (`PairsAgree` holds outside such documents
  only), and every check reports tamper.
- check counts an encrypted document as a drift and fails over it (`doctor.go:186`);
  `cmd/doctor_acl_test.go:21` has "Doctor should report it as encrypted, not as
  drift", and then accepts an output with that word in it. `CheckIsExact` says what
  check lists, envelopes included.
- "`doctor fix` never re-signs tampered files" (`docs/guide.md:247`): it writes a
  new sidecar, signed if there is a key, for every document of its scope
  (`doctor.go:262`).
- `heal` lists what it cannot repair (an envelope, a file that does not parse) as an
  error and exits with 0 (`doctor_heal.go:148`); "`0` after reconciliation"
  (`README.md:420`). `HealConverges` promises what it repairs.
- "reconciles sidecars at end of turn via `sbdb doctor heal --since HEAD
  --i-meant-it`" (`README.md:1022`): `git diff` lists tracked files only
  (`doctor_heal.go:239`), so a document an agent has written anew gets no sidecar.
- check `--all` is "to confirm clean state across the entire KB"
  (`claude-plugin/commands/sbdb-review.md:71`), but takes its targets from the
  markdown files (`doctor.go:160`) and meets no orphan sidecar.
- "committed history was already verified" (`README.md:416`): `git status
  --porcelain` lists an untracked directory as one entry (`gitscope.go:106`), so the
  first commit of it passes a clean check of nothing. `HeadVerified` is checked and
  proved of a directory that git tracks.
- The integrations file is "Not part of the doc's integrity hash" (`README.md:910`),
  but a changed one is taken for the sidecar of `<id>.integrations.md`
  (`gitscope.go:80`), and check fails over it with missing-md.
- "Index ALL .md files" (`claude-plugin/commands/sbdb-graph.md:89`): of two files
  of one base name the later one takes the node, the edges and the chunks of the
  earlier (`crawl.go:87`); `ForcedCrawlReindexes` asks for one of them.
- "The migration is idempotent — safe to re-run" (`SKILL.md:51`,
  `RELEASES/2.0.0.md:50`): after it the untracked commands make `data/` anew for
  their registry, and the next migrate takes that for a v1 layout and removes it
  (`doctor.go:402`; `NoEntryLost` counts it among the ways an entry goes).
- "RemoveNode deletes a node and all its edges" (`kg/graph.go:47`): the results of
  its three DELETEs are dropped and the transaction committed (`kg/graph.go:55`), so
  what failed stays and the caller is told of success.
- "RemoveVertex deletes a vertex and all its edges" (`graphstore/store.go:126`):
  every second incoming edge of a vertex that also had an outgoing one stays
  (`RemovalIsComplete`).
- `ExportJSON` of `kg/graph.go` adds a missing target once per edge to it;
  `ExportGraphJSON` of the graphstore once (`ExportIsClosed`).
- `unlock` only registers the filter, although `docs/guide/acl.md` has it decrypt
  the working tree; files stay envelopes until git writes them again.
- `lock` truncates a document before it can know that encryption succeeds: an
  unknown reader, an ACL without readers (`acl rm` of the last one) or a
  concurrent rewrite of ACL or ring leaves it empty and the text gone, although
  the guide says that envelopes remain on disk (`spilled` in `TextSurvives`).
- An envelope passes the clean filter as it is, so after `acl rm` a `git add` of
  a locked document keeps the old readers (`GitTakesEnvelopes` says so of plain
  files only).
- After a second `self-init` in one clone, `ByNickname` and `ByToken` still find
  the first token and public key, so a renewed ACL encrypts to the lost key and
  `keys export` joins the old token with the new key; and `acl rm` of a person
  with two tokens may remove nothing (`AsMeant` leaves out persons with two key
  pairs).
- "`last_push` only ever moves forward on a confirmed success"
  (`docs/guide/sync.md:178`) is true of one runtime at a time. Of two that record
  at once, the later write restores the other integration's older record, or
  removes it; `LedgerHasLastPush` says when the last push is there.
- A document that names no target counts as `never_published` in `sync check` and
  makes it exit 4, although the guide says that it reports drift only for
  documents that do.
- `last_error` is "overwritten on the next attempt (success or failure)"
  (`sync/types.go:105`), but recording a check leaves it, and `sync check` records
  nothing at all.
- `list` says it reads records.yaml; it walks the markdown files.
- `query --load-content` may answer with fields of one version and the body of
  the next (the last part of `PageIsRight` says which is which), and pages of separate
  `list` calls without `--order` may overlap, because records come in the order
  slots were claimed.
- `--recompute`, `--force` and `--id` of `doctor fix` and `sign` are read by nothing.
- A check, heal or fix with a damaged key goes on without one (`KeyOrNil`), and
  writes unsigned sidecars over signed ones.
- `index build --id` is read by nothing; `RemoveDocument` has no caller, so
  deleted documents stay in the graph until `index drop`.
- A crawl leaves the chunks of a document whose text was removed
  (`FreshIsSearchable` excludes it).

## Proofs

`DocStore_proofs` proves, for every set of documents, callers, edits and keys
and every setting of the switches, assuming only the named ASSUMEs of Integrity
and DocStore (the marks for missing and broken files and keys are distinct from
documents and keys, and the switches are Boolean):

- `TypeCorrect`: `Spec => []TypeOK`. One step per action; `JobFields`,
  `NewSidecarType` and `ReadType` are the facts about records it rests on.
- `PairsAgreeAlways`: `Spec => []PairsAgree`. PairsAgree is not inductive: that
  a save leaves a document paired depends on the markdown being still the one
  this call wrote. The inductive invariant is `TypeOK /\ PairsAgree /\ OneWriter`:
  in an undisturbed document at most one call is between its two writes, and the
  markdown is what it left there. A write while another call is in between marks
  the document disturbed, and a sidecar write clears the mark only when it
  finds its own markdown and nobody else in between, which is exactly what
  re-establishes OneWriter. Steps that touch neither files nor calls are
  dispatched by `QuietStep`.

The same module proves what callers may count on when no two calls overlap on a
document, from the same assumptions and `SerialCallers`:

- `SerialInvAlways`: the inductive invariant `SerialInv`: a document has one call
  at a time (`OneCall`), the version a call has read is still on disk until it
  writes (`BaseStands`), afterwards its own text is (`TextStands`), and an update
  carries the edits it has read (`UpdatesAdd`). No version a call holds is
  outdated, which is what the refinement needs and types cannot give.
- `SerialCallersAreAtomic`: `Spec => AtomicForSerialCallers`, the refinement of
  DocStoreAbs. `CallBegins`, `CallApplies` and `CallEnds` say what a change of
  `job` means for the mapped `call`; `SerialRefines` goes through the actions:
  the first write of a call is the abstract Apply, its last step Finish, the
  sidecar's write a stutter.

`Doctor_proofs` proves what an undisturbed doctor run may say, for any documents,
callers, edits and keys, from the assumptions of DocStore and `DoctorAssumption`
(the subcommands and scope flags are those of the code). Its lemmas say what each
step makes of the run (`Started`, `Concluded`, `Saved`, ...), what each verdict
takes (`VerdictMeans`), and that a step of anybody else which changes a file or
the key leaves the run disturbed (`OthersStep`).

- `DoctorInvAlways`: the inductive invariant, `RunShapes /\ RunTrack`. A verdict
  or an exit code says something of files read much earlier, one by one, so
  `RunTrack` says of an undisturbed run that what it has at hand is still what
  the files say (`AtHand`), and of each document that it is either still to be
  dealt with (`Pending`) or as that subcommand must leave it: reported exactly if
  it drifts or is an envelope (`CheckTrack`), with a sidecar computed from it
  (`SignTrack`), without a missing or tampered sidecar unless something was found
  (`HealTrack`). At the exit nothing is pending.
- `DoctorTypeCorrect`, `CheckIsAlwaysExact`, `SignAlwaysConverges`,
  `UnackedHealAlwaysKeepsEvidence`: from that invariant alone.
- `HealAlwaysConverges`: with `~ScalarVirtuals`. Without it the property is false
  (run `doctor_virtuals`); the hypothesis is used in one lemma, `WrittenIsClean`.
  It promises what heal repairs; for the rest see *Divergences*.
- `HeadAlwaysVerified`: with `DirTracked`, without which it is false too (see
  *Divergences*). `Gate` strengthens it: while `verified` holds, the files on disk
  are pairs as well. A clean check establishes that from both ends: a document it
  covers is clean, and any other is as in HEAD.

`KGIndex_proofs` proves the index, for any documents, links, embedders and
number of commands, from `IndexAssumption`:

- `KGInvAlways`, `KGTypeCorrect`: the inductive invariant `KGInv`. Of a document
  at rest it is the property; of one in the middle of a pass `DocInv` says how far
  the tables are (`Progress`), if nothing was lost and nobody overlapped, and
  otherwise that the pass is not clean and the document torn. Two passes over one
  document both know, and a drop has emptied its tables in order.
- `FreshAlwaysLinked`, `FreshAlwaysSearchable`: `FreshIsLinked` and
  `FreshIsSearchable`, from it.
- `BuildsCoverAll`, `ForcedCrawlsReindex`: `BuildCoversAll` and
  `ForcedCrawlReindexes`, action properties, from `QuietInv`: a build beside which
  nothing happened is done with every document that it no longer has to do
  (`DoneWith`), and has come with the one at hand as far as its stage says. Done
  means that some file of its scope with that id, if one can be read, is the one
  the tables hold: files that do not parse are passed over, and of several of one
  name it is one of them.

`Query_proofs` proves the pool and the page, for any documents, versions, goroutines
and queries, from `QueryAssumption`:

- `QueryTypeCorrect`, `EachPathAlwaysOnce`: the inductive invariant `PoolInv`. A
  listed path is in one place (`PathsInv`: in the channel, with a goroutine, or in
  a slot), the counter has as many slots left as there are paths without one, and
  a goroutine that parses has an empty slot of its own (`SlotsInv`).
- `ErrorsAlwaysHaveCause`, `SteadyDocsAlwaysListed`, `PageAlwaysRight`: with
  `TruthInv` (a slot holds what the file said when it was listed, or the file was
  edited) and `AnswerInv` (the rows answered and those still to load make up the
  page). The lemmas on `Place` say that it is a permutation which orders the
  records: that is all the page needs of the sort.

`SyncState_proofs` proves, for any runtimes, integrations, targets and versions,
from `SyncAssumption` (None is no target, no version and no version with a
revision, a version names a target or None for every integration, the bounds are
numbers):

- `SyncTypeCorrect`: `Spec => []SyncTypeOK`.
- `PushesAlwaysConfirmed`: `Spec => []PushesAreConfirmed`. The file is made of
  what some runtime read earlier and of what it carries, so the inductive
  invariant `SyncInv` adds `Sound(run[p])` for every runtime: a push it has made
  is confirmed, and so is every push in the copy of the file it will write back.
  A service only takes more updates, so what was confirmed stays so
  (`ConfirmedStays`), and an action changes one runtime (`SoundRun`).
- `LedgerAlwaysHasLastPush`, `ReportsAlwaysTrue`: `Spec => []LedgerHasLastPush`
  and `Spec => ReportsAreTrue`, from `LastPushInv`: of an integration that is not
  `loose` at most one push is on its way to the file, and it is the last one; with
  none on its way the file has it (`Tracked`).

`Graph_proofs` proves, for any finite sets of ids and edge types, any graph to start
from, any depths and any number of transactions, from `GraphAssumption`:

- `IndexesAlwaysAgree`: `GraphSpec => []IndexesAgree`. The inductive invariant
  `IndexInv` says pair by pair what the property says of the three buckets
  (`Agree`): a pair is in the outgoing index exactly if an edge joins it, and in
  the incoming one exactly if it is, turned round, in the outgoing one. Every
  transaction deletes pairs and puts pairs (`DeletePairs`, `PutPair`).
- `RemovalLeavesLittle`: `GraphSpec => RemovalIsComplete`, of the bbolt store's
  RemoveVertex (the SQLite store's RemoveNode promises more and keeps less: see
  *Divergences*), from the same invariant and what the cursor passes over when a key is deleted under it
  (`PassedOver`).
- `GraphInvAlways`, `GraphTypeCorrect`: the inductive invariant of a traversal with
  writers beside it (`ReadInv`). What is known of the nodes visited lies between two
  graphs, that of the edges there all along and that of the edges there ever
  (`Between`); a commit only takes from the first and adds to the second, and balls
  and distances grow with the edges (`BallGrows`, `ForwardGrows`).
- `NeighborsAlwaysRight`: `GraphSpec => []NeighborsAreRight`, from `Spread`: at hop n
  the visited nodes that are not of the next frontier include the n-ball of the
  steady edges, lie in that of all edges, and are `Followed` but for the frontier. At
  the depth that is the answer; when no next frontier is left, no steady hop leaves
  the visited nodes (`BallClosed`).
- `PathAlwaysShortest`: `GraphSpec => []PathIsShortest`, from `Searching`: the queued
  paths differ by one hop at most and ascend, each visited node has been extended or
  ends one, and whatever fewer steady hops reach than the first path has nodes is
  visited. So a path to a node not visited yet is no longer than a steady one, and
  with an empty queue there is none.
- `ExportAlwaysClosed`: `GraphSpec => []ExportIsClosed`.

Facts about walks of any length, and that a finite set can be put in order, are had
without induction, from the first place at which they would fail (`Least`).

`Migrate_proofs` proves the registry commands and a migration beside them, for any files, entities, texts and processes, from
`UntrackedAssumption` and `MigrateAssumption`. The invariant of the commands is
`Sees`: what a command holds of a file (the hash it took, the entry it loaded,
what its walk found) is still so, unless another one has touched that file since,
which it is told. Without it nothing could be said of the registry that a command
writes back whole. `MigInv` adds the migration: the entities it has been through
have their sidecars except for the documents `Pending` (`Converted`) and those it
skips, whose schema does not name them or whose records have no file, and until a
migration has ended or was cut short in removing data/, those sidecars hold the
manifest's entries (`Faithful`).

- `RegisteredFilesVerify`: `EntriesVerify`, an invariant.
- `SignAllAddsWhatIsLeft`, `EntriesGoKnowingly`, `RecordsAreNotLost`,
  `FirstMigrationIsFaithful`: `SignAllIsExact`, `NoEntryLost`,
  `RecordsBecomeSidecars` and `MigrationIsFaithful`, action properties.

`Vault_proofs` proves encryption, for any documents, persons, texts and processes
and any number of key pairs, from `VaultAssumption` (the marks for missing files
and ACLs are no documents, contents or token sets; persons are finitely many). Its
lemmas say once what each step does (`LoadMoves`, `OpenMoves`, `SealMoves`, ...)
and what the ring's look-ups and the filter return (`ResolvedTokens`, `CleanOK`).

- `VaultTyped`, `VaultTypes`: the type invariant `TypeInv`, with what types need:
  each command is at one of its stages, and every entry of a ring and every token
  of an ACL names a key pair that was generated, of one person.
- `EncryptionKeepsText`: `VaultSpec => []TextSurvives`. `TextSurvives` says
  nothing while a lock has the document open; `TextInv` does: the lock then holds
  the text itself (`Kept`), or somebody else has written the document since
  (`Disturbed`), and that lock's end puts it among the `spilled`.
- `LockLeavesNoPlainText`: `VaultSpec => LockScrubs`. `ScrubInv` is about a lock
  under way: what it has visited, and nobody has written since, is an envelope;
  an ACL once there stays (`ACLsStay`), so the filter encrypts.
- `ReadersAreThoseMeant`, `GitGetsEnvelopes`: `ACLNamesReaders` and
  `GitTakesEnvelopes`, from `ACLInv`: the tokens that an undisturbed command is about
  to write are those of the persons meant (`OutOf`), or another command is in the
  middle of writing that ACL and will disturb it. `acl rm` needs that whoever
  generated one key pair has one token (`ChangedNames`).

Every safety invariant and action property of the passing runs is a theorem, with
the assumptions named above. Only model-checked, because the prover does neither
liveness nor ENABLED: `QueryEnds`, `TraversalsEnd`.

## Not modelled

- Text handling without state: parsing and writing of YAML and markdown,
  the chunker and link extraction, virtual fields (a Starlark interpreter and
  regular expressions), schema files and their JSON schema export, output
  formats, the configuration and the init wizard. Where another part depends on
  the result it is data there (a text parses or does not, a body has these links),
  and their failures are failures of the step that calls them.
- Events: a parser of the output of `git log`, run once per call.
- Schema Diff and its classification of breaking changes: a function of two
  schemas whose reference definition would be the function again.
- Semantic and text search, statistics and counts: rankings and sums over records
  that Query, KGIndex and Graph already deliver.
- Sync targets, enforcement of required targets and validation of the
  configuration: they read what SyncState models, and write nothing.
- Git itself, bbolt, SQLite, OpenPGP and the external services: what the code
  relies on of them is in the actions marked external.

## Plan

Done: Integrity, DocStore with its refinement, Doctor, KGIndex, Query,
SyncState, Untracked, Migrate, Graph, Vault, and the proofs above. What would
come next, in this order:

1. Migrate composed with Doctor: a migrated document under check and heal.
2. The chunker and the events parser as functions on token lists, against
   reference definitions over bounded inputs.
