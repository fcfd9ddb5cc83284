-------------------------------- MODULE Migrate --------------------------------
(***************************************************************************)
(* sbdb doctor migrate (cmd/doctor.go): the v1 layout of data/, one records *)
(* file and one manifest per entity, becomes one sidecar per document, and  *)
(* data/ is removed, with whatever else is in it: the untracked registry.   *)
(* It runs beside the commands of Untracked, can be a dry run, can fail or  *)
(* be killed at any step, and can be run again.                             *)
(***************************************************************************)
EXTENDS Untracked

CONSTANTS
  Entities,    \* the entities with a records_dir
  EntityOf,    \* EntityOf[f]: the entity whose v1 records name f, or NoFile
  Unfiled,     \* files whose v1 record has no "file" field
  Custom       \* entities whose records_dir is in data/, and is not data/<entity>

ASSUME MigrateAssumption ==
  /\ EntityOf \in [Files -> Entities \cup {NoFile}]
  /\ Unfiled \subseteq Files
  /\ Custom \subseteq Entities

VARIABLES
  legacy,     \* the v1 files in data/
  v1,         \* v1[f]: the text of f's entry in the manifest (never changes)
  named,      \* the entities whose schema names the directory of their records
  mig,        \* the migrate run in progress
  cut,        \* history: a run ended while it was removing data/
  completed   \* history: some run removed data/

legacyVars == <<legacy, v1, named, mig, cut, completed>>
migrateVars == <<untrackedVars, legacyVars>>

LegacyFiles == {"records", "manifest"} \X Entities
Recorded(e) == {f \in Files : EntityOf[f] = e}

\* A run: named is what the schemas said when it began, ent the entity at hand,
\* docs the records still to convert, man whether its manifest was there, new the
\* sidecar about to be saved for doc.
NoRun == [stage |-> "none"]
MigRuns == [stage : {"schemas", "manifest", "docs", "save", "wipe"}, dry : BOOLEAN,
            todo : SUBSET Entities, named : SUBSET Entities, ent : Entities \cup {NoFile},
            docs : SUBSET Files, man : BOOLEAN, doc : Files \cup {NoFile}, new : Sidecars \cup {NoFile},
            touched : SUBSET Files]

MigrateInit ==
  /\ UntrackedInit
  /\ legacy = LegacyFiles /\ dataDir
  /\ \A f \in Files : disk[f] = NoFile <=> EntityOf[f] = NoFile
  /\ v1 \in [Files -> Texts \cup {NoEntry}]
  /\ \A f \in Files : EntityOf[f] = NoFile => v1[f] = NoEntry
  /\ named = Entities /\ mig = NoRun /\ cut = FALSE /\ completed = FALSE

-----------------------------------------------------------------------------

MigGo(r) == mig' = r /\ UNCHANGED <<untrackedVars, legacy, v1, named, cut, completed>>
AtStage(stage) == mig # NoRun /\ mig.stage = stage

\* Without data/ there is nothing to do ("already-v2").
StartMigrate(dry) ==
  /\ mig = NoRun /\ started < MaxStarted /\ dataDir
  /\ mig' = [stage |-> "schemas", dry |-> dry, todo |-> Entities, named |-> named, ent |-> NoFile,
             docs |-> {}, man |-> FALSE, doc |-> NoFile, new |-> NoFile, touched |-> {}]
  /\ started' = started + 1
  /\ UNCHANGED <<disk, sidecar, registry, dataDir, cmd, loose, faults,
                 legacy, v1, named, cut, completed>>

\* sbdb schema migrate drops records_dir (as the loader asks of the user, too):
\* the schema then names data/<entity>.
RewriteSchema(e) ==
  /\ e \in Custom \cap named
  /\ named' = named \ {e}
  /\ UNCHANGED <<untrackedVars, legacy, v1, mig, cut, completed>>

RecordsDirFound(e) == e \in mig.named /\ {<<"records", e>>, <<"manifest", e>>} \cap legacy # {}

\* LoadAllPartitions: no records file is no records; a record without a file
\* is skipped.
LoadRecords(e) ==
  /\ AtStage("schemas") /\ e \in mig.todo /\ RecordsDirFound(e)
  /\ MigGo([mig EXCEPT !.stage = "manifest", !.ent = e, !.todo = @ \ {e},
                       !.docs = IF <<"records", e>> \in legacy
                                  THEN Recorded(e) \ Unfiled ELSE {}])

\* Mutation of EntityDone: a dry run goes on to remove data/.
EntityDoneWet(r) == [r EXCEPT !.stage = IF r.todo # {} THEN "schemas" ELSE "wipe"]

\* The next entity; after the last one a dry run ends.
EntityDone(r) == IF r.todo # {} THEN [r EXCEPT !.stage = "schemas"]
                 ELSE IF r.dry THEN NoRun ELSE [r EXCEPT !.stage = "wipe"]

\* An entity whose records directory is not found is skipped; data/ goes all the
\* same.
SkipEntity(e) ==
  /\ AtStage("schemas") /\ e \in mig.todo /\ ~RecordsDirFound(e)
  /\ MigGo(EntityDone([mig EXCEPT !.todo = @ \ {e}]))

\* LoadManifest: no manifest file is a manifest without entries.
LoadManifest ==
  /\ AtStage("manifest")
  /\ MigGo([mig EXCEPT !.stage = "docs", !.man = <<"manifest", mig.ent>> \in legacy])

\* Mutation of BuildSidecar: the text on disk is trusted, entry or not.
BuildFromDisk(f) == [of |-> IF disk[f] \in Texts THEN disk[f] ELSE Unparsed, from |-> "disk"]

\* buildSidecarFromV1: the entry is copied; without one the hashes are those of
\* the file on disk, or empty if that does not parse.
BuildSidecar(f) ==
  IF mig.man /\ v1[f] # NoEntry
    THEN [of |-> v1[f], from |-> "v1"]
    ELSE [of |-> IF disk[f] \in Texts THEN disk[f] ELSE Unparsed, from |-> "disk"]

Convert(f) ==
  /\ AtStage("docs") /\ f \in mig.docs
  /\ MigGo([mig EXCEPT !.docs = @ \ {f},
                       !.stage = IF mig.dry THEN "docs" ELSE "save",
                       !.doc = IF mig.dry THEN NoFile ELSE f,
                       !.new = IF mig.dry THEN NoFile ELSE BuildSidecar(f)])

\* Sidecar.Save: whatever sidecar is there is replaced.
SaveSidecar ==
  /\ AtStage("save")
  /\ sidecar' = [sidecar EXCEPT ![mig.doc] = mig.new]
  /\ mig' = [mig EXCEPT !.stage = "docs", !.doc = NoFile, !.new = NoFile]
  /\ cmd' = [q \in Procs |-> IF cmd[q] = NoCmd THEN NoCmd
                             ELSE [cmd[q] EXCEPT !.touched = @ \cup {mig.doc}]]
  /\ UNCHANGED <<disk, registry, dataDir, loose, started, faults,
                 legacy, v1, named, cut, completed>>

NextEntity ==
  /\ AtStage("docs") /\ mig.docs = {}
  /\ MigGo(EntityDone(mig))

\* os.RemoveAll(data/) takes away one file after the other, in any order.
WipeLegacy(x) ==
  /\ AtStage("wipe") /\ x \in legacy
  /\ legacy' = legacy \ {x}
  /\ UNCHANGED <<untrackedVars, v1, named, mig, cut, completed>>
WipeRegistry ==
  LET lost == {f \in Files : registry[f] # NoEntry} IN
  /\ AtStage("wipe") /\ lost # {}
  /\ registry' = [f \in Files |-> NoEntry]
  /\ cmd' = [q \in Procs |-> IF cmd[q] = NoCmd THEN NoCmd
                             ELSE [cmd[q] EXCEPT !.touched = @ \cup lost]]
  /\ UNCHANGED <<disk, sidecar, dataDir, loose, started, faults, legacyVars>>
WipeDir ==
  /\ AtStage("wipe") /\ legacy = {} /\ \A f \in Files : registry[f] = NoEntry
  /\ dataDir' = FALSE
  /\ mig' = NoRun /\ completed' = TRUE
  /\ UNCHANGED <<disk, sidecar, registry, cmd, loose, started, faults,
                 legacy, v1, named, cut>>

\* A legacy file that does not parse, a sidecar that cannot be written, a
\* removal that fails, or the process is killed.
MigrateFails ==
  /\ mig # NoRun /\ faults < MaxFaults
  /\ mig' = NoRun
  /\ cut' = (cut \/ mig.stage = "wipe")
  /\ faults' = faults + 1
  /\ UNCHANGED <<disk, sidecar, registry, dataDir, cmd, loose, started,
                 legacy, v1, named, completed>>

\* The registry commands, the document store and editors go on meanwhile.
UntrackedStep ==
  LET fs == {f \in Files : disk'[f] # disk[f] \/ sidecar'[f] # sidecar[f]} IN
  /\ UntrackedNext
  /\ mig' = IF mig = NoRun THEN NoRun ELSE [mig EXCEPT !.touched = @ \cup fs]
  /\ UNCHANGED <<legacy, v1, named, cut, completed>>

MigrateStep ==
  \/ \E dry \in BOOLEAN : StartMigrate(dry)
  \/ \E e \in Entities : LoadRecords(e) \/ SkipEntity(e) \/ RewriteSchema(e)
  \/ LoadManifest \/ SaveSidecar \/ NextEntity
  \/ \E f \in Files : Convert(f)
  \/ \E x \in LegacyFiles : WipeLegacy(x)
  \/ WipeRegistry \/ WipeDir \/ MigrateFails

MigrateNext == MigrateStep \/ UntrackedStep
MigrateSpec == MigrateInit /\ [][MigrateNext]_migrateVars

-----------------------------------------------------------------------------

\* Every variable of a migration holds what the code can put there.
MigrateTypeOK ==
  /\ UntrackedTypeOK
  /\ legacy \subseteq LegacyFiles
  /\ v1 \in [Files -> Texts \cup {NoEntry}]
  /\ named \subseteq Entities /\ mig \in MigRuns \cup {NoRun}
  /\ {cut, completed} \subseteq BOOLEAN

\* No v1 record is given up before its document has a sidecar: whatever failed and
\* however often migrate was run before, when it removes a records file each
\* document named there has one.  Not so for an entity whose schema does not name
\* its records, for records without a file field, and for documents that others
\* changed or deleted while it ran.
RecordsBecomeSidecars ==
  [][\A e \in Entities : (<<"records", e>> \in legacy \ legacy' /\ e \in mig.named) =>
       \A f \in Recorded(e) \ (Unfiled \cup mig.touched) : sidecar[f] # NoFile
    ]_migrateVars

\* The first migration that ends gives every document its v1 manifest entry,
\* drift included, as its sidecar; with the same exceptions, and not so after a run
\* that was cut short in removing data/ (the next one may find the records without
\* the manifest, and trusts the text on disk).
MigrationIsFaithful ==
  [][(WipeDir /\ ~completed /\ ~cut) =>
       \A e \in mig.named : \A f \in Recorded(e) \ (Unfiled \cup mig.touched) :
         v1[f] # NoEntry => sidecar[f] = [of |-> v1[f], from |-> "v1"]
    ]_migrateVars

\* "'records_dir' is deprecated and ignored in v2; remove it" (schema/loader.go:31):
\* what the schema says of it decides over no record - the documents of a records
\* file that migrate removes have sidecars.
RecordsDirIsIgnored ==
  [][\A e \in Entities : <<"records", e>> \in legacy \ legacy' =>
       \A f \in Recorded(e) \ (Unfiled \cup mig.touched) : sidecar[f] # NoFile
    ]_migrateVars

\* A registry entry goes away by a delete of its file, by a migration (which
\* removes the registry with the rest of data/), or by the save of a command that
\* another one overlapped on that file; in no other way.
NoEntryLost ==
  [][\A f \in Files :
       (registry[f] # NoEntry /\ registry'[f] = NoEntry) =>
         \/ WipeRegistry
         \/ \E p \in Procs : /\ Save(p)
                            /\ \/ cmd[p].op = "delete" /\ cmd[p].file = f
                               \/ f \in cmd[p].touched
    ]_migrateVars
=============================================================================
