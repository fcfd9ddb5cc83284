------------------------------- MODULE MCMigrate -------------------------------
(* Instances of Migrate and Untracked: two documents of one entity in the v1  *)
(* layout.  The record of one of them lacks its file field.                   *)
EXTENDS Migrate, TLC
CONSTANTS doc, nofield, entity

MCEntityOf == [f \in Files |-> entity]

\* Bound: a manifest entry differs from the file, which is empty at first, or there
\* is none.  (Nothing reads the entry of a document without a file field.)
DriftedEntries == v1[nofield] = NoEntry /\ v1[doc] # Blank

\* Bound: of the commands, only sign, sign-all and delete touch the document
\* without a file field.
OneSaved == \A p \in Procs :
  cmd[p] # NoCmd /\ cmd[p].op \in {"create", "document", "drop_document"} => cmd[p].file = doc

\* Bound: with a schema that no longer names its records, two commands and
\* migrations are started at most.
SchemaOrThree == named = Entities \/ started < MaxStarted

MCInit == MigrateInit /\ DriftedEntries
MCNext == MigrateNext /\ OneSaved' /\ SchemaOrThree'
MCSpec == MCInit /\ [][MCNext]_migrateVars
Symmetry == Permutations(Procs)
=============================================================================
