------------------------------ MODULE Untracked ------------------------------
(***************************************************************************)
(* sbdb untracked create, sign, sign-all and delete (cmd/untracked.go), and *)
(* the registry they keep in data/.untracked.yaml (pkg/sbdb/untracked).     *)
(*                                                                          *)
(* Every command loads the whole registry, changes its copy and saves the   *)
(* copy (temp file, then rename), without a lock; the markdown is written,  *)
(* read back or removed before that.  Commands run beside each other, beside *)
(* the document store and beside editors.                                   *)
(*                                                                          *)
(* A text stands for the frontmatter and the body of a file, and an entry   *)
(* for the text whose two hashes it holds.                                  *)
(***************************************************************************)
EXTENDS Naturals

CONSTANTS
  Files,         \* markdown files under docs/
  UnderSchema,   \* those inside the docs_dir of some schema
  Texts,         \* what a parseable markdown file can hold
  Blank,         \* the empty file, which parses
  Unparsed,      \* the frontmatter is not YAML
  NoFile,        \* the file does not exist
  NoEntry,       \* the registry has no entry for the file
  Procs,         \* processes running commands
  MaxStarted,    \* bound: commands (and migrations) started
  MaxFaults      \* bound: hand edits, failures and crashes

ASSUME UntrackedAssumption ==
  /\ UnderSchema \subseteq Files /\ Blank \in Texts
  /\ {Unparsed, NoFile, NoEntry} \cap Texts = {} /\ Unparsed # NoFile
  /\ NoFile \notin Files \cup [of : Texts \cup {Unparsed}, from : {"v1", "disk", "store"}]
  /\ MaxStarted \in Nat /\ MaxFaults \in Nat

VARIABLES
  disk,       \* disk[f]: what the file holds
  sidecar,    \* sidecar[f]: the integrity sidecar next to it
  registry,   \* registry[f]: data/.untracked.yaml
  dataDir,    \* does data/ exist?
  cmd,        \* cmd[p]: the command p is in the middle of
  loose,      \* history: files whose entry need not match: hand edited, saved
              \* or deleted as a document, or in a command that failed or overlapped
  started, faults   \* counters, for the bounds

untrackedVars == <<disk, sidecar, registry, dataDir, cmd, loose, started, faults>>

Contents == Texts \cup {Unparsed, NoFile}
Registries == [Files -> Texts \cup {NoEntry}]

\* What a sidecar was computed from, and by whom: "v1" was copied from the
\* manifest, "disk" rebuilt by migrate, "store" written by a document save.
Sidecars == [of : Texts \cup {Unparsed}, from : {"v1", "disk", "store"}]

Ops == {"create", "sign", "sign_all", "delete", "document", "drop_document"}
Stages == {"truncate", "write", "pair", "sign", "remove", "unpair", "load", "walk",
           "sign_each", "save"}

\* A command: entry is what SignFile returned, reg the copy of the registry,
\* todo the files still to visit or sign, found the unregistered ones.
\* History: touched are the files others changed while it ran.
NoCmd == [op |-> "none"]
Cmds == [op : Ops, file : Files \cup {NoFile}, text : Texts, at : Stages,
         entry : Texts \cup {NoEntry}, reg : Registries \cup {NoEntry},
         todo : SUBSET Files, found : SUBSET Files, touched : SUBSET Files]

-----------------------------------------------------------------------------

At(p, stage) == cmd[p] # NoCmd /\ cmd[p].at = stage

\* p takes a step and becomes c; the commands of the others see the files fs
\* change under them.
Step(p, c, fs) ==
  cmd' = [q \in Procs |->
            IF q = p THEN c
            ELSE IF cmd[q] = NoCmd THEN NoCmd
            ELSE [cmd[q] EXCEPT !.touched = @ \cup fs]]
Go(p, stage, fs) == Step(p, [cmd[p] EXCEPT !.at = stage], fs)

Counters == <<started, faults>>

UntrackedInit ==
  /\ disk \in [Files -> {NoFile, Blank}]
  /\ sidecar = [f \in Files |-> NoFile]
  /\ registry = [f \in Files |-> NoEntry]
  /\ dataDir \in BOOLEAN
  /\ cmd = [p \in Procs |-> NoCmd]
  /\ loose = {} /\ started = 0 /\ faults = 0

FirstStage(op) == CASE op = "create"   -> "truncate"
                    [] op = "sign"     -> "sign"
                    [] op = "sign_all" -> "load"
                    [] op \in {"delete", "drop_document"} -> "remove"
                    [] op = "document" -> "write"

\* What is asked of a command; "document" is a Repo.Create or Update, and
\* "drop_document" a Repo.Delete.
Requests == ({"create"} \X Files \X (Texts \ {Blank}))
            \cup ({"document"} \X UnderSchema \X (Texts \ {Blank}))
            \cup ({"drop_document"} \X UnderSchema \X {Blank})
            \cup ({"sign", "delete"} \X Files \X {Blank})
            \cup {<<"sign_all", NoFile, Blank>>}

Start(p, r) ==
  /\ cmd[p] = NoCmd /\ started < MaxStarted
  /\ Step(p, [op |-> r[1], file |-> r[2], text |-> r[3], at |-> FirstStage(r[1]),
              entry |-> NoEntry, reg |-> NoEntry, todo |-> {},
              found |-> {}, touched |-> {}], {})
  /\ started' = started + 1
  /\ UNCHANGED <<disk, sidecar, registry, dataDir, loose, faults>>

\* os.WriteFile truncates the file that is there...
Truncate(p) ==
  /\ At(p, "truncate")
  /\ disk' = [disk EXCEPT ![cmd[p].file] = Blank]
  /\ Go(p, "write", {cmd[p].file})
  /\ UNCHANGED <<sidecar, registry, dataDir, loose, Counters>>

\* ... and writes the text; the document store renames a whole file.
Write(p) ==
  LET c == cmd[p] IN
  /\ At(p, "write")
  /\ disk' = [disk EXCEPT ![c.file] = c.text]
  /\ Go(p, IF c.op = "document" THEN "pair" ELSE "sign", {c.file})
  /\ UNCHANGED <<sidecar, registry, dataDir, loose, Counters>>

\* The document store's second file; it knows of no registry.
Pair(p) ==
  LET c == cmd[p] IN
  /\ At(p, "pair")
  /\ sidecar' = [sidecar EXCEPT ![c.file] = [of |-> c.text, from |-> "store"]]
  /\ Step(p, NoCmd, {c.file})
  /\ loose' = loose \cup {c.file}
  /\ UNCHANGED <<disk, registry, dataDir, Counters>>

\* untracked delete: the error of os.Remove is dropped.
RemoveFile(p) ==
  /\ At(p, "remove") /\ cmd[p].op = "delete"
  /\ disk' = [disk EXCEPT ![cmd[p].file] = NoFile]
  /\ Go(p, "load", {cmd[p].file})
  /\ UNCHANGED <<sidecar, registry, dataDir, loose, Counters>>

\* Repo.Delete: the markdown of a document that is there, then its sidecar.
RemoveDocument(p) ==
  LET f == cmd[p].file IN
  /\ At(p, "remove") /\ cmd[p].op = "drop_document" /\ disk[f] # NoFile
  /\ disk' = [disk EXCEPT ![f] = NoFile]
  /\ Go(p, "unpair", {f})
  /\ UNCHANGED <<sidecar, registry, dataDir, loose, Counters>>
Unpair(p) ==
  LET f == cmd[p].file IN
  /\ At(p, "unpair")
  /\ sidecar' = [sidecar EXCEPT ![f] = NoFile]
  /\ Step(p, NoCmd, {f})
  /\ loose' = loose \cup {f}
  /\ UNCHANGED <<disk, registry, dataDir, Counters>>

\* ErrNotFound.
DocumentAbsent(p) ==
  /\ At(p, "remove") /\ cmd[p].op = "drop_document" /\ disk[cmd[p].file] = NoFile
  /\ Step(p, NoCmd, {})
  /\ UNCHANGED <<disk, sidecar, registry, dataDir, loose, Counters>>

\* The commands that change a file first and what is kept of it later.
TwoStep == {"create", "delete", "document", "drop_document"}

\* The files a command that ends here leaves in doubt.
InDoubt(p) ==
  LET c == cmd[p] IN
  IF c.op \in TwoStep /\ c.at # FirstStage(c.op)
    THEN {c.file} ELSE {}
Fail(p) == Step(p, NoCmd, {}) /\ loose' = loose \cup InDoubt(p)

\* SignFile: the file is read back and hashed.
SignFile(p) ==
  LET c == cmd[p] IN
  /\ At(p, "sign")
  /\ IF disk[c.file] \in Texts
       THEN /\ Step(p, [c EXCEPT !.entry = disk[c.file], !.at = "load"], {})
            /\ UNCHANGED loose
       ELSE Fail(p)
  /\ UNCHANGED <<disk, sidecar, registry, dataDir, Counters>>

\* untracked.Load.
Load(p) ==
  /\ At(p, "load")
  /\ Step(p, IF cmd[p].op = "sign_all"
                THEN [cmd[p] EXCEPT !.reg = registry, !.at = "walk", !.todo = Files]
                ELSE [cmd[p] EXCEPT !.reg = registry, !.at = "save"], {})
  /\ UNCHANGED <<disk, sidecar, registry, dataDir, loose, Counters>>

\* Mutation of ClassifyFile: everything under a docs_dir counts as managed.
ClassifyByDir(f, reg) ==
  IF reg[f] # NoEntry THEN "untracked"
  ELSE IF f \in UnderSchema THEN "managed" ELSE "unregistered"

\* ClassifyFile: the registry first, then the sidecar.
ClassifyFile(f, reg) ==
  IF reg[f] # NoEntry THEN "untracked"
  ELSE IF f \in UnderSchema /\ sidecar[f] # NoFile THEN "managed" ELSE "unregistered"

\* The walk, and so the list it makes, has a fixed order.
NextOf(fs) == CHOOSE f \in fs : TRUE

\* DiscoverUnregistered: the walk comes to its next file.
Visit(p) ==
  LET c    == cmd[p]
      f    == NextOf(c.todo)
      todo == c.todo \ {f}
      hit  == disk[f] # NoFile /\ ClassifyFile(f, c.reg) = "unregistered" IN
  /\ At(p, "walk") /\ c.todo # {}
  /\ Step(p, [c EXCEPT !.todo = todo,
                       !.found = IF hit THEN @ \cup {f} ELSE @,
                       !.at = IF todo = {} THEN "sign_each" ELSE @], {})
  /\ UNCHANGED <<disk, sidecar, registry, dataDir, loose, Counters>>

\* sign-all signs what it found; a file that does not parse is passed over.
SignEach(p) ==
  LET c == cmd[p]
      f == NextOf(c.found) IN
  /\ At(p, "sign_each") /\ c.found # {}
  /\ Step(p, [c EXCEPT !.found = @ \ {f},
                       !.reg[f] = IF disk[f] \in Texts THEN disk[f] ELSE @], {})
  /\ UNCHANGED <<disk, sidecar, registry, dataDir, loose, Counters>>

\* Mutations of Edited: an entry that replaces the list; a Remove that keeps it.
EditedAfresh(c) ==
  CASE c.op = "sign_all" -> c.reg
    [] c.op = "delete"   -> [c.reg EXCEPT ![c.file] = NoEntry]
    [] OTHER             -> [f \in Files |-> IF f = c.file THEN c.entry ELSE NoEntry]
EditedKeeping(c) ==
  IF c.op \in {"sign_all", "delete"} THEN c.reg ELSE [c.reg EXCEPT ![c.file] = c.entry]

\* Registry.Add and Registry.Remove on the loaded copy.
Edited(c) ==
  CASE c.op = "sign_all" -> c.reg
    [] c.op = "delete"   -> [c.reg EXCEPT ![c.file] = NoEntry]
    [] OTHER             -> [c.reg EXCEPT ![c.file] = c.entry]

\* Registry.Save: the copy replaces the file, and data/ is made if need be.
Save(p) ==
  LET c == cmd[p]
      changes == {f \in Files : Edited(c)[f] # registry[f]} IN
  /\ At(p, "save") \/ (At(p, "sign_each") /\ c.found = {})
  /\ registry' = Edited(c)
  /\ dataDir' = TRUE
  /\ Step(p, NoCmd, changes)
  /\ loose' = (loose \ (changes \cup {c.file})) \cup c.touched
  /\ UNCHANGED <<disk, sidecar, Counters>>

\* The registry cannot be read, parsed or replaced, or the process is killed.
CommandFails(p) ==
  /\ cmd[p] # NoCmd /\ faults < MaxFaults
  /\ Fail(p)
  /\ faults' = faults + 1
  /\ UNCHANGED <<disk, sidecar, registry, dataDir, started>>

\* An editor changes, creates or removes a file.
HandEdit(f, t) ==
  /\ faults < MaxFaults /\ disk[f] # t
  /\ disk' = [disk EXCEPT ![f] = t]
  /\ loose' = loose \cup {f}
  /\ faults' = faults + 1
  /\ cmd' = [q \in Procs |-> IF cmd[q] = NoCmd THEN NoCmd
                             ELSE [cmd[q] EXCEPT !.touched = @ \cup {f}]]
  /\ UNCHANGED <<sidecar, registry, dataDir, started>>

UntrackedNext ==
  \/ \E p \in Procs :
       \/ \E r \in Requests : Start(p, r)
       \/ Truncate(p) \/ Write(p) \/ Pair(p) \/ RemoveFile(p) \/ SignFile(p) \/ Load(p)
       \/ RemoveDocument(p) \/ Unpair(p) \/ DocumentAbsent(p)
       \/ Visit(p) \/ SignEach(p)
       \/ Save(p) \/ CommandFails(p)
  \/ \E f \in Files, t \in Contents \ {Blank} : HandEdit(f, t)

-----------------------------------------------------------------------------

\* Every variable of the registry commands holds what the code can put there.
UntrackedTypeOK ==
  /\ disk \in [Files -> Contents]
  /\ sidecar \in [Files -> Sidecars \cup {NoFile}]
  /\ registry \in Registries
  /\ dataDir \in BOOLEAN
  /\ cmd \in [Procs -> Cmds \cup {NoCmd}]
  /\ loose \subseteq Files
  /\ started \in 0..MaxStarted /\ faults \in 0..MaxFaults

\* p has changed f and not yet its entry.
Changing(p, f) == /\ cmd[p] # NoCmd
                  /\ cmd[p].file = f
                  /\ cmd[p].op \in TwoStep
                  /\ cmd[p].at # FirstStage(cmd[p].op)

\* VerifyFile finds nothing: a registered file still holds the text its entry
\* was computed from, except where it was edited by hand, or saved or deleted as a
\* document, where a command was cut short, or where a command saved a registry loaded
\* before another changed it.  A command that then runs alone repairs its file.
EntriesVerify ==
  \A f \in Files :
    (registry[f] # NoEntry /\ f \notin loose /\ \A p \in Procs : ~Changing(p, f))
      => disk[f] = registry[f]

\* sign-all registers exactly what was left to sign: of the parseable files that
\* nobody else touched meanwhile, it adds those without entry and sidecar, and
\* keeps the others' entries as they were.
SignAllIsExact ==
  [][\A p \in Procs :
       (Save(p) /\ cmd[p].op = "sign_all") =>
         \A f \in Files \ cmd[p].touched :
           LET left == /\ registry[f] = NoEntry /\ disk[f] \in Texts
                       /\ ~(f \in UnderSchema /\ sidecar[f] # NoFile)
           IN registry'[f] = IF left THEN disk[f] ELSE registry[f]
    ]_untrackedVars
=============================================================================
