-------------------------------- MODULE Doctor --------------------------------
(***************************************************************************)
(* sbdb doctor check, heal, fix and sign (cmd/doctor.go,                    *)
(* cmd/doctor_heal.go) beside the callers of DocStore, and the git work     *)
(* tree that scopes them (pkg/sbdb/integrity/gitscope.go).                  *)
(*                                                                          *)
(* A run collects its targets once, then takes them one at a time; every    *)
(* file it reads or writes is a step that callers and editors may           *)
(* interleave with.                                                         *)
(***************************************************************************)
EXTENDS DocStore

CONSTANTS
  RunKinds,      \* the subcommands that are run
  Scopes,        \* the scope flags they are run with
  DirTracked,    \* does git track some file of docs_dir from the start?
  Publishing,    \* do integrations record pushes (<id>.integrations.yaml)?
  Committing     \* are changes committed to git?

ASSUME DoctorAssumption ==
  /\ RunKinds \subseteq {"check", "heal", "heal_ack", "fix", "sign"}
  /\ Scopes \subseteq {"all", "uncommitted", "since", "id"}
  /\ {DirTracked, Publishing, Committing} \subseteq BOOLEAN

VARIABLES
  run,        \* the doctor run in progress
  head,       \* head[d]: the two files of d in git HEAD
  pushed,     \* documents with an uncommitted <id>.integrations.yaml
  verified,   \* history: an uncommitted-scope check was clean, and nothing
              \* changed since
  gated       \* history: every commit was made while verified

doctorVars == <<run, head, pushed, verified, gated>>
allVars == <<storeVars, doctorVars>>

NoRun == [stage |-> "none"]

\* A target is a path <stem>.md.  Beside the documents there is the stem
\* "<id>.integrations": its .md never exists, and what pairs with it as a
\* sidecar is the integrations file, which parses.
Targets == Docs \X {"doc", "integrations"}
Doc(d) == <<d, "doc">>
MdAt(t) == IF t[2] = "doc" THEN md[t[1]] ELSE NoFile
SidecarAt(t) ==
  IF t[2] = "doc" THEN sidecar[t[1]]
  ELSE IF t[1] \in pushed
       THEN [of |-> [edits |-> {}, form |-> "plain"], virt |-> FALSE, sig |-> NoKey]
       ELSE NoFile

\* Targets of a run.  Started from the walker, a run only meets files that
\* exist, and fails as a whole if one does not parse.
InHead(d) == head[d].md # NoFile \/ head[d].sidecar # NoFile
Changed(d) == md[d] # head[d].md \/ sidecar[d] # head[d].sidecar

WalkerFails == \E d \in Docs : md[d] = Garbled
AllTargets == {Doc(d) : d \in {c \in Docs : md[c] # NoFile}}

\* Mutation of GitScope: a changed sidecar does not bring in its markdown.
GitScopeUnpaired ==
  {Doc(d) : d \in {c \in Docs : md[c] # head[c].md}}

\* git status lists an untracked directory as one entry, not its files;
\* a changed .md or .yaml brings in the .md of its pair.
DirListed == DirTracked \/ \E d \in Docs : InHead(d)
GitScope == IF DirListed
            THEN {Doc(d) : d \in {c \in Docs : Changed(c)}}
                 \cup (pushed \X {"integrations"})
            ELSE {}

\* git diff --name-only HEAD: tracked .md files that differ.
DiffTargets ==
  {Doc(d) : d \in {c \in Docs : head[c].md # NoFile /\ md[c] # head[c].md}}

ScopeTargets(scope) ==
  CASE scope = "all"         -> {AllTargets}
    [] scope = "uncommitted" -> {GitScope}
    [] scope = "since"       -> {DiffTargets}
    [] scope = "id"          -> {{Doc(d)} : d \in {c \in Docs : md[c] # NoFile}}

Heals(kind) == kind \in {"heal", "heal_ack"}
HasScope(kind, scope) == Heals(kind) \/ scope \in {"all", "uncommitted"}

-----------------------------------------------------------------------------

DoctorInit ==
  /\ Init
  /\ run = NoRun
  /\ head = [d \in Docs |-> [md |-> NoFile, sidecar |-> NoFile]]
  /\ pushed = {}
  /\ verified = FALSE
  /\ gated = TRUE

\* Collect the targets and load the key; sign insists on one.
StartRun(kind, scope) ==
  /\ run = NoRun
  /\ HasScope(kind, scope)
  /\ scope = "all" => ~WalkerFails
  /\ kind = "sign" => key \in Keys
  /\ \E todo \in ScopeTargets(scope) :
       run' = [stage |-> "choose", kind |-> kind, scope |-> scope, todo |-> todo,
               named |-> IF scope = "id" THEN todo ELSE {},
               key |-> KeyOrNil(key), at |-> <<>>, seen |-> NoFile,
               found |-> {}, quiet |-> TRUE]
  /\ UNCHANGED <<storeVars, head, pushed, verified, gated>>

DoctorUnchanged == UNCHANGED <<storeVars, head, pushed, verified, gated>>

\* Mutations of Repairs: an unacknowledged heal re-signs tamper; an
\* acknowledged one leaves missing sidecars alone.
RepairsUnacked(v) == Heals(run.kind) /\ v \in {"tamper", "missing-sidecar"}
RepairsTamperOnly(v) == \/ run.kind = "heal_ack" /\ v = "tamper"
                        \/ run.kind = "heal" /\ v = "missing-sidecar"

\* heal repairs missing sidecars, and acknowledged tamper.
Repairs(v) == \/ run.kind = "heal_ack" /\ v = "tamper"
              \/ Heals(run.kind) /\ v = "missing-sidecar"

\* Mutation of Reports: check passes over what it cannot parse.
ReportsTamper(v) == run.kind = "check" /\ v \in {"tamper", "missing-sidecar"}

\* check counts every report as drift, that of an envelope too; heal exits with 6
\* over the tamper it was not told to accept, and with 0 over what it skips
\* (missing-md) or lists as an error (its default case: envelopes, parse errors).
Reports(v) == \/ run.kind = "check" /\ v \notin {"clean", "absent"}
              \/ run.kind = "heal" /\ v = "tamper"

\* What becomes of a target once its verdict is known.
Conclude(t, v) ==
  run' = [run EXCEPT
            !.stage = IF Repairs(v) THEN "parse" ELSE "choose",
            !.at    = IF Repairs(v) THEN t ELSE <<>>,
            !.todo  = @ \ {t},
            !.seen  = NoFile,
            !.found = IF Reports(v) THEN @ \cup {<<t, v>>} ELSE @]

\* checkOneDoc up to LoadSidecar: an envelope is reported at once.
Inspect(t) ==
  LET m == MdAt(t)
      s == SidecarAt(t) IN
  /\ run.stage = "choose" /\ t \in run.todo
  /\ run.kind = "check" \/ Heals(run.kind)
  /\ IF ~IsEnvelopePrefix(m) /\ m # NoFile /\ s \notin {NoFile, Garbled}
       THEN run' = [run EXCEPT !.stage = "compare", !.at = t, !.seen = s]
       ELSE Conclude(t, Verdict(m, s, run.key))
  /\ DoctorUnchanged

\* The rest of checkOneDoc: ParseMarkdown, which takes an envelope that has come
\* in between for a document, and Sidecar.Verify.
Compare ==
  LET m == MdAt(run.at) IN
  /\ run.stage = "compare"
  /\ Conclude(run.at, IF m \in {NoFile, Garbled} THEN "md-parse-error"
                      ELSE Verified(run.seen, m, run.key))
  /\ DoctorUnchanged

\* fix and sign take every target, whatever its state.
Take(t) ==
  /\ run.stage = "choose" /\ t \in run.todo
  /\ run.kind \in {"fix", "sign"}
  /\ run' = [run EXCEPT !.stage = "parse", !.at = t, !.todo = @ \ {t}]
  /\ DoctorUnchanged

\* healOneDoc and writeSidecarFromMD read the markdown (again); a markdown
\* that is missing or does not parse ends the whole run with an error.
Parse ==
  LET m == MdAt(run.at) IN
  /\ run.stage = "parse"
  /\ run' = IF m \in {NoFile, Garbled} THEN NoRun
            ELSE [run EXCEPT !.stage = "save", !.seen = m]
  /\ DoctorUnchanged

\* heal hashes the record with freshly evaluated virtuals, fix and sign
\* without any.
Save ==
  LET d == run.at[1] IN
  /\ run.stage = "save"
  /\ sidecar' = [sidecar EXCEPT ![d] = NewSidecar(run.seen, Heals(run.kind), run.key)]
  /\ run' = [run EXCEPT !.stage = "choose", !.at = <<>>, !.seen = NoFile]
  /\ verified' = FALSE
  /\ UNCHANGED <<md, key, job, reply, disturbed, head, pushed, gated>>

\* The sidecar cannot be written, a virtual fails, or the run is killed.
RunFails ==
  /\ Faults
  /\ run # NoRun
  /\ run.stage # "choose" \/ run.todo # {}
  /\ run' = NoRun
  /\ DoctorUnchanged

\* Every target done: exit.
Exit ==
  /\ run # NoRun /\ run.stage = "choose" /\ run.todo = {}
  /\ run' = NoRun
  /\ verified' = \/ verified
                 \/ /\ run.kind = "check" /\ run.scope = "uncommitted"
                    /\ run.found = {} /\ run.quiet
  /\ UNCHANGED <<storeVars, head, pushed, gated>>

DoctorStep ==
  \/ \E kind \in RunKinds, scope \in Scopes : StartRun(kind, scope)
  \/ \E t \in Targets : Inspect(t) \/ Take(t)
  \/ Compare \/ Parse \/ Save \/ RunFails \/ Exit

-----------------------------------------------------------------------------

Disturb == run' = IF run = NoRun THEN run ELSE [run EXCEPT !.quiet = FALSE]

\* Callers, editors and key changes go on while the doctor runs.
StoreStep ==
  /\ Next
  /\ IF UNCHANGED <<md, sidecar, key>>
       THEN UNCHANGED <<run, verified>>
       ELSE Disturb /\ verified' = FALSE
  /\ UNCHANGED <<head, pushed, gated>>

\* sync state set: the integration's record of a push to d.
RecordPush(d) ==
  /\ Publishing
  /\ md[d] # NoFile /\ d \notin pushed
  /\ pushed' = pushed \cup {d}
  /\ Disturb
  /\ verified' = FALSE
  /\ UNCHANGED <<storeVars, head, gated>>

\* git add --all && git commit.
Commit ==
  /\ \A p \in Procs : Idle(p)
  /\ run = NoRun
  /\ Committing
  /\ head' = [d \in Docs |-> [md |-> md[d], sidecar |-> sidecar[d]]]
  /\ head' # head \/ pushed # {}
  /\ pushed' = {}
  /\ gated' = (gated /\ verified)
  /\ UNCHANGED <<storeVars, run, verified>>

DoctorNext ==
  \/ DoctorStep
  \/ StoreStep
  \/ \E d \in Docs : RecordPush(d)
  \/ Commit

DoctorSpec == DoctorInit /\ [][DoctorNext]_allVars

-----------------------------------------------------------------------------

\* Every variable of the doctor holds what the code can put there.
DoctorTypeOK ==
  /\ run = NoRun \/ ( /\ run.stage \in {"choose", "compare", "parse", "save"}
                      /\ run.kind \in RunKinds /\ run.scope \in Scopes
                      /\ run.todo \subseteq Targets /\ run.named \subseteq Targets
                      /\ run.key \in Keys \cup {NoKey}
                      /\ run.at \in Targets \cup {<<>>}
                      /\ run.found \subseteq Targets \X Kinds
                      /\ run.quiet \in BOOLEAN )
  /\ \A d \in Docs : /\ head[d].md \in Versions \cup {NoFile, Garbled}
                     /\ head[d].sidecar \in Sidecars \cup {NoFile, Garbled}
  /\ pushed \subseteq Docs
  /\ {verified, gated} \subseteq BOOLEAN

\* A run that reached its end while nobody else changed a document or the key.
QuietExit(kind, scope) ==
  Exit /\ run.kind = kind /\ run.scope = scope /\ run.quiet

VerdictOf(d) == Verdict(md[d], sidecar[d], KeyOrNil(key))
Drifting(d) == VerdictOf(d) \notin {"clean", "absent"}

\* The documents a scope reaches.  git diff lists tracked files only, and git
\* status no file of an untracked directory.
Covers(scope, d) ==
  CASE scope = "all"         -> TRUE
    [] scope = "uncommitted" -> DirListed /\ Changed(d)
    [] scope = "since"       -> head[d].md # NoFile /\ md[d] # head[d].md
    [] scope = "id"          -> Doc(d) \in run.named

\* A heal that exits with 0 has done what it can for its scope: whatever the
\* state it started from, no document it covers still has what heal repairs, a
\* tampered or a missing sidecar ("Post-heal must check clean",
\* cmd/doctor_heal_test.go).  What else its check reports (an envelope, a file
\* that does not parse, an orphan sidecar) stays as it is.
HealConverges ==
  [][\A kind \in {"heal", "heal_ack"}, scope \in Scopes :
       (QuietExit(kind, scope) /\ run.found = {}) =>
         \A d \in Docs : Covers(scope, d) =>
           VerdictOf(d) \notin {"tamper", "missing-sidecar"}
    ]_allVars

\* doctor sign and fix write the sidecar of every target: a run that ends leaves
\* every document of its scope with a sidecar computed from it, and none that
\* fails the check unless it is an envelope, which fails it whatever its sidecar.
SignConverges ==
  [][\A kind \in {"fix", "sign"}, scope \in Scopes :
       QuietExit(kind, scope) =>
         \A d \in Docs : (Covers(scope, d) /\ md[d] # NoFile) =>
           /\ Paired(md[d], sidecar[d])
           /\ VerdictOf(d) = "clean" \/ IsEnvelopePrefix(md[d])
    ]_allVars

\* Without --i-meant-it, heal fills in missing sidecars and never replaces one:
\* the evidence of an edit outside the tool survives (cmd/doctor_heal.go).
UnackedHealKeepsEvidence ==
  [][(Save /\ run.kind = "heal" /\ run.quiet) => sidecar[run.at[1]] = NoFile
    ]_allVars

\* doctor check lists, of the documents its scope covers, those that drift and
\* the envelopes, each for what is wrong with it, and no others (check --all
\* covers documents by their markdown: it never meets an orphan sidecar).
CheckIsExact ==
  [][\A scope \in Scopes :
       QuietExit("check", scope) =>
         {r \in run.found : r[1][2] = "doc"} =
           {<<Doc(d), VerdictOf(d)>> :
              d \in {c \in Docs : /\ Covers(scope, c) /\ Drifting(c)
                                  /\ scope = "all" => md[c] # NoFile}}
    ]_allVars

\* "committed history was already verified" (README.md): while every commit
\* was preceded by a clean check of the uncommitted changes, every document in
\* HEAD has a sidecar computed from it.
HeadVerified == gated => \A d \in Docs : Paired(head[d].md, head[d].sidecar)
=============================================================================
