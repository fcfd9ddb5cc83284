------------------------------- MODULE SyncState -------------------------------
(***************************************************************************)
(* The bookkeeping of pushes to external services (pkg/sbdb/sync,           *)
(* cmd/sync_*.go) for one document.  Runtimes push the document to the      *)
(* services and have sbdb record what happened in <id>.integrations.yaml,   *)
(* one file for all integrations, read and replaced without a lock; sync    *)
(* check compares the document with the last recorded pushes.               *)
(*                                                                          *)
(* A version is a text and, for every integration, the target its           *)
(* frontmatter names; the document hash covers both.  A service is the list *)
(* of the updates of its pages, a revision a position in that list.  Of a   *)
(* section of the file only last_push is modelled: target_id, last_check    *)
(* and last_error are written along with it and read by nothing but a       *)
(* person, so recording a check or an error is rewriting the file.          *)
(***************************************************************************)
EXTENDS Naturals, Sequences

CONSTANTS
  Integrations, Targets, Versions,
  None,          \* no target, record, document or version
  Procs,         \* runtimes
  MaxRevision    \* bound: MaxRevision[i] updates of i's pages

ASSUME SyncAssumption ==
  /\ None \notin Targets \cup Versions \cup [hash : Versions, revision : Nat]
  /\ \A v \in Versions : v.target \in [Integrations -> Targets \cup {None}]
  /\ MaxRevision \in [Integrations -> Nat]

VARIABLES
  doc,      \* the markdown file, or None
  remote,   \* remote[i]: the updates of i's pages, [target, hash]
  ledger,   \* the integrations file: the last push of every integration
  run,      \* run[p]: what runtime p is at
  audit,    \* the version a sync check has read, or None
  loose     \* history: integrations whose last push may not be the one recorded

syncVars == <<doc, remote, ledger, run, audit, loose>>

Idle == [at |-> "idle"]

-----------------------------------------------------------------------------

\* Mutation of Recorded: the revision of an earlier push is kept.
RecordedStale(last, r) ==
  IF r.mode # "push" THEN last
  ELSE [hash |-> r.hash, revision |-> IF last = None THEN r.revision ELSE last.revision]

\* Mutation of Recorded: checks and errors are recorded as pushes too.
RecordedAlways(last, r) == [hash |-> r.hash, revision |-> r.revision]

\* Mutation of Recorded: a record starts a section of its own.
RecordedAfresh(last, r) == IF r.mode = "push" THEN [hash |-> r.hash, revision |-> r.revision]
                           ELSE None

\* RecordPush overwrites the last push, RecordCheck and RecordError keep it.
Recorded(last, r) == IF r.mode = "push" THEN [hash |-> r.hash, revision |-> r.revision]
                     ELSE last

\* Mutation of ComputeDrift: without a look at the service nothing has drifted.
DriftWhenObserved(push, version, observed) ==
  CASE push = None -> "never_published"
    [] observed = None -> "in_sync"
    [] OTHER -> IF push.hash # version THEN "local_drift" ELSE "in_sync"

\* ComputeDrift; sync check observes no remote revision.
ComputeDrift(push, version, observed) ==
  LET local == push.hash # version
      far == observed \notin {None, push.revision} IN
  CASE push = None -> "never_published"
    [] push # None /\ local /\ far -> "both_drift"
    [] push # None /\ local /\ ~far -> "local_drift"
    [] push # None /\ ~local /\ far -> "remote_drift"
    [] OTHER -> "in_sync"

-----------------------------------------------------------------------------

Init ==
  /\ doc \in Versions
  /\ remote = [i \in Integrations |-> <<>>]
  /\ ledger = [i \in Integrations |-> None]
  /\ run = [p \in Procs |-> Idle]
  /\ audit = None
  /\ loose = {}

At(p, at) == run[p].at = at

\* Has p pushed for i, and not recorded it yet?
Unrecorded(p, i) == /\ run[p].at \in {"set", "read", "write"}
                    /\ run[p].mode = "push" /\ run[p].integration = i

Errand(mode, at, i, hash) ==
  [at |-> at, mode |-> mode, integration |-> i, hash |-> hash, revision |-> 0,
   base |-> None]

\* sync state get: the document and the target it names.  A runtime does not
\* push a document that names none.
StateGet(p, i) ==
  /\ At(p, "idle") /\ doc # None
  /\ doc.target[i] # None
  /\ run' = [run EXCEPT ![p] = Errand("push", "got", i, doc)]
  /\ UNCHANGED <<doc, remote, ledger, audit, loose>>

\* The service takes the update and answers with a revision.
Push(p) ==
  LET r == run[p]
      i == r.integration IN
  /\ At(p, "got") /\ Len(remote[i]) < MaxRevision[i]
  /\ remote' = [remote EXCEPT ![i] = Append(@, [target |-> r.hash.target[i], hash |-> r.hash])]
  /\ run' = [run EXCEPT ![p].at = "set", ![p].revision = Len(remote[i]) + 1]
  /\ loose' = IF \E q \in Procs : Unrecorded(q, i) THEN loose \cup {i} ELSE loose
  /\ UNCHANGED <<doc, ledger, audit>>

\* It refuses; the runtime records the error.
PushFails(p) ==
  /\ At(p, "got")
  /\ run' = [run EXCEPT ![p] = Errand("note", "read", run[p].integration, None)]
  /\ UNCHANGED <<doc, remote, ledger, audit, loose>>

\* A runtime looks at the service and records what it sees.
Observe(p, i) ==
  /\ At(p, "idle") /\ doc # None
  /\ run' = [run EXCEPT ![p] = Errand("note", "read", i, None)]
  /\ UNCHANGED <<doc, remote, ledger, audit, loose>>

\* A push that will not be recorded, or no longer is.
Forgotten(p) == {i \in Integrations : Unrecorded(p, i)}

\* sync state set --published-hash resolves the target from the document as it
\* is now; without the document the push goes unrecorded.
ResolveTarget(p) ==
  /\ At(p, "set")
  /\ IF doc = None
       THEN run' = [run EXCEPT ![p] = Idle] /\ loose' = loose \cup Forgotten(p)
       ELSE run' = [run EXCEPT ![p].at = "read"] /\ UNCHANGED loose
  /\ UNCHANGED <<doc, remote, ledger, audit>>

ReadLedger(p) ==
  /\ At(p, "read")
  /\ run' = [run EXCEPT ![p].at = "write", ![p].base = ledger]
  /\ UNCHANGED <<doc, remote, ledger, audit, loose>>

\* The file is replaced by what was read, with one section changed.
WriteLedger(p) ==
  LET r == run[p]
      i == r.integration
      lost == {j \in Integrations : r.base[j] # ledger[j]}
      isLast == /\ r.mode = "push"
                /\ \A q \in Procs \ {p} : ~Unrecorded(q, i)
                /\ \A n \in (r.revision + 1)..Len(remote[i]) : remote[i][n].hash = None IN
  /\ At(p, "write")
  /\ ledger' = [r.base EXCEPT ![i] = Recorded(@, r)]
  /\ run' = [run EXCEPT ![p] = Idle]
  /\ loose' = (loose \cup lost) \ (IF isLast THEN {i} ELSE {})
  /\ UNCHANGED <<doc, remote, audit>>

\* The command fails on the file, or the runtime or the command is killed.
GiveUp(p) ==
  /\ ~At(p, "idle")
  /\ run' = [run EXCEPT ![p] = Idle]
  /\ loose' = loose \cup Forgotten(p)
  /\ UNCHANGED <<doc, remote, ledger, audit>>

\* Someone edits a page of the service.
RemoteEdit(i, t) ==
  /\ Len(remote[i]) < MaxRevision[i]
  /\ remote' = [remote EXCEPT ![i] = Append(@, [target |-> t, hash |-> None])]
  /\ UNCHANGED <<doc, ledger, run, audit, loose>>

\* Someone edits or removes the document; the integrations file stays.
EditDoc(v) ==
  /\ v # doc
  /\ doc' = v
  /\ UNCHANGED <<remote, ledger, run, audit, loose>>

-----------------------------------------------------------------------------

\* For every integration sync check reads the document ...
CheckReadsDoc ==
  /\ audit = None /\ doc # None
  /\ audit' = doc
  /\ UNCHANGED <<doc, remote, ledger, run, loose>>

\* What it reports of an integration, and makes the exit code from.
Report(i) == ComputeDrift(ledger[i], audit, None)

\* ... and then the integrations file.
CheckReadsLedger(i) ==
  /\ audit # None
  /\ audit' = None
  /\ UNCHANGED <<doc, remote, ledger, run, loose>>

Next ==
  \/ \E p \in Procs :
       \/ \E i \in Integrations : StateGet(p, i) \/ Observe(p, i)
       \/ Push(p) \/ PushFails(p) \/ ResolveTarget(p)
       \/ ReadLedger(p) \/ WriteLedger(p) \/ GiveUp(p)
  \/ \E i \in Integrations, t \in Targets : RemoteEdit(i, t)
  \/ \E v \in Versions \cup {None} : EditDoc(v)
  \/ CheckReadsDoc
  \/ \E i \in Integrations : CheckReadsLedger(i)

Spec == Init /\ [][Next]_syncVars

-----------------------------------------------------------------------------

Updates == [target : Targets, hash : Versions \cup {None}]
Ledgers == [Integrations -> [hash : Versions, revision : Nat] \cup {None}]
Errands ==
  [at : {"got", "set", "read", "write"}, mode : {"push", "note"},
   integration : Integrations, hash : Versions \cup {None},
   revision : Nat, base : Ledgers \cup {None}]

\* Every variable holds what the code can put there.
SyncTypeOK ==
  /\ doc \in Versions \cup {None}
  /\ remote \in [Integrations -> Seq(Updates)]
  /\ ledger \in Ledgers
  /\ run \in [Procs -> Errands \cup {Idle}]
  /\ audit \in Versions \cup {None}
  /\ loose \subseteq Integrations

\* What the last pushes of i left on the page of target t; None for nothing,
\* or for somebody's edit.
Page(i, t) ==
  LET updates == {n \in DOMAIN remote[i] : remote[i][n].target = t} IN
  IF updates = {} THEN None
  ELSE remote[i][CHOOSE n \in updates : \A m \in updates : m <= n].hash

\* Every push of i is either recorded or beyond recall by a later one, and none
\* is on its way to the file.
Settled(i) == i \notin loose /\ \A p \in Procs : ~Unrecorded(p, i)

\* The service took this push, of this version on the target it names.
Confirmed(i, push) ==
  /\ push.revision \in DOMAIN remote[i]
  /\ remote[i][push.revision] = [target |-> push.hash.target[i], hash |-> push.hash]

\* A push that the file claims was confirmed by the service: no interleaving of
\* records makes one up out of two.
PushesAreConfirmed ==
  \A i \in Integrations : ledger[i] # None => Confirmed(i, ledger[i])

\* The revisions of i's pushes, and what makes a push the last of them.
Pushes(i) == {n \in DOMAIN remote[i] : remote[i][n].hash # None}
IsLastPush(i, push) ==
  push.revision \in Pushes(i) /\ \A n \in Pushes(i) : n <= push.revision

\* An integration whose pushes were recorded one by one, and not taken back by a
\* concurrent record of any kind, has the last of them in the file, whatever else
\* was recorded; on its page is that version, or somebody's edit of it.
LedgerHasLastPush ==
  \A i \in Integrations : Settled(i) =>
    IF ledger[i] = None THEN Pushes(i) = {}
    ELSE /\ IsLastPush(i, ledger[i])
         /\ Page(i, ledger[i].hash.target[i]) \in {ledger[i].hash, None}

\* sync check says in_sync ("Doc unchanged since last push") only of a version
\* that is on the page it names, unless the page was edited there, and
\* never_published only when nothing was pushed.
ReportsAreTrue ==
  [][\A i \in Integrations :
       (CheckReadsLedger(i) /\ Settled(i)) =>
         /\ Report(i) = "in_sync" => Page(i, audit.target[i]) \in {audit, None}
         /\ Report(i) = "never_published" => Pushes(i) = {}
    ]_syncVars
=============================================================================
