------------------------------- MODULE DocStore -------------------------------
(***************************************************************************)
(* The documents of one entity on disk, and the callers of Repo: the CLI    *)
(* commands create, update, get and delete, or goroutines sharing one DB    *)
(* (pkg/sbdb/repo.go, pkg/sbdb/document/save.go).                           *)
(*                                                                          *)
(* A document is two files, <id>.md and its sidecar <id>.yaml. Each is      *)
(* replaced atomically (temp file, then rename), but one after the other,   *)
(* without a lock: every write, stat and read below is a step of its own.   *)
(***************************************************************************)
EXTENDS Integrity, Naturals, FiniteSets

CONSTANTS
  Procs,          \* the callers of Repo
  SerialCallers,  \* do callers avoid overlapping calls on one document?
  Faults,         \* may a call crash, or one of its writes fail?
  OutOfBand       \* may editors change files, and the key be replaced?

ASSUME SwitchesAssumption == {SerialCallers, Faults, OutOfBand} \subseteq BOOLEAN

VARIABLES
  md,         \* md[d]: what <id>.md says
  sidecar,    \* sidecar[d]: what <id>.yaml says
  key,        \* what LoadKey returns
  job,        \* job[p]: the call p is in the middle of
  reply,      \* reply[p]: the result of p's last call
  disturbed   \* history: documents whose last save or delete was cut short,
              \* hand edited, or overlapped by another

storeVars == <<md, sidecar, key, job, reply, disturbed>>

\* The jobs: base is the version Update's callback was shown, text what the
\* call is about to write (NoFile: it deletes).
NoJob == [kind |-> "none"]
Jobs ==
  [kind : {"create", "update"}, doc : Docs, base : Versions \cup {NoFile},
   text : Versions, stage : {"write_md", "write_sidecar", "read_back"}]
  \cup
  [kind : {"delete"}, doc : Docs, base : {NoFile}, text : {NoFile},
   stage : {"remove_md", "remove_sidecar"}]

\* seen is the document a call returned.
Replies == [status : {"none", "ok", "conflict", "not_found", "error", "crashed"},
            seen : Versions \cup {NoFile}]

-----------------------------------------------------------------------------

At(p, stage) == job[p] # NoJob /\ job[p].stage = stage
Idle(p) == job[p] = NoJob

\* p has written or removed one of d's two files, and not yet the other.
Mid(p, d) == /\ job[p] # NoJob
             /\ job[p].doc = d
             /\ job[p].stage \in {"write_sidecar", "remove_sidecar"}
OthersMid(p, d) == \E q \in Procs \ {p} : Mid(q, d)

Free(d) == \A q \in Procs : job[q] # NoJob => job[q].doc # d
MayTouch(d) == SerialCallers => Free(d)

Begin(p, j) == job' = [job EXCEPT ![p] = j] /\ UNCHANGED reply
Advance(p, stage) == job' = [job EXCEPT ![p].stage = stage] /\ UNCHANGED reply
Finish(p, status, seen) ==
  /\ job' = [job EXCEPT ![p] = NoJob]
  /\ reply' = [reply EXCEPT ![p] = [status |-> status, seen |-> seen]]
Answer(p, status, seen) ==
  /\ reply' = [reply EXCEPT ![p] = [status |-> status, seen |-> seen]]
  /\ UNCHANGED job

\* Repo.Get: not found, or unparseable, or the document.
ReadStatus(m) == IF m = NoFile THEN "not_found"
                 ELSE IF m = Garbled THEN "error" ELSE "ok"
\* Mutation of Read: a file that does not parse is returned as a document.
ReadUnparsed(m) == m
Read(m) == IF m = Garbled THEN NoFile ELSE m

-----------------------------------------------------------------------------

Init ==
  /\ md = [d \in Docs |-> NoFile]
  /\ sidecar = [d \in Docs |-> NoFile]
  /\ key \in Keys \cup {NoKey} \cup (IF Faults THEN {BadKey} ELSE {})
  /\ job = [p \in Procs |-> NoJob]
  /\ reply = [p \in Procs |-> [status |-> "none", seen |-> NoFile]]
  /\ disturbed = {}

(***************************************************************************)
(* Repo.Create, Update, Delete and Get up to their first write.             *)
(***************************************************************************)

\* Mutation of CreateStat: no stat, Create saves over an existing document.
CreateUnchecked(p, d, e) ==
  /\ Idle(p) /\ MayTouch(d)
  /\ Begin(p, [kind |-> "create", doc |-> d, base |-> NoFile,
               text |-> Fresh(e), stage |-> "write_md"])
  /\ UNCHANGED <<md, sidecar, key, disturbed>>

\* Repo.Create: stat decides between ErrConflict and Save.
CreateStat(p, d, e) ==
  /\ Idle(p) /\ MayTouch(d)
  /\ IF md[d] # NoFile
       THEN Answer(p, "conflict", NoFile)
       ELSE Begin(p, [kind |-> "create", doc |-> d, base |-> NoFile,
                      text |-> Fresh(e), stage |-> "write_md"])
  /\ UNCHANGED <<md, sidecar, key, disturbed>>

\* Repo.Update: Get, then fn adds its edit to the copy it was given.
UpdateGet(p, d, e) ==
  /\ Idle(p) /\ MayTouch(d)
  /\ IF md[d] \notin Versions
       THEN Answer(p, ReadStatus(md[d]), NoFile)
       ELSE Begin(p, [kind |-> "update", doc |-> d, base |-> md[d],
                      text |-> With(md[d], e), stage |-> "write_md"])
  /\ UNCHANGED <<md, sidecar, key, disturbed>>

\* Repo.Delete: stat decides between ErrNotFound and Document.Delete.
DeleteStat(p, d) ==
  /\ Idle(p) /\ MayTouch(d)
  /\ IF md[d] = NoFile
       THEN Answer(p, "not_found", NoFile)
       ELSE Begin(p, [kind |-> "delete", doc |-> d, base |-> NoFile,
                      text |-> NoFile, stage |-> "remove_md"])
  /\ UNCHANGED <<md, sidecar, key, disturbed>>

\* Repo.Get: a file that vanishes between stat and read is ErrNotFound too,
\* so the two are one step.
Get(p, d) ==
  /\ Idle(p) /\ MayTouch(d)
  /\ Answer(p, ReadStatus(md[d]), Read(md[d]))
  /\ UNCHANGED <<md, sidecar, key, disturbed>>

(***************************************************************************)
(* Document.Save                                                            *)
(***************************************************************************)

\* A document becomes disturbed when two calls have one of its files each.
Overlap(p, d) == IF OthersMid(p, d) THEN disturbed \cup {d} ELSE disturbed

WriteMarkdown(p) ==
  /\ At(p, "write_md")
  /\ md' = [md EXCEPT ![job[p].doc] = job[p].text]
  /\ disturbed' = Overlap(p, job[p].doc)
  /\ Advance(p, "write_sidecar")
  /\ UNCHANGED <<sidecar, key>>

\* Evaluating the virtuals, rendering, or the temp file fails: nothing written.
SaveRefused(p) ==
  /\ Faults
  /\ At(p, "write_md")
  /\ Finish(p, "error", NoFile)
  /\ UNCHANGED <<md, sidecar, key, disturbed>>

WriteSidecar(p) ==
  LET d == job[p].doc IN
  /\ At(p, "write_sidecar")
  /\ key # BadKey
  /\ sidecar' = [sidecar EXCEPT ![d] = NewSidecar(job[p].text, TRUE, key)]
  /\ disturbed' = IF md[d] = job[p].text /\ ~OthersMid(p, d)
                    THEN disturbed \ {d} ELSE disturbed
  /\ Advance(p, "read_back")
  /\ UNCHANGED <<md, key>>

\* LoadKey fails, or the sidecar cannot be written: Save returns an error and
\* leaves the markdown it has just written.
SidecarRefused(p) ==
  /\ At(p, "write_sidecar")
  /\ key = BadKey \/ Faults
  /\ disturbed' = disturbed \cup {job[p].doc}
  /\ Finish(p, "error", NoFile)
  /\ UNCHANGED <<md, sidecar, key>>

\* Create and Update end with a Get.
ReadBack(p) ==
  LET m == md[job[p].doc] IN
  /\ At(p, "read_back")
  /\ Finish(p, ReadStatus(m), Read(m))
  /\ UNCHANGED <<md, sidecar, key, disturbed>>

(***************************************************************************)
(* Document.Delete: the markdown, then the sidecar.                         *)
(***************************************************************************)

\* Mutation of RemoveMarkdown: the sidecar is not removed after it.
RemoveMarkdownOnly(p) ==
  /\ At(p, "remove_md")
  /\ md' = [md EXCEPT ![job[p].doc] = NoFile]
  /\ disturbed' = Overlap(p, job[p].doc)
  /\ Finish(p, "ok", NoFile)
  /\ UNCHANGED <<sidecar, key>>

\* Mutation of RemoveMarkdown: a failed removal goes unnoticed.
RemoveNothing(p) ==
  /\ At(p, "remove_md")
  /\ disturbed' = Overlap(p, job[p].doc)
  /\ Advance(p, "remove_sidecar")
  /\ UNCHANGED <<md, sidecar, key>>

RemoveMarkdown(p) ==
  /\ At(p, "remove_md")
  /\ md' = [md EXCEPT ![job[p].doc] = NoFile]
  /\ disturbed' = Overlap(p, job[p].doc)
  /\ Advance(p, "remove_sidecar")
  /\ UNCHANGED <<sidecar, key>>

RemoveSidecar(p) ==
  LET d == job[p].doc IN
  /\ At(p, "remove_sidecar")
  /\ sidecar' = [sidecar EXCEPT ![d] = NoFile]
  /\ disturbed' = IF md[d] = NoFile /\ ~OthersMid(p, d)
                    THEN disturbed \ {d} ELSE disturbed
  /\ Finish(p, "ok", NoFile)
  /\ UNCHANGED <<md, key>>

RemoveRefused(p) ==
  /\ Faults
  /\ At(p, "remove_md") \/ At(p, "remove_sidecar")
  /\ disturbed' = IF At(p, "remove_sidecar")
                    THEN disturbed \cup {job[p].doc} ELSE disturbed
  /\ Finish(p, "error", NoFile)
  /\ UNCHANGED <<md, sidecar, key>>

(***************************************************************************)
(* The environment: a killed process, an editor, a new key.                 *)
(***************************************************************************)

Crash(p) ==
  /\ Faults
  /\ ~Idle(p)
  /\ disturbed' = IF Mid(p, job[p].doc)
                    THEN disturbed \cup {job[p].doc} ELSE disturbed
  /\ Finish(p, "crashed", NoFile)
  /\ UNCHANGED <<md, sidecar, key>>

\* An editor, a lock, or a checkout replaces or removes either file.
HandEdit(d) ==
  /\ OutOfBand
  /\ MayTouch(d)
  /\ \/ /\ \E m \in Versions \cup {NoFile, Garbled} : md' = [md EXCEPT ![d] = m]
        /\ UNCHANGED sidecar
     \/ /\ \E s \in {NoFile, Garbled} : sidecar' = [sidecar EXCEPT ![d] = s]
        /\ UNCHANGED md
  /\ disturbed' = disturbed \cup {d}
  /\ UNCHANGED <<key, job, reply>>

\* doctor init-key, or another SBDB_INTEGRITY_KEY.
ChangeKey(k) ==
  /\ OutOfBand
  /\ key' = k
  /\ UNCHANGED <<md, sidecar, job, reply, disturbed>>

-----------------------------------------------------------------------------

CallerStep(p) ==
  \/ \E d \in Docs, e \in Edits : CreateStat(p, d, e) \/ UpdateGet(p, d, e)
  \/ \E d \in Docs : DeleteStat(p, d) \/ Get(p, d)
  \/ WriteMarkdown(p) \/ SaveRefused(p)
  \/ WriteSidecar(p) \/ SidecarRefused(p) \/ ReadBack(p)
  \/ RemoveMarkdown(p) \/ RemoveSidecar(p) \/ RemoveRefused(p)
  \/ Crash(p)

Next ==
  \/ \E p \in Procs : CallerStep(p)
  \/ \E d \in Docs : HandEdit(d)
  \/ \E k \in Keys \cup {NoKey, BadKey} : ChangeKey(k)

Spec == Init /\ [][Next]_storeVars

-----------------------------------------------------------------------------

\* Every variable holds what the code can put there.
TypeOK ==
  /\ md \in [Docs -> Versions \cup {NoFile, Garbled}]
  /\ sidecar \in [Docs -> Sidecars \cup {NoFile, Garbled}]
  /\ key \in Keys \cup {NoKey, BadKey}
  /\ job \in [Procs -> Jobs \cup {NoJob}]
  /\ reply \in [Procs -> Replies]
  /\ disturbed \subseteq Docs

\* The two files of a document disagree (or one is missing) only while a call
\* is between its two writes, or after a call was cut short there, an editor
\* changed a file, or two calls had one file each; and a later undisturbed
\* save or delete, which rewrites both files, repairs the document.
PairsAgree ==
  \A d \in Docs \ disturbed :
    (\A p \in Procs : ~Mid(p, d)) => Paired(md[d], sidecar[d])

\* The strengthening of PairsAgree: in an undisturbed document at most one
\* call is between its two writes, and the markdown is still the one it left.
OneWriter ==
  \A d \in Docs \ disturbed : \A p \in Procs :
    Mid(p, d) => /\ md[d] = job[p].text
                 /\ \A q \in Procs : Mid(q, d) => q = p
=============================================================================
