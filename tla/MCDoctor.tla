------------------------------- MODULE MCDoctor -------------------------------
(* TLC instances of Doctor. *)
EXTENDS Doctor

\* The last answers of calls and the history of overlaps steer no step and
\* appear in no property of the doctor: states that differ in them only are one.
DoctorView == <<md, sidecar, key, job, doctorVars>>

\* Bound: there is one envelope of each form.
FewEnvelopes == \A d \in Docs :
  md[d] \in Versions => (md[d].form = "plain" \/ md[d].edits = Edits)

\* Bound: a behaviour runs check, heal and sign on every document or on named
\* ones, with keys, signatures and crashes and without a commit ...
ByTree ==
  /\ pushed = {} /\ \A d \in Docs : ~InHead(d)
  /\ run = NoRun \/ (run.scope \in {"all", "id"} /\ run.kind # "fix")

\* ... or check, the acknowledged heal and fix on what git reports, without keys
\* and envelopes.
ByGit ==
  /\ key \in {NoKey, BadKey}
  /\ \A d \in Docs :
       /\ md[d] \in Versions => md[d].form = "plain"
       /\ sidecar[d] \in Sidecars => sidecar[d].sig = NoKey /\ sidecar[d].of.form = "plain"
  /\ run = NoRun \/ (run.scope \in {"uncommitted", "since"} /\ run.kind # "heal")

MCNext ==
  /\ DoctorNext /\ FewEnvelopes'
  /\ \/ ByTree'
     \/ ByGit' /\ ~RunFails /\ \A p \in Procs : ~Crash(p)
MCSpec == DoctorInit /\ [][MCNext]_allVars
=============================================================================
