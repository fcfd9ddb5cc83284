----------------------------- MODULE MCSyncState -----------------------------
(* TLC instances of SyncState: confluence may be given another page, and
   only the first version names the issue of jira. *)
EXTENDS SyncState, TLC

CONSTANTS confluence, jira, t1, t2

MCVersions == {
  [text |-> "a", target |-> (confluence :> t1 @@ jira :> t1)],
  [text |-> "b", target |-> (confluence :> t1 @@ jira :> None)],
  [text |-> "a", target |-> (confluence :> t2 @@ jira :> None)]}

MCMaxRevision == confluence :> 2 @@ jira :> 1

Symmetry == Permutations(Procs)
=============================================================================
