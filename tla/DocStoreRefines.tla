---------------------------- MODULE DocStoreRefines ----------------------------
(***************************************************************************)
(* The refinement mapping from the two-file store to the atomic map.        *)
(***************************************************************************)
EXTENDS DocStore

\* The map of documents is the markdown files; a call has taken effect once
\* its markdown is written or removed.
Call(p) ==
  IF Idle(p) THEN [kind |-> "none"]
  ELSE [request |-> [kind |-> job[p].kind, doc |-> job[p].doc,
                     base |-> job[p].base, text |-> job[p].text],
        done |-> job[p].stage \notin {"write_md", "remove_md"}]

Abs == INSTANCE DocStoreAbs WITH
         store <- md, call <- [p \in Procs |-> Call(p)], Quiet <- ~OutOfBand

\* For callers that do not overlap on a document, Repo is the atomic map of
\* DocStoreAbs: no lost update, no overwriting create, truthful answers, even
\* though every call is several unlocked steps on two files.
AtomicForSerialCallers == Abs!Spec
=============================================================================
