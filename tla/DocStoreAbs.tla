----------------------------- MODULE DocStoreAbs -----------------------------
(***************************************************************************)
(* What a caller of Repo may count on while nobody else is calling it for   *)
(* the same document: an atomic map from ids to documents.  A call takes    *)
(* effect at one instant between its start and its answer, or (error,       *)
(* crash) perhaps not at all; an update replaces exactly the version its    *)
(* callback was shown; a create never replaces a document; and an answer    *)
(* tells the truth about the map.  There are no sidecars here.              *)
(***************************************************************************)
CONSTANTS Docs, Procs, Versions, NoFile, Garbled, Quiet

VARIABLES store, call, reply

absVars == <<store, call, reply>>

None == [kind |-> "none"]
Requests ==
  [kind : {"create"}, doc : Docs, base : {NoFile}, text : Versions] \cup
  [kind : {"update"}, doc : Docs, base : Versions, text : Versions] \cup
  [kind : {"delete"}, doc : Docs, base : {NoFile}, text : {NoFile}]

Answered(p, status, seen) ==
  reply' = [reply EXCEPT ![p] = [status |-> status, seen |-> seen]]

Init ==
  /\ store = [d \in Docs |-> NoFile]
  /\ call = [p \in Procs |-> None]
  /\ reply = [p \in Procs |-> [status |-> "none", seen |-> NoFile]]

\* A call that goes ahead; an update is shown the current document.
Start(p, r) ==
  /\ call[p] = None
  /\ r.kind = "create" => store[r.doc] = NoFile
  /\ r.kind = "update" => store[r.doc] = r.base
  /\ r.kind = "delete" => store[r.doc] # NoFile
  /\ call' = [call EXCEPT ![p] = [request |-> r, done |-> FALSE]]
  /\ UNCHANGED <<store, reply>>

\* A call answered at once: a refusal, or a read.
Refuse(p, d) ==
  /\ call[p] = None
  /\ \/ store[d] # NoFile /\ Answered(p, "conflict", NoFile)
     \/ store[d] = NoFile /\ Answered(p, "not_found", NoFile)
     \/ store[d] = Garbled /\ Answered(p, "error", NoFile)
     \/ store[d] \in Versions /\ Answered(p, "ok", store[d])
  /\ UNCHANGED <<store, call>>

\* The instant a call takes effect.
Apply(p) ==
  /\ call[p] # None /\ ~call[p].done
  /\ LET r == call[p].request IN
       /\ r.kind = "create" => store[r.doc] = NoFile
       /\ r.kind = "update" => store[r.doc] = r.base
       /\ store' = [store EXCEPT ![r.doc] = r.text]
  /\ call' = [call EXCEPT ![p].done = TRUE]
  /\ UNCHANGED reply

\* A success is reported after the call took effect, with the document as it
\* now stands; a failure may be reported before or after.
Finish(p) ==
  /\ call[p] # None
  /\ call' = [call EXCEPT ![p] = None]
  /\ \/ /\ call[p].done /\ store[call[p].request.doc] = call[p].request.text
        /\ Answered(p, "ok", store[call[p].request.doc])
     \/ \E status \in {"error", "crashed"} : Answered(p, status, NoFile)
  /\ UNCHANGED store

\* Somebody edits the file, at a moment when no call is about to write it.
Edit(d) ==
  /\ ~Quiet
  /\ \A p \in Procs : call[p] # None => call[p].request.doc # d
  /\ \E m \in Versions \cup {NoFile, Garbled} : store' = [store EXCEPT ![d] = m]
  /\ UNCHANGED <<call, reply>>

Next ==
  \/ \E p \in Procs : \/ \E r \in Requests : Start(p, r)
                      \/ \E d \in Docs : Refuse(p, d)
                      \/ Apply(p)
                      \/ Finish(p)
  \/ \E d \in Docs : Edit(d)

Spec == Init /\ [][Next]_absVars
=============================================================================
