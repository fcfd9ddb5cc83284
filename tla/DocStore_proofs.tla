---------------------------- MODULE DocStore_proofs ----------------------------
(***************************************************************************)
(* Proofs about DocStore, for every set of documents, callers, edits and    *)
(* keys, and every setting of the switches; then, for callers that do not   *)
(* overlap on a document, that Repo implements the atomic map of            *)
(* DocStoreAbs.                                                             *)
(***************************************************************************)
EXTENDS DocStoreRefines, TLAPS

\* The fields of a call in progress.
LEMMA JobFields ==
  ASSUME TypeOK, NEW p \in Procs, job[p] # NoJob
  PROVE  /\ job[p] \in Jobs
         /\ job[p].doc \in Docs
         /\ job[p].stage \in {"write_md", "write_sidecar", "read_back"}
              => job[p].text \in Versions
         /\ job[p].stage \in {"remove_md", "remove_sidecar"}
              => job[p].text = NoFile
BY DEF TypeOK, Jobs, NoJob

\* Sidecars written by Save are well formed.
LEMMA NewSidecarType ==
  ASSUME NEW v \in Versions, NEW b \in BOOLEAN, NEW k \in Keys \cup {NoKey}
  PROVE  /\ NewSidecar(v, b, k) \in Sidecars
         /\ NewSidecar(v, b, k).of = v
BY VirtualsAssumption DEF NewSidecar, Sidecars

\* Reading a file yields a document or nothing.
LEMMA ReadType ==
  ASSUME NEW m \in Versions \cup {NoFile, Garbled}
  PROVE  [status |-> ReadStatus(m), seen |-> Read(m)] \in Replies
BY DEF ReadStatus, Read, Replies

\* The initial files and calls are well typed.
LEMMA TypeCorrectInit == Init => TypeOK
BY DEF Init, TypeOK, Replies

\* Every step of callers, faults and editors keeps the types.
LEMMA TypeStep == TypeOK /\ [Next]_storeVars => TypeOK'
<1> SUFFICES ASSUME TypeOK, [Next]_storeVars PROVE TypeOK'
  OBVIOUS
<1> USE DEF TypeOK
<1>1. ASSUME NEW p \in Procs, NEW d \in Docs, NEW e \in Edits, CreateStat(p, d, e)
      PROVE  TypeOK'
  <2>1. CASE md[d] = NoFile
    <3>1. Fresh(e) \in Versions
      BY DEF Fresh, Versions, Forms
    <3> QED BY <1>1, <2>1, <3>1 DEF CreateStat, Begin, Jobs
  <2>2. CASE md[d] # NoFile
    BY <1>1, <2>2 DEF CreateStat, Answer, Replies
  <2> QED BY <2>1, <2>2
<1>2. ASSUME NEW p \in Procs, NEW d \in Docs, NEW e \in Edits, UpdateGet(p, d, e)
      PROVE  TypeOK'
  <2>1. CASE md[d] \in Versions
    <3>1. With(md[d], e) \in Versions
      BY <2>1 DEF With, Versions, Forms
    <3> QED BY <1>2, <2>1, <3>1 DEF UpdateGet, Begin, Jobs
  <2>2. CASE md[d] \notin Versions
    BY <1>2, <2>2 DEF UpdateGet, Answer, Replies, ReadStatus
  <2> QED BY <2>1, <2>2
<1>3. ASSUME NEW p \in Procs, NEW d \in Docs, DeleteStat(p, d)
      PROVE  TypeOK'
  BY <1>3 DEF DeleteStat, Begin, Answer, Jobs, Replies
<1>4. ASSUME NEW p \in Procs, NEW d \in Docs, Get(p, d)
      PROVE  TypeOK'
  BY <1>4, ReadType DEF Get, Answer
<1>5. ASSUME NEW p \in Procs, WriteMarkdown(p)
      PROVE  TypeOK'
  BY <1>5, JobFields DEF WriteMarkdown, At, Advance, Overlap, Jobs
<1>6. ASSUME NEW p \in Procs, SaveRefused(p) \/ SidecarRefused(p) \/ RemoveRefused(p)
      PROVE  TypeOK'
  BY <1>6, JobFields DEF SaveRefused, SidecarRefused, RemoveRefused, At, Finish, Replies
<1>7. ASSUME NEW p \in Procs, WriteSidecar(p)
      PROVE  TypeOK'
  <2>1. NewSidecar(job[p].text, TRUE, key) \in Sidecars
    BY <1>7, JobFields, NewSidecarType DEF WriteSidecar, At
  <2> QED BY ZenonT(40), <1>7, <2>1, JobFields DEF WriteSidecar, At, Advance, Jobs
<1>8. ASSUME NEW p \in Procs, ReadBack(p)
      PROVE  TypeOK'
  BY <1>8, JobFields, ReadType DEF ReadBack, At, Finish
<1>9. ASSUME NEW p \in Procs, RemoveMarkdown(p)
      PROVE  TypeOK'
  BY <1>9, JobFields DEF RemoveMarkdown, At, Advance, Overlap, Jobs
<1>10. ASSUME NEW p \in Procs, RemoveSidecar(p)
       PROVE  TypeOK'
  BY <1>10, JobFields DEF RemoveSidecar, At, Finish, Replies
<1>11. ASSUME NEW p \in Procs, Crash(p)
       PROVE  TypeOK'
  BY <1>11, JobFields DEF Crash, Idle, Finish, Replies
<1>12. ASSUME NEW d \in Docs, HandEdit(d)
       PROVE  TypeOK'
  BY <1>12 DEF HandEdit
<1>13. ASSUME NEW k \in Keys \cup {NoKey, BadKey}, ChangeKey(k)
       PROVE  TypeOK'
  BY <1>13 DEF ChangeKey
<1>14. CASE UNCHANGED storeVars
  BY <1>14 DEF storeVars
<1> QED
  BY <1>1, <1>2, <1>3, <1>4, <1>5, <1>6, <1>7, <1>8, <1>9, <1>10, <1>11,
     <1>12, <1>13, <1>14 DEF Next, CallerStep

\* Every variable keeps its type whatever callers, faults and editors do.
THEOREM TypeCorrect == Spec => []TypeOK
<1> QED BY TypeCorrectInit, TypeStep, PTL DEF Spec

-----------------------------------------------------------------------------

\* The inductive invariant behind PairsAgree.
StoreInv == TypeOK /\ PairsAgree /\ OneWriter

\* A step that touches neither file and puts no call between its two writes
\* preserves the invariant, as long as it forgets no disturbance.
LEMMA QuietStep ==
  ASSUME StoreInv, UNCHANGED <<md, sidecar>>, disturbed \subseteq disturbed',
         disturbed' \subseteq Docs,
         \A p \in Procs, d \in Docs \ disturbed' :
            /\ Mid(p, d)' <=> Mid(p, d)
            /\ Mid(p, d) => job'[p] = job[p]
  PROVE  (PairsAgree /\ OneWriter)'
BY DEF StoreInv, PairsAgree, OneWriter

\* Whatever the interleaving of callers, faults and editors, Document.Save and
\* Document.Delete keep the store's invariant.
THEOREM StoreInvAlways == Spec => []StoreInv
<1>1. Init => StoreInv
  BY TypeCorrectInit DEF Init, StoreInv, PairsAgree, OneWriter, Paired, Mid, NoJob
<1>2. StoreInv /\ TypeOK' /\ [Next]_storeVars => StoreInv'
  <2> SUFFICES ASSUME StoreInv, TypeOK', [Next]_storeVars
               PROVE  (PairsAgree /\ OneWriter)'
    BY DEF StoreInv
  <2> USE DEF StoreInv
  <2>1. ASSUME NEW p \in Procs, NEW d \in Docs, NEW e \in Edits,
               CreateStat(p, d, e) \/ UpdateGet(p, d, e)
        PROVE  (PairsAgree /\ OneWriter)'
    BY <2>1, QuietStep
       DEF CreateStat, UpdateGet, Begin, Answer, Idle, Mid, NoJob, TypeOK
  <2>2. ASSUME NEW p \in Procs, NEW d \in Docs, DeleteStat(p, d) \/ Get(p, d)
        PROVE  (PairsAgree /\ OneWriter)'
    BY <2>2, QuietStep
       DEF DeleteStat, Get, Begin, Answer, Idle, Mid, NoJob, TypeOK
  <2>3. ASSUME NEW p \in Procs, SaveRefused(p) \/ SidecarRefused(p) \/ ReadBack(p)
        PROVE  (PairsAgree /\ OneWriter)'
    BY <2>3, QuietStep, JobFields
       DEF SaveRefused, SidecarRefused, ReadBack, Finish, At, Mid, NoJob, TypeOK
  <2>4. ASSUME NEW p \in Procs, RemoveRefused(p) \/ Crash(p)
        PROVE  (PairsAgree /\ OneWriter)'
    BY <2>4, QuietStep, JobFields
       DEF RemoveRefused, Crash, Finish, At, Idle, Mid, NoJob, TypeOK
  <2>5. ASSUME NEW p \in Procs, WriteMarkdown(p) \/ RemoveMarkdown(p)
        PROVE  (PairsAgree /\ OneWriter)'
    <3> DEFINE d == job[p].doc
    <3>1. d \in Docs /\ job[p] # NoJob
      BY <2>5, JobFields DEF WriteMarkdown, RemoveMarkdown, At
    <3>2. /\ md' = [md EXCEPT ![d] = job[p].text] /\ sidecar' = sidecar
          /\ disturbed' = Overlap(p, d)
          /\ \E s \in {"write_sidecar", "remove_sidecar"} :
               job' = [job EXCEPT ![p].stage = s]
      BY <2>5, <3>1, JobFields DEF WriteMarkdown, RemoveMarkdown, Advance, At
    <3>3. job'[p] # NoJob /\ job'[p].doc = d /\ job'[p].text = job[p].text /\ Mid(p, d)'
      BY <3>1, <3>2, JobFields DEF Mid, TypeOK, Jobs, NoJob
    <3>4. \A q \in Procs \ {p}, c \in Docs :
             job'[q] = job[q] /\ (Mid(q, c)' <=> Mid(q, c))
      BY <3>2 DEF Mid, TypeOK
    <3>5. \A c \in Docs : c # d => ~Mid(p, c) /\ ~Mid(p, c)'
      BY <3>3 DEF Mid
    <3>6. d \notin disturbed' => \A q \in Procs \ {p} : ~Mid(q, d)
      BY <3>2 DEF Overlap, OthersMid
    <3>7. disturbed \subseteq disturbed'
      BY <3>2 DEF Overlap
    <3>8. OneWriter'
      BY <3>1, <3>2, <3>3, <3>4, <3>5, <3>6, <3>7 DEF OneWriter, TypeOK
    <3>9. PairsAgree'
      BY <3>1, <3>2, <3>3, <3>4, <3>5, <3>7 DEF PairsAgree, TypeOK
    <3> QED BY <3>8, <3>9
  <2>6. ASSUME NEW p \in Procs, WriteSidecar(p) \/ RemoveSidecar(p)
        PROVE  (PairsAgree /\ OneWriter)'
    <3> DEFINE d == job[p].doc
    <3>1. d \in Docs /\ job[p] # NoJob /\ Mid(p, d)
      BY <2>6, JobFields DEF WriteSidecar, RemoveSidecar, At, Mid
    <3>2. /\ md' = md
          /\ \E s : sidecar' = [sidecar EXCEPT ![d] = s] /\ Paired(job[p].text, s)
          /\ disturbed' = IF md[d] = job[p].text /\ ~OthersMid(p, d)
                            THEN disturbed \ {d} ELSE disturbed
      <4>1. CASE WriteSidecar(p)
        <5>1. job[p].text \in Versions /\ key \in Keys \cup {NoKey}
          BY <4>1, JobFields DEF WriteSidecar, At, TypeOK
        <5> QED BY <4>1, <5>1, NewSidecarType DEF WriteSidecar, Paired
      <4>2. CASE RemoveSidecar(p)
        <5>1. job[p].text = NoFile
          BY <4>2, JobFields DEF RemoveSidecar, At
        <5>2. Paired(NoFile, NoFile)
          BY DEF Paired
        <5> QED BY <4>2, <5>1, <5>2 DEF RemoveSidecar
      <4> QED BY <2>6, <4>1, <4>2
    <3>3. \A c \in Docs : ~Mid(p, c)'
      <4>1. CASE WriteSidecar(p)
        <5>1. job' = [job EXCEPT ![p].stage = "read_back"] /\ job[p] \in Jobs
          BY <3>1, <4>1, JobFields DEF WriteSidecar, Advance
        <5>2. job'[p].stage = "read_back"
          BY <5>1 DEF Jobs, TypeOK
        <5> QED BY <5>2 DEF Mid
      <4>2. CASE RemoveSidecar(p)
        BY <4>2 DEF RemoveSidecar, Finish, Mid, TypeOK
      <4> QED BY <2>6, <4>1, <4>2
    <3>4. \A q \in Procs \ {p}, c \in Docs :
             job'[q] = job[q] /\ (Mid(q, c)' <=> Mid(q, c))
      BY <2>6 DEF WriteSidecar, RemoveSidecar, Advance, Finish, Mid, TypeOK
    <3>5. d \notin disturbed' =>
            md[d] = job[p].text /\ \A q \in Procs \ {p} : ~Mid(q, d)
      BY <3>1, <3>2 DEF OneWriter, OthersMid
    <3>6. \A c \in Docs : c # d => ~Mid(p, c)
      BY DEF Mid
    <3>7. OneWriter'
      BY <3>1, <3>2, <3>3, <3>4, <3>5, <3>6 DEF OneWriter, TypeOK
    <3>8. PairsAgree'
      <4> SUFFICES ASSUME NEW c \in Docs \ disturbed', \A q \in Procs : ~Mid(q, c)'
                   PROVE  Paired(md'[c], sidecar'[c])
        BY DEF PairsAgree, Mid, Paired
      <4>1. CASE c = d
        BY <3>1, <3>2, <3>5, <4>1 DEF TypeOK
      <4>2. CASE c # d
        BY <3>1, <3>2, <3>4, <3>6, <4>2 DEF PairsAgree, TypeOK
      <4> QED BY <4>1, <4>2
    <3> QED BY <3>7, <3>8
  <2>7. ASSUME NEW d \in Docs, HandEdit(d)
        PROVE  (PairsAgree /\ OneWriter)'
    BY <2>7 DEF HandEdit, PairsAgree, OneWriter, Mid, TypeOK
  <2>8. ASSUME NEW k \in Keys \cup {NoKey, BadKey}, ChangeKey(k)
        PROVE  (PairsAgree /\ OneWriter)'
    BY <2>8, QuietStep DEF ChangeKey, Mid, TypeOK
  <2>9. CASE UNCHANGED storeVars
    BY <2>9, QuietStep DEF storeVars, Mid, TypeOK
  <2> QED
    BY <2>1, <2>2, <2>3, <2>4, <2>5, <2>6, <2>7, <2>8, <2>9 DEF Next, CallerStep
<1> QED BY <1>1, <1>2, TypeCorrect, PTL DEF Spec

\* The two files of a document disagree only when one of the named disturbances
\* happened to it.
THEOREM PairsAgreeAlways == Spec => []PairsAgree
<1>1. StoreInv => PairsAgree
  BY DEF StoreInv
<1> QED BY <1>1, StoreInvAlways, PTL

\* In an undisturbed document one call at a time is between its two writes.
THEOREM OneWriterAlways == Spec => []OneWriter
<1>1. StoreInv => OneWriter
  BY DEF StoreInv
<1> QED BY <1>1, StoreInvAlways, PTL

-----------------------------------------------------------------------------

\* One call per document at a time.
OneCall ==
  \A p, q \in Procs :
    (job[p] # NoJob /\ job[q] # NoJob /\ job[p].doc = job[q].doc) => p = q

\* Before it writes, a call finds the document as its Get or stat saw it ...
BaseStands ==
  \A p \in Procs : At(p, "write_md") =>
    /\ job[p].kind = "create" => md[job[p].doc] = NoFile
    /\ job[p].kind = "update" => md[job[p].doc] = job[p].base

\* ... afterwards, as it left it.
TextStands ==
  \A p \in Procs :
    (At(p, "write_sidecar") \/ At(p, "read_back") \/ At(p, "remove_sidecar"))
      => md[job[p].doc] = job[p].text

\* A create starts from no document, an update from the one it was shown.
BasesAre ==
  \A p \in Procs :
    /\ (job[p] # NoJob /\ job[p].kind = "create") => job[p].base = NoFile
    /\ (job[p] # NoJob /\ job[p].kind = "update") => job[p].base \in Versions

SerialInv == OneCall /\ BaseStands /\ TextStands /\ BasesAre

\* A call may begin on a document nobody is at work on.
LEMMA BeginSerial ==
  ASSUME TypeOK, SerialInv, NEW p \in Procs, NEW j \in Jobs,
         Idle(p), Free(j.doc), md' = md, job' = [job EXCEPT ![p] = j],
         j.stage \in {"write_md", "remove_md"},
         j.kind = "create" => j.base = NoFile /\ md[j.doc] = NoFile,
         j.kind = "update" => j.base = md[j.doc] /\ j.base \in Versions
  PROVE  SerialInv'
<1>1. j # NoJob
  BY DEF Jobs, NoJob
<1>2. job'[p] = j /\ \A q \in Procs \ {p} : job'[q] = job[q]
  BY DEF TypeOK
<1>3. \A q \in Procs \ {p} : job[q] # NoJob => job[q].doc # j.doc
  BY DEF Free
<1>4. OneCall'
  BY <1>1, <1>2, <1>3 DEF OneCall, SerialInv
<1>5. BaseStands'
  BY <1>1, <1>2 DEF BaseStands, SerialInv, At
<1>6. TextStands'
  BY <1>1, <1>2 DEF TextStands, SerialInv, At
<1>7. BasesAre'
  BY <1>1, <1>2 DEF BasesAre, SerialInv
<1> QED BY <1>4, <1>5, <1>6, <1>7 DEF SerialInv

\* A call that ends leaves the others as they were.
LEMMA EndSerial ==
  ASSUME TypeOK, SerialInv, NEW p \in Procs,
         md' = md, job' = [job EXCEPT ![p] = NoJob]
  PROVE  SerialInv'
BY DEF TypeOK, SerialInv, OneCall, BaseStands, TextStands, BasesAre, At

\* So does a step that touches neither calls nor markdown.
LEMMA StutterSerial ==
  ASSUME SerialInv, UNCHANGED <<md, job>>
  PROVE  SerialInv'
BY DEF SerialInv, OneCall, BaseStands, TextStands, BasesAre, At

\* A call that goes on to its next stage has its document to itself.
LEMMA AdvanceSerial ==
  ASSUME TypeOK, SerialInv, NEW p \in Procs, job[p] # NoJob,
         NEW s \in {"write_sidecar", "read_back", "remove_sidecar"},
         job' = [job EXCEPT ![p].stage = s],
         \/ md' = [md EXCEPT ![job[p].doc] = job[p].text]
         \/ md' = md /\ md[job[p].doc] = job[p].text
  PROVE  SerialInv'
<1>1. job[p] \in Jobs /\ job[p].doc \in Docs
  BY JobFields
<1>2. /\ job'[p] = [job[p] EXCEPT !.stage = s]
      /\ \A q \in Procs \ {p} : job'[q] = job[q]
  BY DEF TypeOK
<1>3. /\ job'[p] # NoJob /\ job'[p].doc = job[p].doc /\ job'[p].text = job[p].text
      /\ job'[p].kind = job[p].kind /\ job'[p].base = job[p].base
      /\ job'[p].stage = s
  BY <1>1, <1>2 DEF Jobs, NoJob
<1>4. md'[job[p].doc] = job[p].text /\ \A d \in Docs \ {job[p].doc} : md'[d] = md[d]
  BY <1>1 DEF TypeOK
<1>5. \A q \in Procs \ {p} : job[q] # NoJob => job[q].doc \in Docs \ {job[p].doc}
  BY JobFields DEF SerialInv, OneCall
<1>6. OneCall'
  BY <1>2, <1>3 DEF OneCall, SerialInv
<1>7. BaseStands'
  BY <1>2, <1>3, <1>4, <1>5 DEF BaseStands, SerialInv, At
<1>8. TextStands'
  BY <1>2, <1>3, <1>4, <1>5 DEF TextStands, SerialInv, At
<1>9. BasesAre'
  BY <1>2, <1>3 DEF BasesAre, SerialInv
<1> QED BY <1>6, <1>7, <1>8, <1>9 DEF SerialInv

\* The initial state has no calls.
LEMMA SerialInit == Init => SerialInv
BY DEF Init, SerialInv, OneCall, BaseStands, TextStands, BasesAre, At

\* Every step of serial callers keeps the invariant.
LEMMA SerialStep ==
  ASSUME SerialCallers, TypeOK, SerialInv, [Next]_storeVars
  PROVE  SerialInv'
<1>1. ASSUME NEW p \in Procs, NEW d \in Docs, NEW e \in Edits, CreateStat(p, d, e)
      PROVE  SerialInv'
  <2>1. CASE md[d] # NoFile
    BY <1>1, <2>1, StutterSerial DEF CreateStat, Answer
  <2>2. CASE md[d] = NoFile
    <3> DEFINE j == [kind |-> "create", doc |-> d, base |-> NoFile,
                     text |-> Fresh(e), stage |-> "write_md"]
    <3>1. j \in Jobs
      BY DEF Jobs, Fresh, Versions, Forms
    <3> QED
      BY <1>1, <2>2, <3>1, BeginSerial DEF CreateStat, Begin, MayTouch
  <2> QED BY <2>1, <2>2
<1>2. ASSUME NEW p \in Procs, NEW d \in Docs, NEW e \in Edits, UpdateGet(p, d, e)
      PROVE  SerialInv'
  <2>1. CASE md[d] \notin Versions
    BY <1>2, <2>1, StutterSerial DEF UpdateGet, Answer
  <2>2. CASE md[d] \in Versions
    <3> DEFINE j == [kind |-> "update", doc |-> d, base |-> md[d],
                     text |-> With(md[d], e), stage |-> "write_md"]
    <3>1. With(md[d], e) \in Versions
      BY <2>2 DEF With, Versions, Forms
    <3>2. j \in Jobs
      BY <2>2, <3>1 DEF Jobs
    <3> QED
      BY <1>2, <2>2, <3>1, <3>2, BeginSerial DEF UpdateGet, Begin, MayTouch
  <2> QED BY <2>1, <2>2
<1>3. ASSUME NEW p \in Procs, NEW d \in Docs, DeleteStat(p, d)
      PROVE  SerialInv'
  <2>1. CASE md[d] = NoFile
    BY <1>3, <2>1, StutterSerial DEF DeleteStat, Answer
  <2>2. CASE md[d] # NoFile
    <3> DEFINE j == [kind |-> "delete", doc |-> d, base |-> NoFile,
                     text |-> NoFile, stage |-> "remove_md"]
    <3>1. j \in Jobs
      BY DEF Jobs
    <3> QED
      BY <1>3, <2>2, <3>1, BeginSerial DEF DeleteStat, Begin, MayTouch
  <2> QED BY <2>1, <2>2
<1>4. ASSUME NEW p \in Procs, NEW d \in Docs, Get(p, d)
      PROVE  SerialInv'
  BY <1>4, StutterSerial DEF Get, Answer
<1>5. ASSUME NEW p \in Procs, WriteMarkdown(p) \/ RemoveMarkdown(p)
      PROVE  SerialInv'
  <2>1. CASE WriteMarkdown(p)
    BY <2>1, AdvanceSerial DEF WriteMarkdown, Advance, At
  <2>2. CASE RemoveMarkdown(p)
    <3>1. job[p].text = NoFile
      BY <2>2, JobFields DEF RemoveMarkdown, At
    <3> QED BY <2>2, <3>1, AdvanceSerial DEF RemoveMarkdown, Advance, At
  <2> QED BY <1>5, <2>1, <2>2
<1>6. ASSUME NEW p \in Procs, WriteSidecar(p)
      PROVE  SerialInv'
  <2>1. md[job[p].doc] = job[p].text
    BY <1>6 DEF WriteSidecar, SerialInv, TextStands
  <2> QED BY <1>6, <2>1, AdvanceSerial DEF WriteSidecar, Advance, At
<1>7. ASSUME NEW p \in Procs,
             \/ SaveRefused(p) \/ SidecarRefused(p) \/ ReadBack(p)
             \/ RemoveSidecar(p) \/ RemoveRefused(p) \/ Crash(p)
      PROVE  SerialInv'
  BY <1>7, EndSerial
     DEF SaveRefused, SidecarRefused, ReadBack, RemoveSidecar, RemoveRefused,
         Crash, Finish
<1>8. ASSUME NEW d \in Docs, HandEdit(d)
      PROVE  SerialInv'
  <2>1. \A p \in Procs : job[p] # NoJob => job[p].doc # d
    BY <1>8 DEF HandEdit, MayTouch, Free
  <2>2. job' = job /\ \A c \in Docs : c # d => md'[c] = md[c]
    BY <1>8 DEF HandEdit, TypeOK
  <2>3. \A p \in Procs : job[p] # NoJob => md'[job[p].doc] = md[job[p].doc]
    BY <2>1, <2>2, JobFields
  <2> QED
    BY <2>2, <2>3 DEF SerialInv, OneCall, BaseStands, TextStands, BasesAre, At
<1>9. CASE UNCHANGED storeVars \/ \E k \in Keys \cup {NoKey, BadKey} : ChangeKey(k)
  BY <1>9, StutterSerial DEF storeVars, ChangeKey
<1> QED
  BY <1>1, <1>2, <1>3, <1>4, <1>5, <1>6, <1>7, <1>8, <1>9 DEF Next, CallerStep

\* Calls of serial callers find their document as they left it, whatever
\* crashes, refused writes, editors and key changes come in between.
THEOREM SerialInvAlways == ASSUME SerialCallers PROVE Spec => [](TypeOK /\ SerialInv)
<1>1. Init => SerialInv
  BY SerialInit
<1>2. TypeOK /\ SerialInv /\ [Next]_storeVars => SerialInv'
  BY SerialStep
<1> QED BY <1>1, <1>2, TypeCorrect, PTL DEF Spec

-----------------------------------------------------------------------------

\* The calls of the abstract map after a step that changes p's call only.
Calls == [p \in Procs |-> Call(p)]

\* A call that begins is a call the abstract map has not applied yet.
LEMMA CallBegins ==
  ASSUME TypeOK, NEW p \in Procs, NEW j \in Jobs, job' = [job EXCEPT ![p] = j],
         j.stage \in {"write_md", "remove_md"}
  PROVE  Calls' = [Calls EXCEPT ![p] =
                     [request |-> [kind |-> j.kind, doc |-> j.doc,
                                   base |-> j.base, text |-> j.text],
                      done |-> FALSE]]
<1>1. job'[p] = j /\ j # NoJob /\ \A q \in Procs \ {p} : job'[q] = job[q]
  BY DEF TypeOK, Jobs, NoJob
<1> QED BY <1>1 DEF Calls, Call, Idle

\* A call that ends is gone there too.
LEMMA CallEnds ==
  ASSUME TypeOK, NEW p \in Procs, job' = [job EXCEPT ![p] = NoJob]
  PROVE  Calls' = [Calls EXCEPT ![p] = Abs!None]
<1>1. job'[p] = NoJob /\ \A q \in Procs \ {p} : job'[q] = job[q]
  BY DEF TypeOK
<1> QED BY <1>1 DEF Calls, Call, Idle, Abs!None

\* A call that wrote its markdown has taken effect.
LEMMA CallApplies ==
  ASSUME TypeOK, NEW p \in Procs, job[p] # NoJob,
         NEW s \in {"write_sidecar", "read_back", "remove_sidecar"},
         job' = [job EXCEPT ![p].stage = s]
  PROVE  Calls' = [Calls EXCEPT ![p].done = TRUE]
<1>1. job[p] \in Jobs
  BY JobFields
<1>2. job'[p] = [job[p] EXCEPT !.stage = s] /\ \A q \in Procs \ {p} : job'[q] = job[q]
  BY DEF TypeOK
<1>3. /\ job'[p] # NoJob /\ job'[p].doc = job[p].doc /\ job'[p].text = job[p].text
      /\ job'[p].kind = job[p].kind /\ job'[p].base = job[p].base
      /\ job'[p].stage = s
  BY <1>1, <1>2 DEF Jobs, NoJob
<1>4. Call(p)' = [Call(p) EXCEPT !.done = TRUE]
  <2> DEFINE r == [kind |-> job[p].kind, doc |-> job[p].doc,
                   base |-> job[p].base, text |-> job[p].text]
             b == job[p].stage \notin {"write_md", "remove_md"}
  <2>1. Call(p) = [request |-> r, done |-> b]
    BY DEF Call, Idle
  <2>2. r' = r
    BY <1>3
  <2>3. Call(p)' = [request |-> r', done |-> b']
    BY <1>3 DEF Call, Idle
  <2>4. b' = TRUE
    BY <1>3
  <2> DEFINE yes == TRUE
  <2>5. [Call(p) EXCEPT !.done = yes] = [request |-> r, done |-> yes]
    <3> HIDE DEF r, b, yes
    <3> QED BY <2>1
  <2> HIDE DEF r, b
  <2> QED BY <2>2, <2>3, <2>4, <2>5
<1>5. \A q \in Procs \ {p} : Call(q)' = Call(q)
  BY <1>2 DEF Call, Idle
<1> QED BY <1>4, <1>5 DEF Calls

\* The request of a call in progress is one the abstract map knows.
LEMMA CallInProgress ==
  ASSUME TypeOK, NEW p \in Procs, job[p] # NoJob
  PROVE  /\ Call(p) # Abs!None
         /\ Call(p).request.kind = job[p].kind
         /\ Call(p).request.doc = job[p].doc
         /\ Call(p).request.base = job[p].base
         /\ Call(p).request.text = job[p].text
         /\ job[p].stage \in {"write_md", "remove_md"} => ~Call(p).done
         /\ job[p].stage \notin {"write_md", "remove_md"}
              => Call(p).done /\ [Call(p) EXCEPT !.done = TRUE] = Call(p)
<1> DEFINE r == [kind |-> job[p].kind, doc |-> job[p].doc,
                 base |-> job[p].base, text |-> job[p].text]
           b == job[p].stage \notin {"write_md", "remove_md"}
<1>1. Call(p) = [request |-> r, done |-> b]
  BY DEF Call, Idle
<1>2. b \in BOOLEAN
  OBVIOUS
<1> HIDE DEF r, b
<1>3. Call(p) # Abs!None /\ Call(p).request = r /\ Call(p).done = b
  BY <1>1 DEF Abs!None
<1>4. b => [Call(p) EXCEPT !.done = TRUE] = Call(p)
  <2> DEFINE yes == TRUE
  <2>1. [Call(p) EXCEPT !.done = yes] = [request |-> r, done |-> yes]
    <3> HIDE DEF yes
    <3> QED BY <1>1
  <2> QED BY <2>1, <1>1, <1>2
<1>5. /\ r.kind = job[p].kind /\ r.doc = job[p].doc
      /\ r.base = job[p].base /\ r.text = job[p].text
  BY DEF r
<1> QED BY <1>3, <1>4, <1>5 DEF b

\* A call that begins is a Start of the abstract map.
LEMMA StartsAbs ==
  ASSUME TypeOK, NEW p \in Procs, NEW j \in Jobs, Idle(p),
         job' = [job EXCEPT ![p] = j], md' = md, reply' = reply,
         j.stage \in {"write_md", "remove_md"},
         j.kind = "create" => j.base = NoFile /\ md[j.doc] = NoFile,
         j.kind = "update" => j.base = md[j.doc] /\ j.base \in Versions,
         j.kind = "delete" => md[j.doc] # NoFile
  PROVE  Abs!Next
<1> DEFINE r == [kind |-> j.kind, doc |-> j.doc, base |-> j.base, text |-> j.text]
<1>1. r \in Abs!Requests
  BY DEF Jobs, Abs!Requests
<1>2. Calls[p] = Abs!None
  BY DEF Calls, Call, Idle, Abs!None
<1>3. Calls' = [Calls EXCEPT ![p] = [request |-> r, done |-> FALSE]]
  BY CallBegins
<1>4. Abs!Start(p, r)
  BY <1>2, <1>3 DEF Abs!Start, Calls
<1> QED BY <1>1, <1>4 DEF Abs!Next

\* Every step of serial callers is a step of the abstract map, or none.
LEMMA SerialRefines ==
  ASSUME SerialCallers, TypeOK, SerialInv, [Next]_storeVars
  PROVE  [Abs!Next]_(Abs!absVars)
<1>1. ASSUME NEW p \in Procs, NEW d \in Docs, NEW e \in Edits, CreateStat(p, d, e)
      PROVE  Abs!Next
  <2>1. CASE md[d] # NoFile
    <3>1. Abs!Refuse(p, d)
      BY <1>1, <2>1 DEF CreateStat, Answer, Abs!Refuse, Abs!Answered, Call, Idle, Abs!None
    <3> QED BY <3>1 DEF Abs!Next
  <2>2. CASE md[d] = NoFile
    <3> DEFINE j == [kind |-> "create", doc |-> d, base |-> NoFile,
                     text |-> Fresh(e), stage |-> "write_md"]
    <3>1. j \in Jobs
      BY DEF Jobs, Fresh, Versions, Forms
    <3> QED BY <1>1, <2>2, <3>1, StartsAbs DEF CreateStat, Begin
  <2> QED BY <2>1, <2>2
<1>2. ASSUME NEW p \in Procs, NEW d \in Docs, NEW e \in Edits, UpdateGet(p, d, e)
      PROVE  Abs!Next
  <2>1. CASE md[d] \notin Versions
    <3>1. Abs!Refuse(p, d)
      BY <1>2, <2>1
         DEF UpdateGet, Answer, ReadStatus, TypeOK, Abs!Refuse, Abs!Answered, Call, Idle, Abs!None
    <3> QED BY <3>1 DEF Abs!Next
  <2>2. CASE md[d] \in Versions
    <3> DEFINE j == [kind |-> "update", doc |-> d, base |-> md[d],
                     text |-> With(md[d], e), stage |-> "write_md"]
    <3>1. With(md[d], e) \in Versions
      BY <2>2 DEF With, Versions, Forms
    <3>2. j \in Jobs
      BY <2>2, <3>1 DEF Jobs
    <3> QED BY <1>2, <2>2, <3>2, StartsAbs DEF UpdateGet, Begin
  <2> QED BY <2>1, <2>2
<1>3. ASSUME NEW p \in Procs, NEW d \in Docs, DeleteStat(p, d)
      PROVE  Abs!Next
  <2>1. CASE md[d] = NoFile
    <3>1. Abs!Refuse(p, d)
      BY <1>3, <2>1 DEF DeleteStat, Answer, Abs!Refuse, Abs!Answered, Call, Idle, Abs!None
    <3> QED BY <3>1 DEF Abs!Next
  <2>2. CASE md[d] # NoFile
    <3> DEFINE j == [kind |-> "delete", doc |-> d, base |-> NoFile,
                     text |-> NoFile, stage |-> "remove_md"]
    <3>1. j \in Jobs
      BY DEF Jobs
    <3> QED BY <1>3, <2>2, <3>1, StartsAbs DEF DeleteStat, Begin
  <2> QED BY <2>1, <2>2
<1>4. ASSUME NEW p \in Procs, NEW d \in Docs, Get(p, d)
      PROVE  Abs!Next
  <2>1. md[d] \in Versions \/ md[d] = NoFile \/ md[d] = Garbled
    BY DEF TypeOK
  <2>2. Abs!Refuse(p, d)
    BY <1>4, <2>1, FilesAssumption
       DEF Get, Answer, ReadStatus, Read, Abs!Refuse, Abs!Answered, Call, Idle, Abs!None
  <2> QED BY <2>2 DEF Abs!Next
<1>5. ASSUME NEW p \in Procs, WriteMarkdown(p) \/ RemoveMarkdown(p)
      PROVE  Abs!Next
  <2>1. /\ job[p] # NoJob /\ job[p].stage \in {"write_md", "remove_md"}
        /\ \E s \in {"write_sidecar", "remove_sidecar"} : job' = [job EXCEPT ![p].stage = s]
        /\ md' = [md EXCEPT ![job[p].doc] = job[p].text]
        /\ reply' = reply
    BY <1>5, JobFields DEF WriteMarkdown, RemoveMarkdown, At, Advance
  <2>2. Calls' = [Calls EXCEPT ![p].done = TRUE]
    BY <2>1, CallApplies
  <2>3. /\ job[p].kind = "create" => md[job[p].doc] = NoFile
        /\ job[p].kind = "update" => md[job[p].doc] = job[p].base
    BY <1>5, <2>1, JobFields DEF WriteMarkdown, RemoveMarkdown, SerialInv, BaseStands, Jobs, At
  <2>4. Call(p) # Abs!None /\ ~Call(p).done
        /\ Call(p).request.kind = job[p].kind /\ Call(p).request.base = job[p].base
        /\ Call(p).request.doc = job[p].doc /\ Call(p).request.text = job[p].text
    BY <2>1, CallInProgress
  <2>5. Abs!Apply(p)
    BY <2>1, <2>2, <2>3, <2>4 DEF Abs!Apply, Calls
  <2> QED BY <2>5 DEF Abs!Next
<1>6. ASSUME NEW p \in Procs,
             SaveRefused(p) \/ SidecarRefused(p) \/ RemoveRefused(p) \/ Crash(p)
      PROVE  Abs!Next
  <2>1. job[p] # NoJob /\ job' = [job EXCEPT ![p] = NoJob] /\ md' = md
    BY <1>6 DEF SaveRefused, SidecarRefused, RemoveRefused, Crash, Finish, At, Idle
  <2>2. \E status \in {"error", "crashed"} : Abs!Answered(p, status, NoFile)
    BY <1>6 DEF SaveRefused, SidecarRefused, RemoveRefused, Crash, Finish, Abs!Answered
  <2>3. Abs!Finish(p)
    BY <2>1, <2>2, CallEnds, CallInProgress DEF Abs!Finish, Calls
  <2> QED BY <2>3 DEF Abs!Next
<1>7. ASSUME NEW p \in Procs, ReadBack(p) \/ RemoveSidecar(p)
      PROVE  Abs!Next
  <2>1. /\ job[p] # NoJob /\ job' = [job EXCEPT ![p] = NoJob] /\ md' = md
        /\ job[p].stage \in {"read_back", "remove_sidecar"}
    BY <1>7 DEF ReadBack, RemoveSidecar, Finish, At
  <2>2. md[job[p].doc] = job[p].text
    BY <1>7, <2>1 DEF ReadBack, RemoveSidecar, SerialInv, TextStands, At
  <2>3. Abs!Answered(p, "ok", md[job[p].doc])
    <3>1. CASE ReadBack(p)
      <4>1. job[p].text \in Versions
        BY <3>1, JobFields DEF ReadBack, At
      <4> QED
        BY <2>2, <3>1, <4>1, FilesAssumption
           DEF ReadBack, Finish, ReadStatus, Read, Abs!Answered
    <3>2. CASE RemoveSidecar(p)
      <4>1. job[p].text = NoFile
        BY <3>2, JobFields DEF RemoveSidecar, At
      <4> QED BY <2>2, <3>2, <4>1 DEF RemoveSidecar, Finish, Abs!Answered
    <3> QED BY <1>7, <3>1, <3>2
  <2>4. /\ Call(p) # Abs!None /\ Call(p).done
        /\ Call(p).request.kind = job[p].kind /\ Call(p).request.base = job[p].base
        /\ Call(p).request.doc = job[p].doc /\ Call(p).request.text = job[p].text
    BY <2>1, CallInProgress
  <2>5. Abs!Finish(p)
    BY <2>1, <2>2, <2>3, <2>4, CallEnds DEF Abs!Finish, Calls
  <2> QED BY <2>5 DEF Abs!Next
<1>8. ASSUME NEW p \in Procs, WriteSidecar(p)
      PROVE  UNCHANGED Abs!absVars
  <2>1. job[p] # NoJob /\ job' = [job EXCEPT ![p].stage = "read_back"] /\ md' = md /\ reply' = reply
    BY <1>8 DEF WriteSidecar, Advance, At
  <2>2. Calls' = [Calls EXCEPT ![p].done = TRUE]
    BY <2>1, CallApplies
  <2>3. job[p].stage = "write_sidecar"
    BY <1>8 DEF WriteSidecar, At
  <2>4. Calls' = Calls
    <3>1. [Call(p) EXCEPT !.done = TRUE] = Call(p)
      BY <2>1, <2>3, CallInProgress
    <3> QED BY <2>2, <3>1 DEF Calls
  <2> QED BY <2>1, <2>4 DEF Abs!absVars, Calls
<1>9. ASSUME NEW d \in Docs, HandEdit(d)
      PROVE  [Abs!Next]_(Abs!absVars)
  <2>1. job' = job /\ reply' = reply /\ OutOfBand
    BY <1>9 DEF HandEdit
  <2>2. Calls' = Calls
    BY <2>1 DEF Calls, Call, Idle
  <2>3. CASE md' = md
    BY <2>1, <2>2, <2>3 DEF Abs!absVars, Calls
  <2>4. CASE \E m \in Versions \cup {NoFile, Garbled} : md' = [md EXCEPT ![d] = m]
    <3>1. \A p \in Procs : Call(p) # Abs!None => Call(p).request.doc # d
      <4> SUFFICES ASSUME NEW p \in Procs, Call(p) # Abs!None
                   PROVE  Call(p).request.doc # d
        OBVIOUS
      <4>1. job[p] # NoJob
        BY DEF Call, Idle, Abs!None
      <4>2. job[p].doc # d
        BY <1>9, <4>1 DEF HandEdit, MayTouch, Free
      <4> QED BY <4>1, <4>2, CallInProgress
    <3>2. Abs!Edit(d)
      BY <2>1, <2>2, <2>4, <3>1 DEF Abs!Edit, Calls
    <3> QED BY <3>2 DEF Abs!Next
  <2> QED BY <1>9, <2>3, <2>4 DEF HandEdit
<1>10. CASE UNCHANGED storeVars \/ \E k \in Keys \cup {NoKey, BadKey} : ChangeKey(k)
  <2>1. UNCHANGED <<md, job, reply>>
    BY <1>10 DEF storeVars, ChangeKey
  <2> QED BY <2>1 DEF Abs!absVars, Call, Idle
<1> QED
  BY <1>1, <1>2, <1>3, <1>4, <1>5, <1>6, <1>7, <1>8, <1>9, <1>10 DEF Next, CallerStep

\* Repo, its two files and its unlocked steps, implements the atomic map for
\* callers that do not overlap on a document.
THEOREM SerialCallersAreAtomic ==
  ASSUME SerialCallers PROVE Spec => AtomicForSerialCallers
<1>1. Init => Abs!Init
  BY DEF Init, Abs!Init, Call, Idle, Abs!None
<1>2. TypeOK /\ SerialInv /\ [Next]_storeVars => [Abs!Next]_(Abs!absVars)
  BY SerialRefines
<1> QED BY <1>1, <1>2, SerialInvAlways, PTL DEF Spec, AtomicForSerialCallers, Abs!Spec
=============================================================================
