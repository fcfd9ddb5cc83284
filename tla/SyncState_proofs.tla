---------------------------- MODULE SyncState_proofs ----------------------------
(***************************************************************************)
(* SyncState for every set of integrations, targets, versions and runtimes: *)
(* the types, that the file never claims a push no service confirmed, that  *)
(* it has the last push as long as no record was lost, and what a check     *)
(* may then conclude from it.                                               *)
(***************************************************************************)
EXTENDS SyncState, SequenceTheorems, WellFoundedInduction, TLAPS

\* An errand that claims nothing unconfirmed: neither the push it is about to
\* record, nor a push in the file it has read.
Sound(r) ==
  \/ r = Idle
  \/ /\ r \in Errands
     /\ r.at \in {"got", "set"} => r.mode = "push"
     /\ r.mode = "push" => r.hash \in Versions
     /\ r.at = "got" => r.hash.target[r.integration] \in Targets
     /\ r.at # "got" /\ r.mode = "push" => Confirmed(r.integration, r)
     /\ r.at = "write" => /\ r.base \in Ledgers
                          /\ \A i \in Integrations :
                               r.base[i] # None => Confirmed(i, r.base[i])

SyncInv == PushesAreConfirmed /\ \A p \in Procs : Sound(run[p])

-----------------------------------------------------------------------------

\* What an errand is made of.
LEMMA ErrandFields ==
  ASSUME SyncTypeOK, NEW p \in Procs, ~At(p, "idle")
  PROVE  run[p] \in Errands
BY DEF SyncTypeOK, At, Idle

\* A new errand, and the ways an errand goes on.
LEMMA ErrandType ==
  ASSUME NEW mode \in {"push", "note"}, NEW at \in {"got", "set", "read", "write"},
         NEW i \in Integrations, NEW h \in Versions \cup {None}
  PROVE  Errand(mode, at, i, h) \in Errands
BY DEF Errand, Errands

\* The types survive a step that changes one errand and nothing else.
LEMMA RunType ==
  ASSUME SyncTypeOK, NEW p \in Procs, NEW r \in Errands \cup {Idle},
         run' = [run EXCEPT ![p] = r],
         doc' \in Versions \cup {None}, audit' \in Versions \cup {None},
         loose' \subseteq Integrations, ledger' \in Ledgers,
         remote' \in [Integrations -> Seq(Updates)]
  PROVE  SyncTypeOK'
BY DEF SyncTypeOK

\* Appending an update keeps the revisions given out before.
LEMMA ConfirmedStays ==
  ASSUME SyncTypeOK, NEW i \in Integrations, NEW u \in Updates,
         remote' = [remote EXCEPT ![i] = Append(@, u)],
         NEW j \in Integrations, NEW push, push.revision \in Nat, Confirmed(j, push)
  PROVE  /\ push.revision \in DOMAIN remote'[j]
         /\ remote'[j][push.revision] = [target |-> push.hash.target[j], hash |-> push.hash]
<1>1. remote[j] \in Seq(Updates)
  BY DEF SyncTypeOK
<1>2. CASE i = j
  BY <1>1, <1>2, AppendProperties DEF SyncTypeOK, Confirmed
<1>3. CASE i # j
  BY <1>3 DEF SyncTypeOK, Confirmed
<1> QED BY <1>2, <1>3

\* What a record makes of the section of its integration.
LEMMA RecordedType ==
  ASSUME NEW r \in Errands, r.mode = "push" => r.hash \in Versions,
         NEW last \in [hash : Versions, revision : Nat] \cup {None}
  PROVE  Recorded(last, r) \in [hash : Versions, revision : Nat] \cup {None}
BY DEF Recorded, Errands

\* The initial states.
LEMMA SyncInit == Init => SyncTypeOK /\ SyncInv
<1> SUFFICES ASSUME Init PROVE SyncTypeOK /\ SyncInv
  OBVIOUS
<1>1. SyncTypeOK
  BY DEF Init, SyncTypeOK, Ledgers, Idle
<1>2. SyncInv
  BY DEF Init, SyncInv, Sound, PushesAreConfirmed
<1> QED BY <1>1, <1>2

\* Every step keeps the types.
LEMMA TypeStep ==
  ASSUME SyncTypeOK, SyncInv, [Next]_syncVars
  PROVE  SyncTypeOK'
<1>1. ASSUME NEW p \in Procs, NEW i \in Integrations, StateGet(p, i)
      PROVE  SyncTypeOK'
  <2>1. doc \in Versions \cup {None}
    BY DEF SyncTypeOK
  <2>2. Errand("push", "got", i, doc) \in Errands
    BY <2>1, ErrandType
  <2> QED BY <1>1, <2>2, RunType DEF StateGet, SyncTypeOK
<1>2. ASSUME NEW p \in Procs, NEW i \in Integrations, Observe(p, i)
      PROVE  SyncTypeOK'
  <2>1. Errand("note", "read", i, None) \in Errands
    BY ErrandType
  <2> QED BY <1>2, <2>1, RunType DEF Observe, SyncTypeOK
<1>3. ASSUME NEW p \in Procs, Push(p)
      PROVE  SyncTypeOK'
  <2> DEFINE i == run[p].integration
             u == [target |-> run[p].hash.target[i], hash |-> run[p].hash]
             r == [run[p] EXCEPT !.at = "set", !.revision = Len(remote[i]) + 1]
  <2>1. run[p] \in Errands /\ run[p].hash \in Versions /\ run[p].hash.target[i] \in Targets
    BY <1>3, ErrandFields DEF Push, At, SyncInv, Sound, Idle
  <2>2. i \in Integrations /\ remote[i] \in Seq(Updates) /\ u \in Updates
    BY <2>1 DEF SyncTypeOK, Errands, Updates
  <2>3. Len(remote[i]) + 1 \in Nat
    BY <2>2
  <2>4. r \in Errands
    BY <2>1, <2>3 DEF Errands
  <2>5. run' = [run EXCEPT ![p] = r]
    BY <1>3 DEF Push
  <2>6. remote' = [remote EXCEPT ![i] = Append(@, u)]
    BY <1>3 DEF Push
  <2>7. remote' \in [Integrations -> Seq(Updates)]
    BY <2>2, <2>6 DEF SyncTypeOK
  <2>8. loose' \subseteq Integrations
    BY <1>3, <2>2 DEF Push, SyncTypeOK
  <2> QED BY <1>3, <2>4, <2>5, <2>7, <2>8, RunType DEF Push, SyncTypeOK
<1>4. ASSUME NEW p \in Procs, PushFails(p)
      PROVE  SyncTypeOK'
  <2>1. run[p].integration \in Integrations
    BY <1>4, ErrandFields DEF PushFails, At, Errands
  <2>2. Errand("note", "read", run[p].integration, None) \in Errands
    BY <2>1, ErrandType
  <2> QED BY <1>4, <2>2, RunType DEF PushFails, SyncTypeOK
<1>5. ASSUME NEW p \in Procs, ResolveTarget(p)
      PROVE  SyncTypeOK'
  <2>1. run[p] \in Errands
    BY <1>5, ErrandFields DEF ResolveTarget, At
  <2>2. [run[p] EXCEPT !.at = "read"] \in Errands
    BY <2>1 DEF Errands
  <2>3. loose' \subseteq Integrations
    BY <1>5 DEF ResolveTarget, Forgotten, SyncTypeOK
  <2>4. CASE doc = None
    BY <1>5, <2>3, <2>4, RunType DEF ResolveTarget, SyncTypeOK
  <2>5. CASE doc # None
    BY <1>5, <2>2, <2>3, <2>5, RunType DEF ResolveTarget, SyncTypeOK
  <2> QED BY <2>4, <2>5
<1>6. ASSUME NEW p \in Procs, ReadLedger(p)
      PROVE  SyncTypeOK'
  <2>1. run[p] \in Errands /\ ledger \in Ledgers
    BY <1>6, ErrandFields DEF ReadLedger, At, SyncTypeOK
  <2>2. [run[p] EXCEPT !.at = "write", !.base = ledger] \in Errands
    BY <2>1 DEF Errands
  <2> QED BY <1>6, <2>2, RunType DEF ReadLedger, SyncTypeOK
<1>7. ASSUME NEW p \in Procs, WriteLedger(p)
      PROVE  SyncTypeOK'
  <2> DEFINE i == run[p].integration
  <2>1. run[p] \in Errands /\ run[p].base \in Ledgers
        /\ (run[p].mode = "push" => run[p].hash \in Versions)
    BY <1>7, ErrandFields DEF WriteLedger, At, SyncInv, Sound, Idle
  <2>2. i \in Integrations /\ run[p].base[i] \in [hash : Versions, revision : Nat] \cup {None}
    BY <2>1 DEF Errands, Ledgers
  <2>3. Recorded(run[p].base[i], run[p]) \in [hash : Versions, revision : Nat] \cup {None}
    BY <2>1, <2>2, RecordedType
  <2>4. ledger' = [run[p].base EXCEPT ![i] = Recorded(run[p].base[i], run[p])]
    BY <1>7 DEF WriteLedger
  <2>5. ledger' \in Ledgers
    BY <2>1, <2>3, <2>4 DEF Ledgers
  <2>6. loose' \subseteq Integrations
    BY <1>7 DEF WriteLedger, SyncTypeOK
  <2> QED BY <1>7, <2>5, <2>6, RunType DEF WriteLedger, SyncTypeOK
<1>8. ASSUME NEW p \in Procs, GiveUp(p)
      PROVE  SyncTypeOK'
  <2>1. loose' \subseteq Integrations
    BY <1>8 DEF GiveUp, Forgotten, SyncTypeOK
  <2> QED BY <1>8, <2>1, RunType DEF GiveUp, SyncTypeOK
<1>9. ASSUME NEW i \in Integrations, NEW t \in Targets, RemoteEdit(i, t)
      PROVE  SyncTypeOK'
  <2>1. [target |-> t, hash |-> None] \in Updates
    BY DEF Updates
  <2> QED BY <1>9, <2>1 DEF RemoteEdit, SyncTypeOK
<1>10. ASSUME NEW v \in Versions \cup {None}, EditDoc(v)
       PROVE  SyncTypeOK'
  BY <1>10 DEF EditDoc, SyncTypeOK
<1>11. CASE CheckReadsDoc
  BY <1>11 DEF CheckReadsDoc, SyncTypeOK
<1>12. ASSUME NEW i \in Integrations, CheckReadsLedger(i)
       PROVE  SyncTypeOK'
  BY <1>12 DEF CheckReadsLedger, SyncTypeOK
<1>13. CASE UNCHANGED syncVars
  BY <1>13 DEF syncVars, SyncTypeOK
<1> QED
  BY <1>1, <1>2, <1>3, <1>4, <1>5, <1>6, <1>7, <1>8, <1>9, <1>10, <1>11, <1>12, <1>13
  DEF Next

\* A step that changes one errand into a sound one keeps the invariant.
LEMMA SoundRun ==
  ASSUME SyncTypeOK, SyncInv, NEW p \in Procs, NEW r, Sound(r),
         run' = [run EXCEPT ![p] = r], remote' = remote, ledger' = ledger
  PROVE  SyncInv'
<1>1. PushesAreConfirmed'
  BY SMTT(30) DEF SyncInv, PushesAreConfirmed, Confirmed
<1>2. \A q \in Procs : run'[q] = IF q = p THEN r ELSE run[q]
  BY DEF SyncTypeOK
<1>3. ASSUME NEW q \in Procs PROVE Sound(run[q])'
  <2>1. Sound(run'[q])
    BY <1>2 DEF SyncInv
  <2> QED BY <2>1 DEF Sound, Confirmed
<1> QED BY <1>1, <1>3 DEF SyncInv

\* So does an update that a service has taken, while no errand changes.
LEMMA SoundStays ==
  ASSUME SyncTypeOK, SyncInv, NEW i \in Integrations, NEW u \in Updates,
         remote' = [remote EXCEPT ![i] = Append(@, u)], ledger' = ledger,
         NEW q \in Procs, run'[q] = run[q]
  PROVE  Sound(run[q])'
<1>1. CASE run[q] = Idle
  BY <1>1 DEF Sound
<1>2. CASE run[q] # Idle
  <2>1. /\ run[q] \in Errands /\ Sound(run[q])
        /\ run[q].integration \in Integrations /\ run[q].revision \in Nat
    BY <1>2 DEF SyncTypeOK, SyncInv, Errands
  <2>2. ASSUME run[q].at # "got", run[q].mode = "push"
        PROVE  Confirmed(run[q].integration, run[q])'
    <3>1. Confirmed(run[q].integration, run[q])
      BY <1>2, <2>1, <2>2 DEF Sound
    <3> QED BY <2>1, <3>1, ConfirmedStays DEF Confirmed
  <2>3. ASSUME run[q].at = "write", NEW j \in Integrations, run[q].base[j] # None
        PROVE  Confirmed(j, run[q].base[j])'
    <3>1. run[q].base \in Ledgers /\ Confirmed(j, run[q].base[j])
      BY <1>2, <2>1, <2>3 DEF Sound
    <3>2. run[q].base[j].revision \in Nat
      BY <2>3, <3>1 DEF Ledgers
    <3> QED BY <3>1, <3>2, ConfirmedStays DEF Confirmed
  <2> QED BY <1>2, <2>1, <2>2, <2>3 DEF Sound
<1> QED BY <1>1, <1>2

LEMMA PushesStay ==
  ASSUME SyncTypeOK, PushesAreConfirmed, NEW i \in Integrations, NEW u \in Updates,
         remote' = [remote EXCEPT ![i] = Append(@, u)], ledger' = ledger
  PROVE  PushesAreConfirmed'
<1>1. ASSUME NEW j \in Integrations, ledger[j] # None PROVE Confirmed(j, ledger[j])'
  <2>1. ledger[j].revision \in Nat
    BY <1>1 DEF SyncTypeOK, Ledgers
  <2>2. Confirmed(j, ledger[j])
    BY <1>1 DEF PushesAreConfirmed
  <2> QED BY <2>1, <2>2, ConfirmedStays DEF Confirmed
<1> QED BY <1>1 DEF PushesAreConfirmed

\* Every step keeps the invariant.
LEMMA SyncStep ==
  ASSUME SyncTypeOK, SyncInv, [Next]_syncVars
  PROVE  SyncInv'
<1> USE DEF At
<1>0. ASSUME NEW p \in Procs, run' = [run EXCEPT ![p] = Idle],
             remote' = remote, ledger' = ledger
      PROVE  SyncInv'
  BY <1>0, SoundRun DEF Sound
<1>1. ASSUME NEW p \in Procs, NEW i \in Integrations, StateGet(p, i)
      PROVE  SyncInv'
  <2>1. doc \in Versions /\ doc.target[i] \in Targets
    BY <1>1, SyncAssumption DEF StateGet, SyncTypeOK
  <2>2. Errand("push", "got", i, doc) \in Errands
    BY <2>1, ErrandType
  <2>3. Sound(Errand("push", "got", i, doc))
    BY <2>1, <2>2 DEF Sound, Errand
  <2> QED BY <1>1, <2>3, SoundRun DEF StateGet
<1>2. ASSUME NEW p \in Procs, NEW i \in Integrations,
             \/ Observe(p, i)
             \/ PushFails(p) /\ i = run[p].integration
      PROVE  SyncInv'
  <2>1. Sound(Errand("note", "read", i, None))
    BY ErrandType DEF Sound, Errand
  <2> QED BY <1>2, <2>1, SoundRun DEF Observe, PushFails
<1>3. ASSUME NEW p \in Procs, Push(p)
      PROVE  SyncInv'
  <2> DEFINE i == run[p].integration
             u == [target |-> run[p].hash.target[i], hash |-> run[p].hash]
             n == Len(remote[i]) + 1
  <2>1. run[p] \in Errands /\ run[p].mode = "push" /\ run[p].hash \in Versions
        /\ run[p].hash.target[i] \in Targets
    BY <1>3, ErrandFields DEF Push, SyncInv, Sound, Idle
  <2>2. i \in Integrations /\ remote[i] \in Seq(Updates) /\ u \in Updates
    BY <2>1 DEF SyncTypeOK, Errands, Updates
  <2>3. /\ remote' = [remote EXCEPT ![i] = Append(@, u)] /\ ledger' = ledger
        /\ run' = [run EXCEPT ![p] = [run[p] EXCEPT !.at = "set", !.revision = n]]
    BY <1>3 DEF Push
  <2>4. n \in DOMAIN remote'[i] /\ remote'[i][n] = u /\ n \in Nat
    BY <2>2, <2>3, AppendProperties DEF SyncTypeOK
  <2>5. Sound(run[p])'
    BY <2>1, <2>2, <2>3, <2>4 DEF Sound, Confirmed, Errands, SyncTypeOK
  <2>6. ASSUME NEW q \in Procs \ {p} PROVE Sound(run[q])'
    <3>1. run'[q] = run[q]
      BY <2>3 DEF SyncTypeOK
    <3> QED BY <2>2, <2>3, <3>1, SoundStays
  <2>7. PushesAreConfirmed'
    BY <2>2, <2>3, PushesStay DEF SyncInv
  <2> QED BY <2>5, <2>6, <2>7 DEF SyncInv
<1>4. ASSUME NEW p \in Procs, PushFails(p)
      PROVE  SyncInv'
  <2>1. run[p].integration \in Integrations
    BY <1>4, ErrandFields DEF PushFails, Errands
  <2> QED BY <1>2, <1>4, <2>1
<1>5. ASSUME NEW p \in Procs, ResolveTarget(p)
      PROVE  SyncInv'
  <2>1. CASE doc = None
    BY <1>0, <1>5, <2>1 DEF ResolveTarget
  <2>2. CASE doc # None
    <3>1. run[p] \in Errands /\ Sound(run[p])
      BY <1>5, ErrandFields DEF ResolveTarget, SyncInv
    <3>2. Sound([run[p] EXCEPT !.at = "read"])
      BY <1>5, <3>1 DEF ResolveTarget, Sound, Errands, Idle, Confirmed
    <3> QED BY <1>5, <2>2, <3>2, SoundRun DEF ResolveTarget
  <2> QED BY <2>1, <2>2
<1>6. ASSUME NEW p \in Procs, ReadLedger(p)
      PROVE  SyncInv'
  <2>1. run[p] \in Errands /\ Sound(run[p]) /\ ledger \in Ledgers
    BY <1>6, ErrandFields DEF ReadLedger, SyncInv, SyncTypeOK
  <2>2. \A i \in Integrations : ledger[i] # None => Confirmed(i, ledger[i])
    BY DEF SyncInv, PushesAreConfirmed
  <2> DEFINE r == [run[p] EXCEPT !.at = "write", !.base = ledger]
  <2>3. /\ r \in Errands /\ r.at = "write" /\ r.base = ledger
        /\ r.mode = run[p].mode /\ r.hash = run[p].hash
        /\ r.revision = run[p].revision /\ r.integration = run[p].integration
    BY <2>1 DEF Errands
  <2>4. run[p].mode = "push" =>
          run[p].hash \in Versions /\ Confirmed(run[p].integration, run[p])
    BY <1>6, <2>1 DEF ReadLedger, Sound, Idle
  <2>5. r.mode = "push" => Confirmed(r.integration, r)
    <3> HIDE DEF r
    <3> QED BY <2>3, <2>4 DEF Confirmed
  <2>6. Sound(r)
    <3> HIDE DEF r
    <3> QED BY <2>1, <2>2, <2>3, <2>4, <2>5 DEF Sound
  <2> QED BY <1>6, <2>6, SoundRun DEF ReadLedger
<1>7. ASSUME NEW p \in Procs, WriteLedger(p)
      PROVE  SyncInv'
  <2> DEFINE i == run[p].integration
             b == run[p].base
  <2>1. /\ run[p] \in Errands /\ Sound(run[p]) /\ i \in Integrations
        /\ run[p].revision \in Nat
    BY <1>7, ErrandFields DEF WriteLedger, SyncInv, Errands
  <2>2. /\ b \in Ledgers
        /\ \A j \in Integrations : b[j] # None => Confirmed(j, b[j])
        /\ run[p].mode = "push" => Confirmed(i, run[p])
    BY <1>7, <2>1 DEF WriteLedger, Sound, Idle
  <2>3. /\ ledger' = [b EXCEPT ![i] = Recorded(b[i], run[p])]
        /\ run' = [run EXCEPT ![p] = Idle] /\ remote' = remote
    BY <1>7 DEF WriteLedger
  <2>4. ASSUME NEW j \in Integrations, ledger'[j] # None
        PROVE  Confirmed(j, ledger'[j])
    <3>1. CASE j = i /\ run[p].mode = "push"
      <4>1. ledger'[j] = [hash |-> run[p].hash, revision |-> run[p].revision]
        BY <2>2, <2>3, <3>1 DEF Recorded, Ledgers
      <4> QED BY <2>2, <3>1, <4>1 DEF Confirmed
    <3>2. CASE ~(j = i /\ run[p].mode = "push")
      <4>1. ledger'[j] = b[j]
        BY SMTT(30), <2>2, <2>3, <3>2 DEF Recorded, Ledgers
      <4> QED BY <2>2, <2>4, <4>1
    <3> QED BY <3>1, <3>2
  <2>5. PushesAreConfirmed'
    BY ZenonT(40), <2>3, <2>4 DEF PushesAreConfirmed, Confirmed
  <2>6. ASSUME NEW q \in Procs PROVE Sound(run[q])'
    <3>1. run'[q] = Idle \/ run'[q] = run[q]
      BY <2>3 DEF SyncTypeOK
    <3>2. Sound(run'[q])
      BY <3>1 DEF Sound, SyncInv
    <3> QED BY <2>3, <3>2 DEF Sound, Confirmed
  <2> QED BY <2>5, <2>6 DEF SyncInv
<1>8. ASSUME NEW p \in Procs, GiveUp(p)
      PROVE  SyncInv'
  BY <1>0, <1>8 DEF GiveUp
<1>9. ASSUME NEW i \in Integrations, NEW t \in Targets, RemoteEdit(i, t)
      PROVE  SyncInv'
  <2>1. [target |-> t, hash |-> None] \in Updates
    BY DEF Updates
  <2>2. \A q \in Procs : Sound(run[q])'
    BY <1>9, <2>1, SoundStays DEF RemoteEdit
  <2>3. PushesAreConfirmed'
    BY <1>9, <2>1, PushesStay DEF RemoteEdit, SyncInv
  <2> QED BY <2>2, <2>3 DEF SyncInv
<1>10. CASE UNCHANGED <<remote, ledger, run>>
  BY <1>10 DEF SyncInv, PushesAreConfirmed, Sound, Confirmed
<1> QED
  BY <1>1, <1>2, <1>3, <1>4, <1>5, <1>6, <1>7, <1>8, <1>9, <1>10
  DEF Next, EditDoc, CheckReadsDoc, CheckReadsLedger, syncVars

-----------------------------------------------------------------------------

\* The types hold of every behaviour.
THEOREM SyncTypeCorrect == Spec => []SyncTypeOK
<1>1. SyncTypeOK /\ SyncInv /\ [Next]_syncVars => (SyncTypeOK /\ SyncInv)'
  BY TypeStep, SyncStep
<1> QED BY <1>1, SyncInit, PTL DEF Spec

\* Whatever runtimes, crashes and editors do, a push that the integrations file
\* records was confirmed by the service it names.
THEOREM PushesAlwaysConfirmed == Spec => []PushesAreConfirmed
<1>1. SyncTypeOK /\ SyncInv /\ [Next]_syncVars => (SyncTypeOK /\ SyncInv)'
  BY TypeStep, SyncStep
<1>2. SyncInv => PushesAreConfirmed
  BY DEF SyncInv
<1> QED BY <1>1, <1>2, SyncInit, PTL DEF Spec

-----------------------------------------------------------------------------

\* The file says of i what the service would.
Current(i) == IF ledger[i] = None THEN Pushes(i) = {} ELSE IsLastPush(i, ledger[i])

\* Of an integration that is not loose at most one push is on its way to the
\* file, and it is the last; with none on its way the file has the last.
Tracked(i) ==
  /\ \A p, q \in Procs : Unrecorded(p, i) /\ Unrecorded(q, i) => p = q
  /\ \A p \in Procs : Unrecorded(p, i) => IsLastPush(i, run[p])
  /\ (\A p \in Procs : ~Unrecorded(p, i)) => Current(i)

LastPushInv == \A i \in Integrations : i \notin loose => Tracked(i)

\* A step that leaves the pushes of i, its section and the unrecorded pushes of i
\* what they were.
LEMMA TrackedStays ==
  ASSUME NEW i \in Integrations, Tracked(i), Pushes(i)' = Pushes(i), ledger'[i] = ledger[i],
         \A p \in Procs : Unrecorded(p, i)' <=> Unrecorded(p, i),
         \A p \in Procs : Unrecorded(p, i) => run'[p].revision = run[p].revision
  PROVE  Tracked(i)'
<1>1. \A p, q \in Procs : Unrecorded(p, i)' /\ Unrecorded(q, i)' => p = q
  BY DEF Tracked
<1>2. ASSUME NEW p \in Procs, Unrecorded(p, i)' PROVE IsLastPush(i, run[p])'
  BY <1>2 DEF Tracked, IsLastPush
<1>3. ASSUME \A p \in Procs : ~Unrecorded(p, i)' PROVE Current(i)'
  BY <1>3 DEF Tracked, Current, IsLastPush
<1> QED BY <1>1, <1>2, <1>3 DEF Tracked

\* An errand that begins, goes on or ends without an effect on what is unrecorded
\* of i.
LEMMA ErrandTracked ==
  ASSUME SyncTypeOK, NEW i \in Integrations, Tracked(i), NEW p \in Procs, NEW r,
         run' = [run EXCEPT ![p] = r], remote'[i] = remote[i], ledger'[i] = ledger[i],
         Unrecorded(p, i) <=> (r.at \in {"set", "read", "write"}
                               /\ r.mode = "push" /\ r.integration = i),
         Unrecorded(p, i) => r.revision = run[p].revision
  PROVE  Tracked(i)'
<1>1. \A q \in Procs : run'[q] = IF q = p THEN r ELSE run[q]
  BY DEF SyncTypeOK
<1>2. \A q \in Procs : Unrecorded(q, i)' <=> Unrecorded(q, i)
  BY <1>1 DEF Unrecorded
<1>3. \A q \in Procs : Unrecorded(q, i) => run'[q].revision = run[q].revision
  BY <1>1
<1>4. Pushes(i)' = Pushes(i)
  BY DEF Pushes
<1> QED BY <1>2, <1>3, <1>4, TrackedStays

\* What a service's next update of i makes of the pushes of any integration.
LEMMA PushesAppend ==
  ASSUME SyncTypeOK, NEW i \in Integrations, NEW u \in Updates,
         remote' = [remote EXCEPT ![i] = Append(@, u)], NEW j \in Integrations
  PROVE  Pushes(j)' = IF j = i /\ u.hash # None THEN Pushes(j) \cup {Len(remote[i]) + 1}
                      ELSE Pushes(j)
<1>1. remote[i] \in Seq(Updates) /\ remote[j] \in Seq(Updates)
  BY DEF SyncTypeOK
<1>2. CASE j = i
  <2>1. remote'[i] = Append(remote[i], u)
    BY DEF SyncTypeOK
  <2>2. /\ DOMAIN remote'[i] = DOMAIN remote[i] \cup {Len(remote[i]) + 1}
        /\ Len(remote[i]) + 1 \notin DOMAIN remote[i]
        /\ \A n \in DOMAIN remote[i] : remote'[i][n] = remote[i][n]
        /\ remote'[i][Len(remote[i]) + 1] = u
    BY <1>1, <2>1, AppendProperties
  <2> QED BY <1>2, <2>2 DEF Pushes
<1>3. CASE j # i
  BY <1>3 DEF Pushes, SyncTypeOK
<1> QED BY <1>2, <1>3

\* Runtimes that are through, or that note something, have nothing unrecorded.
LEMMA IdleTracked ==
  ASSUME SyncTypeOK, NEW i \in Integrations, Tracked(i), NEW p \in Procs, ~Unrecorded(p, i),
         run' = [run EXCEPT ![p] = Idle], remote' = remote, ledger'[i] = ledger[i]
  PROVE  Tracked(i)'
BY ErrandTracked, Idle.at = "idle" DEF Idle

\* Every step keeps track of every integration that is not loose after it.
LEMMA LastPushStep ==
  ASSUME SyncTypeOK, SyncInv, LastPushInv, [Next]_syncVars
  PROVE  LastPushInv'
<1> SUFFICES ASSUME NEW i \in Integrations, i \notin loose' PROVE Tracked(i)'
  BY DEF LastPushInv
<1>1. ASSUME NEW p \in Procs, NEW j \in Integrations, StateGet(p, j) \/ Observe(p, j)
      PROVE  Tracked(i)'
  <2>1. Tracked(i) /\ ~Unrecorded(p, i)
    BY <1>1 DEF StateGet, Observe, LastPushInv, At, Unrecorded
  <2>2. PICK r : /\ run' = [run EXCEPT ![p] = r]
                 /\ r = Errand("push", "got", j, doc) \/ r = Errand("note", "read", j, None)
    BY <1>1 DEF StateGet, Observe
  <2>3. r.at \notin {"set", "read", "write"} \/ r.mode # "push"
    BY <2>2 DEF Errand
  <2> QED BY <1>1, <2>1, <2>2, <2>3, ErrandTracked DEF StateGet, Observe
<1>2. ASSUME NEW p \in Procs, Push(p)
      PROVE  Tracked(i)'
  <2> DEFINE j == run[p].integration
             u == [target |-> run[p].hash.target[j], hash |-> run[p].hash]
             n == Len(remote[j]) + 1
             r == [run[p] EXCEPT !.at = "set", !.revision = n]
  <2>1. run[p] \in Errands /\ run[p].mode = "push" /\ run[p].hash \in Versions
        /\ run[p].hash.target[j] \in Targets /\ run[p].at = "got"
    BY <1>2, ErrandFields DEF Push, SyncInv, Sound, Idle, At
  <2>2. j \in Integrations /\ remote[j] \in Seq(Updates) /\ u \in Updates /\ u.hash # None
    BY <2>1, SyncAssumption DEF SyncTypeOK, Errands, Updates
  <2>3. /\ remote' = [remote EXCEPT ![j] = Append(@, u)] /\ ledger' = ledger
        /\ run' = [run EXCEPT ![p] = r]
    BY <1>2 DEF Push
  <2>4. Tracked(i) /\ ~Unrecorded(p, i)
    BY <1>2, <2>1 DEF Push, LastPushInv, Unrecorded
  <2>5. Pushes(i)' = IF i = j THEN Pushes(i) \cup {n} ELSE Pushes(i)
    BY <2>2, <2>3, PushesAppend
  <2>6. /\ r.at = "set" /\ r.mode = "push" /\ r.integration = j /\ r.revision = n
    BY <2>1 DEF Errands
  <2>7. \A q \in Procs : run'[q] = IF q = p THEN r ELSE run[q]
    BY <2>3 DEF SyncTypeOK
  <2> HIDE DEF r
  <2>8. \A q \in Procs : Unrecorded(q, i)' <=> Unrecorded(q, i) \/ (q = p /\ i = j)
    BY <2>6, <2>7 DEF Unrecorded
  <2>9. CASE i = j
    <3>1. \A q \in Procs : ~Unrecorded(q, i)
      BY <1>2, <2>9 DEF Push
    <3>2. \A m \in Pushes(i) : m <= n
      BY <2>2, <2>9 DEF Pushes
    <3>3. IsLastPush(i, run[p])'
      BY <2>2, <2>5, <2>6, <2>7, <2>9, <3>2 DEF IsLastPush
    <3> QED BY <2>8, <2>9, <3>1, <3>3 DEF Tracked
  <2>10. CASE i # j
    <3>1. \A q \in Procs : Unrecorded(q, i) => run'[q].revision = run[q].revision
      BY <2>4, <2>7
    <3>2. \A q \in Procs : Unrecorded(q, i)' <=> Unrecorded(q, i)
      BY <2>8, <2>10
    <3> QED BY <2>3, <2>4, <2>5, <2>10, <3>1, <3>2, TrackedStays
  <2> QED BY <2>9, <2>10
<1>3. ASSUME NEW p \in Procs, PushFails(p)
      PROVE  Tracked(i)'
  <2>1. Tracked(i) /\ ~Unrecorded(p, i)
    BY <1>3 DEF PushFails, LastPushInv, At, Unrecorded
  <2>2. PICK r : run' = [run EXCEPT ![p] = r] /\ r = Errand("note", "read", run[p].integration, None)
    BY <1>3 DEF PushFails
  <2>3. r.mode # "push"
    BY <2>2 DEF Errand
  <2> QED BY <1>3, <2>1, <2>2, <2>3, ErrandTracked DEF PushFails
<1>4. ASSUME NEW p \in Procs, run' = [run EXCEPT ![p] = Idle],
             loose' = loose \cup Forgotten(p), UNCHANGED <<remote, ledger>>
      PROVE  Tracked(i)'
  <2>1. Tracked(i) /\ ~Unrecorded(p, i)
    BY <1>4 DEF LastPushInv, Forgotten
  <2> QED BY <1>4, <2>1, IdleTracked
<1>5. ASSUME NEW p \in Procs, ResolveTarget(p)
      PROVE  Tracked(i)'
  <2>1. CASE doc = None
    BY <1>4, <1>5, <2>1 DEF ResolveTarget
  <2>2. CASE doc # None
    <3>1. run[p] \in Errands /\ run[p].at = "set"
      BY <1>5, ErrandFields DEF ResolveTarget, At
    <3>2. PICK r : r = [run[p] EXCEPT !.at = "read"]
      OBVIOUS
    <3>3. /\ r.at = "read" /\ r.mode = run[p].mode /\ r.integration = run[p].integration
          /\ r.revision = run[p].revision
      BY <3>1, <3>2 DEF Errands
    <3>4. run' = [run EXCEPT ![p] = r] /\ Tracked(i)
      BY <1>5, <2>2, <3>2 DEF ResolveTarget, LastPushInv
    <3> QED BY <1>5, <3>1, <3>3, <3>4, ErrandTracked DEF ResolveTarget, Unrecorded
  <2> QED BY <2>1, <2>2
<1>6. ASSUME NEW p \in Procs, ReadLedger(p)
      PROVE  Tracked(i)'
  <2>1. run[p] \in Errands /\ run[p].at = "read"
    BY <1>6, ErrandFields DEF ReadLedger, At
  <2>2. PICK r : r = [run[p] EXCEPT !.at = "write", !.base = ledger]
    OBVIOUS
  <2>3. /\ r.at = "write" /\ r.mode = run[p].mode /\ r.integration = run[p].integration
        /\ r.revision = run[p].revision
    BY <2>1, <2>2 DEF Errands
  <2>4. run' = [run EXCEPT ![p] = r] /\ Tracked(i)
    BY <1>6, <2>2 DEF ReadLedger, LastPushInv
  <2>5. Unrecorded(p, i) <=> (r.at \in {"set", "read", "write"}
                              /\ r.mode = "push" /\ r.integration = i)
    BY <2>1, <2>3 DEF Unrecorded
  <2>6. remote'[i] = remote[i] /\ ledger'[i] = ledger[i]
    BY <1>6 DEF ReadLedger
  <2> QED BY <2>3, <2>4, <2>5, <2>6, ErrandTracked
<1>7. ASSUME NEW p \in Procs, WriteLedger(p)
      PROVE  Tracked(i)'
  <2> DEFINE j == run[p].integration
             b == run[p].base
             lost == {k \in Integrations : b[k] # ledger[k]}
             isLast == /\ run[p].mode = "push"
                       /\ \A q \in Procs \ {p} : ~Unrecorded(q, j)
                       /\ \A n \in (run[p].revision + 1)..Len(remote[j]) :
                            remote[j][n].hash = None
  <2>1. /\ run[p] \in Errands /\ Sound(run[p]) /\ j \in Integrations
        /\ run[p].revision \in Nat /\ run[p].at = "write" /\ b \in Ledgers
        /\ run[p].mode = "push" => run[p].hash \in Versions /\ Confirmed(j, run[p])
    BY <1>7, ErrandFields DEF WriteLedger, SyncInv, Errands, At, Sound, Idle
  <2>2. /\ ledger' = [b EXCEPT ![j] = Recorded(b[j], run[p])]
        /\ run' = [run EXCEPT ![p] = Idle] /\ remote' = remote
        /\ loose' = (loose \cup lost) \ (IF isLast THEN {j} ELSE {})
    BY <1>7 DEF WriteLedger
  <2>3. \A q \in Procs : Unrecorded(q, i)' <=> q # p /\ Unrecorded(q, i)
    BY <2>2 DEF Unrecorded, SyncTypeOK, Idle
  <2>4. ASSUME j # i \/ run[p].mode # "push"
        PROVE  Tracked(i)'
    <3>1. i \notin loose \cup lost
      BY <2>2, <2>4
    <3>2. ledger'[i] = ledger[i]
      BY <2>1, <2>2, <2>4, <3>1 DEF Recorded, Ledgers
    <3>3. ~Unrecorded(p, i)
      BY <2>4 DEF Unrecorded
    <3> QED BY <2>2, <3>1, <3>2, <3>3, IdleTracked DEF LastPushInv
  <2>5. ASSUME j = i, run[p].mode = "push"
        PROVE  Tracked(i)'
    <3>1. Unrecorded(p, i)
      BY <2>1, <2>5 DEF Unrecorded
    <3>2. remote[i] \in Seq(Updates)
      BY DEF SyncTypeOK
    <3>3. /\ \A q \in Procs \ {p} : ~Unrecorded(q, i)
          /\ \A n \in Pushes(i) : n <= run[p].revision
      <4>1. CASE isLast
        BY <2>1, <2>5, <3>2, <4>1 DEF Pushes
      <4>2. CASE ~isLast
        <5>1. Tracked(i)
          BY <2>2, <4>2 DEF LastPushInv
        <5> QED BY <3>1, <5>1 DEF Tracked, IsLastPush
      <4> QED BY <4>1, <4>2
    <3>4. run[p].revision \in Pushes(i)
      BY <2>1, <2>5, SyncAssumption DEF Confirmed, Pushes
    <3>5. ledger'[i] = [hash |-> run[p].hash, revision |-> run[p].revision]
      BY <2>1, <2>2, <2>5 DEF Recorded, Ledgers
    <3>6. ledger'[i] # None /\ ledger'[i].revision = run[p].revision
      BY <2>1, <2>5, <3>5, SyncAssumption
    <3>7. Pushes(i)' = Pushes(i)
      BY <2>2 DEF Pushes
    <3>8. Current(i)'
      BY <3>3, <3>4, <3>6, <3>7 DEF Current, IsLastPush
    <3> QED BY <2>3, <3>3, <3>8 DEF Tracked
  <2> QED BY <2>4, <2>5
<1>8. ASSUME NEW p \in Procs, GiveUp(p)
      PROVE  Tracked(i)'
  BY <1>4, <1>8 DEF GiveUp
<1>9. ASSUME NEW j \in Integrations, NEW t \in Targets, RemoteEdit(j, t)
      PROVE  Tracked(i)'
  <2>1. PICK u \in Updates : u = [target |-> t, hash |-> None]
    BY DEF Updates
  <2>2. u.hash = None /\ remote' = [remote EXCEPT ![j] = Append(@, u)]
    BY <1>9, <2>1 DEF RemoteEdit
  <2>3. Pushes(i)' = Pushes(i)
    BY <2>2, PushesAppend
  <2>4. Tracked(i) /\ run' = run /\ ledger' = ledger
    BY <1>9 DEF RemoteEdit, LastPushInv
  <2> QED BY <2>3, <2>4, TrackedStays DEF Unrecorded
<1>10. CASE UNCHANGED <<remote, ledger, run, loose>>
  <2>1. Tracked(i) /\ Pushes(i)' = Pushes(i)
    BY <1>10 DEF LastPushInv, Pushes
  <2> QED BY <1>10, <2>1, TrackedStays DEF Unrecorded
<1> QED
  BY <1>1, <1>2, <1>3, <1>5, <1>6, <1>7, <1>8, <1>9, <1>10
  DEF Next, EditDoc, CheckReadsDoc, CheckReadsLedger, syncVars

\* A set of revisions that were given out has a last one.
LEMMA LastRevision ==
  ASSUME NEW n \in Nat, NEW I, I \subseteq 1..n, I # {}
  PROVE  \E i \in I : \A j \in I : j <= i
<1> DEFINE above == {k \in Nat : \A j \in I : j <= k}
<1>1. above \subseteq Nat /\ n \in above
  OBVIOUS
<1>2. PICK k \in above : \A m \in above : ~ <<m, k>> \in OpToRel(<, Nat)
  <2> HIDE DEF above
  <2> QED BY <1>1, NatLessThanWellFounded, WFMin
<1>3. \A i \in Nat, j \in Nat : i < j => <<i, j>> \in OpToRel(<, Nat)
  BY Zenon DEF OpToRel
<1>4. k \in Nat /\ \A m \in above : k <= m
  <2>1. ASSUME NEW m \in above PROVE k \in Nat /\ m \in Nat /\ ~(m < k)
    BY <1>1, <1>2, <1>3
  <2> QED BY <2>1
<1>5. k > 0
  <2>1. PICK j \in I : j \in 1..n
    OBVIOUS
  <2> QED BY <1>4, <2>1
<1>6. k \in I
  <2>1. SUFFICES ASSUME k \notin I PROVE FALSE
    OBVIOUS
  <2>2. k - 1 \in above
    BY <1>5, <2>1
  <2> QED BY <1>4, <2>2
<1> QED BY <1>6

\* On the page the record names is that version, or an edit of it: a push of
\* another version to that page would be a later push.
LEMMA PageOfLastPush ==
  ASSUME SyncTypeOK, NEW i \in Integrations, NEW push, push.revision \in Nat,
         IsLastPush(i, push), Confirmed(i, push)
  PROVE  Page(i, push.hash.target[i]) \in {push.hash, None}
<1> DEFINE t == push.hash.target[i]
           updates == {n \in DOMAIN remote[i] : remote[i][n].target = t}
           last == CHOOSE n \in updates : \A m \in updates : m <= n
<1>1. Len(remote[i]) \in Nat /\ DOMAIN remote[i] = 1..Len(remote[i])
  BY DEF SyncTypeOK
<1>2. push.revision \in updates /\ remote[i][push.revision].hash = push.hash
  BY DEF Confirmed
<1>3. last \in updates /\ \A m \in updates : m <= last
  <2>1. updates \subseteq 1..Len(remote[i]) /\ updates # {}
    BY <1>1, <1>2
  <2> HIDE DEF updates
  <2> QED BY <1>1, <2>1, LastRevision
<1>4. Page(i, t) = remote[i][last].hash
  BY <1>2 DEF Page
<1>5. CASE remote[i][last].hash # None
  <2>1. last \in Pushes(i)
    BY <1>3, <1>5 DEF Pushes
  <2>2. last = push.revision
    BY <1>1, <1>2, <1>3, <2>1 DEF IsLastPush
  <2> QED BY <1>2, <1>4, <2>2
<1> QED BY <1>4, <1>5

LEMMA LastPushKept ==
  ASSUME SyncTypeOK, SyncInv, LastPushInv
  PROVE  LedgerHasLastPush
<1> SUFFICES ASSUME NEW i \in Integrations, Settled(i)
             PROVE  IF ledger[i] = None THEN Pushes(i) = {}
                    ELSE /\ IsLastPush(i, ledger[i])
                         /\ Page(i, ledger[i].hash.target[i]) \in {ledger[i].hash, None}
  BY DEF LedgerHasLastPush
<1>1. Current(i)
  BY DEF Settled, LastPushInv, Tracked
<1>2. CASE ledger[i] # None
  <2>1. ledger[i].revision \in Nat
    BY <1>2 DEF SyncTypeOK, Ledgers
  <2>2. Confirmed(i, ledger[i]) /\ IsLastPush(i, ledger[i])
    BY <1>1, <1>2 DEF SyncInv, PushesAreConfirmed, Current
  <2> QED BY <1>2, <2>1, <2>2, PageOfLastPush
<1> QED BY <1>1, <1>2 DEF Current

LEMMA LastPushInit == Init => LastPushInv
<1> SUFFICES ASSUME Init, NEW i \in Integrations PROVE Tracked(i)
  BY DEF LastPushInv
<1>1. Pushes(i) = {} /\ \A p \in Procs : ~Unrecorded(p, i)
  BY DEF Init, Pushes, Unrecorded, Idle
<1> QED BY <1>1 DEF Init, Tracked, Current

-----------------------------------------------------------------------------

SyncSafe == SyncTypeOK /\ SyncInv /\ LastPushInv

LEMMA SyncSafeAlways == Spec => []SyncSafe
<1>1. Init => SyncSafe
  BY SyncInit, LastPushInit DEF SyncSafe
<1>2. SyncSafe /\ [Next]_syncVars => SyncSafe'
  BY TypeStep, SyncStep, LastPushStep DEF SyncSafe
<1> QED BY <1>1, <1>2, PTL DEF Spec

\* Whatever the schedule of runtimes, checks, edits and crashes, an integration
\* of which no record was overwritten and no push forgotten has its last push in
\* the integrations file.
THEOREM LedgerAlwaysHasLastPush == Spec => []LedgerHasLastPush
<1>1. SyncSafe => LedgerHasLastPush
  BY LastPushKept DEF SyncSafe
<1> QED BY <1>1, SyncSafeAlways, PTL

\* Of such an integration sync check says in_sync only of a version that is on
\* its page, and never_published only when nothing was pushed.
THEOREM ReportsAlwaysTrue == Spec => ReportsAreTrue
<1> DEFINE Truth ==
      \A i \in Integrations : (CheckReadsLedger(i) /\ Settled(i)) =>
         /\ Report(i) = "in_sync" => Page(i, audit.target[i]) \in {audit, None}
         /\ Report(i) = "never_published" => Pushes(i) = {}
<1>1. SyncSafe => Truth
  <2> SUFFICES ASSUME SyncSafe, NEW i \in Integrations, Settled(i)
               PROVE  /\ Report(i) = "in_sync" => Page(i, audit.target[i]) \in {audit, None}
                      /\ Report(i) = "never_published" => Pushes(i) = {}
    OBVIOUS
  <2>1. LedgerHasLastPush
    BY LastPushKept DEF SyncSafe
  <2>2. Report(i) = "in_sync" => ledger[i] # None /\ ledger[i].hash = audit
    BY DEF Report, ComputeDrift
  <2>3. Report(i) = "never_published" => ledger[i] = None
    BY DEF Report, ComputeDrift
  <2> QED BY <2>1, <2>2, <2>3 DEF LedgerHasLastPush
<1>2. SyncSafe => [Truth]_syncVars
  BY <1>1
<1>3. ReportsAreTrue <=> [][Truth]_syncVars
  BY DEF ReportsAreTrue
<1> QED BY <1>2, <1>3, SyncSafeAlways, PTL
=============================================================================
