---------------------------- MODULE Doctor_proofs ----------------------------
(***************************************************************************)
(* What a doctor run that nobody disturbed may say of the documents, for    *)
(* every set of documents, callers, edits and keys, whatever else happens   *)
(* to the runs that were disturbed.                                         *)
(***************************************************************************)
EXTENDS Doctor, DocStore_proofs

\* A run in progress: seen is the sidecar it compares with, or the version it
\* is about to write a sidecar for.
Runs ==
  [stage : {"choose", "compare", "parse", "save"}, kind : RunKinds, scope : Scopes,
   todo : SUBSET Targets, named : SUBSET Targets, key : Keys \cup {NoKey}, at : Targets \cup {<<>>},
   seen : Versions \cup Sidecars \cup {NoFile},
   found : SUBSET (Targets \X Kinds), quiet : BOOLEAN]

\* What each stage has at hand, and which subcommands pass through it.
Busy(r) ==
  /\ HasScope(r.kind, r.scope)
  /\ r.stage # "choose" => r.at \in Targets
  /\ r.stage = "compare" => r.seen \in Sidecars /\ r.kind \notin {"fix", "sign"}
  /\ r.stage = "save" => r.seen \in Versions
  /\ r.stage \in {"parse", "save"} => r.kind # "check"

RunShapes ==
  /\ TypeOK
  /\ run \in Runs \cup {NoRun}
  /\ run \in Runs => Busy(run)
  /\ head \in [Docs -> [md : Versions \cup {NoFile, Garbled},
                        sidecar : Sidecars \cup {NoFile, Garbled}]]
  /\ pushed \subseteq Docs
  /\ verified \in BOOLEAN /\ gated \in BOOLEAN

-----------------------------------------------------------------------------

\* A run in progress is told from none by its stage.
LEMMA NoRunIsNone ==
  /\ NoRun \notin Runs
  /\ RunShapes => (run # NoRun <=> run \in Runs)
BY DEF NoRun, Runs, RunShapes

\* What stands where a target points.
LEMMA TargetFiles ==
  ASSUME RunShapes, NEW t \in Targets
  PROVE  /\ t[1] \in Docs
         /\ MdAt(t) \in Versions \cup {NoFile, Garbled}
         /\ SidecarAt(t) \in Sidecars \cup {NoFile, Garbled}
         /\ MdAt(t) # NoFile => t = Doc(t[1])
<1>1. t[1] \in Docs /\ t[2] \in {"doc", "integrations"} /\ t = <<t[1], t[2]>>
  BY DEF Targets
<1>2. [of |-> [edits |-> {}, form |-> "plain"], virt |-> FALSE, sig |-> NoKey] \in Sidecars
  BY DEF Sidecars, Versions, Forms
<1>3. MdAt(t) \in Versions \cup {NoFile, Garbled}
  BY <1>1 DEF MdAt, RunShapes, TypeOK
<1>4. SidecarAt(t) \in Sidecars \cup {NoFile, Garbled}
  BY <1>1, <1>2 DEF SidecarAt, RunShapes, TypeOK
<1>5. MdAt(t) # NoFile => t = Doc(t[1])
  BY <1>1 DEF MdAt, Doc
<1> QED BY <1>1, <1>3, <1>4, <1>5

LEMMA DocTarget ==
  ASSUME NEW d \in Docs
  PROVE  /\ Doc(d) \in Targets /\ Doc(d)[1] = d
         /\ MdAt(Doc(d)) = md[d] /\ SidecarAt(Doc(d)) = sidecar[d]
         /\ \A c \in Docs : Doc(c) = Doc(d) => c = d
BY DEF Doc, Targets, MdAt, SidecarAt

\* What has the envelope prefix, and the report on it.
LEMMA EnvelopeMeans ==
  ASSUME NEW m \in Versions \cup {NoFile, Garbled},
         NEW s \in Sidecars \cup {NoFile, Garbled}, NEW k, IsEnvelopePrefix(m)
  PROVE  m \in Versions /\ Verdict(m, s, k) \in {"encrypted", "envelope-malformed"}
BY DEF IsEnvelopePrefix, Verdict, EnvelopeReport

\* The verdicts of checkOneDoc on what is no envelope, each by what it takes.
LEMMA PlainVerdicts ==
  ASSUME NEW m \in Versions \cup {NoFile, Garbled},
         NEW s \in Sidecars \cup {NoFile, Garbled}, NEW k, ~IsEnvelopePrefix(m)
  PROVE  /\ Verdict(m, s, k) \in {"absent", "missing-sidecar", "sidecar-parse-error",
                                   "missing-md", "md-parse-error", "tamper", "clean"}
         /\ Verdict(m, s, k) = "absent" <=> m = NoFile /\ s = NoFile
         /\ Verdict(m, s, k) = "missing-sidecar" <=> m # NoFile /\ s = NoFile
         /\ Verdict(m, s, k) = "md-parse-error" <=> m = Garbled /\ s \in Sidecars
         /\ Verdict(m, s, k) = "tamper" <=>
              m \in Versions /\ s \in Sidecars /\ Drifted(s, m, k)
         /\ Verdict(m, s, k) = "clean" <=>
              m \in Versions /\ s \in Sidecars /\ ~Drifted(s, m, k)
<1> USE FilesAssumption
<1>0. NoFile # Garbled /\ NoFile \notin Versions /\ Garbled \notin Versions
      /\ NoFile \notin Sidecars /\ Garbled \notin Sidecars
  OBVIOUS
<1>1. CASE m = NoFile /\ s = NoFile
  BY <1>0, <1>1 DEF Verdict
<1>2. CASE s = Garbled
  BY <1>0, <1>2 DEF Verdict
<1>3. CASE m = NoFile /\ s \in Sidecars
  BY <1>0, <1>3 DEF Verdict
<1>4. CASE m # NoFile /\ s = NoFile
  BY <1>0, <1>4 DEF Verdict
<1>5. CASE m = Garbled /\ s \in Sidecars
  BY <1>0, <1>5 DEF Verdict
<1>6. CASE m \in Versions /\ s \in Sidecars
  BY <1>0, <1>6 DEF Verdict, Verified
<1> QED BY <1>1, <1>2, <1>3, <1>4, <1>5, <1>6

LEMMA VerdictIsKind ==
  ASSUME NEW m \in Versions \cup {NoFile, Garbled},
         NEW s \in Sidecars \cup {NoFile, Garbled}, NEW k
  PROVE  Verdict(m, s, k) \in Kinds
<1>1. CASE IsEnvelopePrefix(m)
  BY <1>1, EnvelopeMeans DEF Kinds
<1>2. CASE ~IsEnvelopePrefix(m)
  BY <1>2, PlainVerdicts DEF Kinds
<1> QED BY <1>1, <1>2

\* heal repairs documents that are there, and no document without sidecar that
\* is no envelope escapes it.
LEMMA RepairedMeans ==
  ASSUME NEW m \in Versions \cup {NoFile, Garbled},
         NEW s \in Sidecars \cup {NoFile, Garbled}, NEW k
  PROVE  /\ Verdict(m, s, k) \in {"tamper", "missing-sidecar"} => m # NoFile
         /\ Verdict(m, s, k) = "missing-sidecar" => s = NoFile
<1>1. CASE IsEnvelopePrefix(m)
  BY <1>1, EnvelopeMeans
<1>2. CASE ~IsEnvelopePrefix(m)
  BY <1>2, PlainVerdicts, FilesAssumption
<1> QED BY <1>1, <1>2

\* A document without drift is a pair.
LEMMA CleanIsPaired ==
  ASSUME NEW m \in Versions \cup {NoFile, Garbled},
         NEW s \in Sidecars \cup {NoFile, Garbled}, NEW k,
         Verdict(m, s, k) \in {"clean", "absent"}
  PROVE  Paired(m, s)
<1>1. ~IsEnvelopePrefix(m)
  BY EnvelopeMeans
<1> QED BY <1>1, PlainVerdicts DEF Paired, Drifted

\* A sidecar written with the key of the check, and without virtuals, pairs with
\* its document and is clean, unless the document is an envelope.
LEMMA WrittenIsClean ==
  ASSUME NEW m \in Versions, NEW b \in BOOLEAN, NEW k \in Keys \cup {NoKey},
         b => ~ScalarVirtuals
  PROVE  /\ NewSidecar(m, b, k) \in Sidecars
         /\ Paired(m, NewSidecar(m, b, k))
         /\ IF IsEnvelopePrefix(m)
            THEN Verdict(m, NewSidecar(m, b, k), k) \in {"encrypted", "envelope-malformed"}
            ELSE Verdict(m, NewSidecar(m, b, k), k) = "clean"
<1>1. NewSidecar(m, b, k) \in Sidecars /\ NewSidecar(m, b, k).of = m
  BY NewSidecarType
<1>2. ~Drifted(NewSidecar(m, b, k), m, k)
  BY DEF Drifted, NewSidecar, BadSig
<1>3. Paired(m, NewSidecar(m, b, k))
  BY <1>1 DEF Paired
<1>4. CASE IsEnvelopePrefix(m)
  BY <1>1, <1>3, <1>4, EnvelopeMeans
<1>5. CASE ~IsEnvelopePrefix(m)
  BY <1>1, <1>2, <1>3, <1>5, PlainVerdicts
<1> QED BY <1>4, <1>5

-----------------------------------------------------------------------------

\* What each step makes of the run, field by field.
LEMMA Started ==
  ASSUME RunShapes, NEW kind \in RunKinds, NEW scope \in Scopes, StartRun(kind, scope)
  PROVE  /\ run' \in Runs /\ Busy(run')
         /\ run'.stage = "choose" /\ run'.kind = kind /\ run'.scope = scope
         /\ run'.key = KeyOrNil(key) /\ run'.found = {} /\ run'.quiet
         /\ run'.todo \in ScopeTargets(scope)
         /\ run'.named = IF scope = "id" THEN run'.todo ELSE {}
         /\ HasScope(kind, scope)
         /\ UNCHANGED <<md, sidecar, key, head, pushed, verified, gated>>
<1>1. PICK todo \in ScopeTargets(scope) :
        run' = [stage |-> "choose", kind |-> kind, scope |-> scope, todo |-> todo,
                named |-> IF scope = "id" THEN todo ELSE {},
                key |-> KeyOrNil(key), at |-> <<>>, seen |-> NoFile,
                found |-> {}, quiet |-> TRUE]
  BY DEF StartRun
<1>2. \A T \in ScopeTargets(scope) : T \subseteq Targets
  <2>1. \A d \in Docs : Doc(d) \in Targets
    BY DocTarget
  <2>2. AllTargets \subseteq Targets /\ DiffTargets \subseteq Targets
    BY <2>1 DEF AllTargets, DiffTargets
  <2>3. GitScope \subseteq Targets
    BY <2>1 DEF GitScope, RunShapes, Targets
  <2>4. scope \in {"all", "uncommitted", "since", "id"}
    BY DoctorAssumption
  <2> QED BY <2>1, <2>2, <2>3, <2>4 DEF ScopeTargets
<1>3. KeyOrNil(key) \in Keys \cup {NoKey}
  BY DEF KeyOrNil, RunShapes, TypeOK
<1>4. run' \in Runs
  <2>1. PICK N \in SUBSET Targets : N = IF scope = "id" THEN todo ELSE {}
    BY <1>2
  <2> QED BY <1>1, <1>2, <1>3, <2>1 DEF Runs
<1>5. HasScope(kind, scope)
  BY DEF StartRun
<1>6. Busy(run')
  BY <1>1, <1>5 DEF Busy
<1> QED BY <1>1, <1>4, <1>5, <1>6 DEF StartRun, storeVars

LEMMA Concluded ==
  ASSUME RunShapes, run \in Runs, run.kind \notin {"fix", "sign"},
         NEW t \in Targets, NEW v \in Kinds, Conclude(t, v)
  PROVE  /\ run' \in Runs /\ Busy(run')
         /\ run'.kind = run.kind /\ run'.scope = run.scope /\ run'.key = run.key
         /\ run'.quiet = run.quiet /\ run'.named = run.named
         /\ run'.todo = run.todo \ {t}
         /\ IF Repairs(v) THEN run'.stage = "parse" /\ run'.at = t
            ELSE run'.stage = "choose"
         /\ run'.found = IF Reports(v) THEN run.found \cup {<<t, v>>} ELSE run.found
<1>1. HasScope(run.kind, run.scope)
  BY DEF RunShapes, Busy
<1>2. PICK F \in SUBSET (Targets \X Kinds) :
        F = IF Reports(v) THEN run.found \cup {<<t, v>>} ELSE run.found
  <2>1. run.found \in SUBSET (Targets \X Kinds)
    BY DEF Runs
  <2>2. run.found \cup {<<t, v>>} \in SUBSET (Targets \X Kinds)
    BY <2>1
  <2>3. CASE Reports(v)
    <3> WITNESS run.found \cup {<<t, v>>} \in SUBSET (Targets \X Kinds)
    <3> QED BY <2>3
  <2>4. CASE ~Reports(v)
    <3> WITNESS run.found \in SUBSET (Targets \X Kinds)
    <3> QED BY <2>4
  <2> QED BY <2>3, <2>4
<1>3. PICK T \in SUBSET Targets : T = run.todo \ {t}
  BY DEF Runs
<1>4. Repairs(v) => run.kind # "check"
  BY DEF Repairs, Heals
<1>5. CASE Repairs(v)
  <2>1. run' = [run EXCEPT !.stage = "parse", !.at = t, !.todo = T, !.seen = NoFile,
                           !.found = F]
    BY <1>2, <1>3, <1>5 DEF Conclude
  <2>2. /\ run' \in Runs
        /\ run'.stage = "parse" /\ run'.at = t /\ run'.todo = T /\ run'.found = F
        /\ run'.kind = run.kind /\ run'.scope = run.scope /\ run'.key = run.key
        /\ run'.quiet = run.quiet /\ run'.named = run.named
    BY <2>1 DEF Runs
  <2>3. Busy(run')
    BY <1>1, <1>4, <1>5, <2>2 DEF Busy
  <2> QED BY <1>2, <1>3, <1>5, <2>2, <2>3
<1>6. CASE ~Repairs(v)
  <2>1. run' = [run EXCEPT !.stage = "choose", !.at = <<>>, !.todo = T, !.seen = NoFile,
                           !.found = F]
    BY <1>2, <1>3, <1>6 DEF Conclude
  <2>2. /\ run' \in Runs
        /\ run'.stage = "choose" /\ run'.todo = T /\ run'.found = F
        /\ run'.kind = run.kind /\ run'.scope = run.scope /\ run'.key = run.key
        /\ run'.quiet = run.quiet /\ run'.named = run.named
    BY <2>1 DEF Runs
  <2>3. Busy(run')
    BY <1>1, <2>2 DEF Busy
  <2> QED BY <1>2, <1>3, <1>6, <2>2, <2>3
<1> QED BY <1>5, <1>6

\* What Inspect leaves to Compare.
Compares(t) ==
  ~IsEnvelopePrefix(MdAt(t)) /\ MdAt(t) # NoFile /\ SidecarAt(t) \in Sidecars

\* Inspect: the target waits for the comparison, or is concluded.
LEMMA Inspected ==
  ASSUME RunShapes, NEW t \in Targets, Inspect(t)
  PROVE  /\ run \in Runs /\ Busy(run) /\ run.stage = "choose" /\ t \in run.todo
         /\ run.kind \notin {"fix", "sign"}
         /\ UNCHANGED <<md, sidecar, key, head, pushed, verified, gated>>
         /\ \/ /\ Compares(t)
               /\ run' \in Runs /\ Busy(run')
               /\ run'.stage = "compare" /\ run'.at = t /\ run'.seen = SidecarAt(t)
               /\ run'.kind = run.kind /\ run'.scope = run.scope /\ run'.key = run.key
               /\ run'.todo = run.todo /\ run'.found = run.found
               /\ run'.quiet = run.quiet /\ run'.named = run.named
            \/ /\ ~Compares(t)
               /\ Conclude(t, Verdict(MdAt(t), SidecarAt(t), run.key))
<1>1. run \in Runs /\ Busy(run)
  BY DEF Inspect, RunShapes, NoRun
<1>2. run.kind \notin {"fix", "sign"} /\ run.stage = "choose" /\ t \in run.todo
  BY DEF Inspect, Heals
<1>3. SidecarAt(t) \in Sidecars <=> SidecarAt(t) \notin {NoFile, Garbled}
  BY TargetFiles, FilesAssumption
<1>4. CASE Compares(t)
  <2>1. PICK s \in Sidecars : s = SidecarAt(t)
    BY <1>4 DEF Compares
  <2>2. run' = [run EXCEPT !.stage = "compare", !.at = t, !.seen = s]
    BY <1>3, <1>4, <2>1 DEF Inspect, Compares
  <2>3. /\ run' \in Runs
        /\ run'.stage = "compare" /\ run'.at = t /\ run'.seen = s
        /\ run'.kind = run.kind /\ run'.scope = run.scope /\ run'.key = run.key
        /\ run'.todo = run.todo /\ run'.found = run.found /\ run'.quiet = run.quiet /\ run'.named = run.named
    BY <1>1, <2>2 DEF Runs
  <2>4. Busy(run')
    BY <1>1, <1>2, <2>3 DEF Busy
  <2> QED BY <1>1, <1>2, <1>4, <2>1, <2>3, <2>4 DEF Inspect, DoctorUnchanged, storeVars
<1>5. CASE ~Compares(t)
  BY <1>1, <1>2, <1>3, <1>5 DEF Inspect, Compares, DoctorUnchanged, storeVars
<1> QED BY <1>4, <1>5

\* Take: fix and sign go on to write.
LEMMA Taken ==
  ASSUME RunShapes, NEW t \in Targets, Take(t)
  PROVE  /\ run \in Runs /\ run.stage = "choose" /\ t \in run.todo
         /\ run.kind \in {"fix", "sign"}
         /\ UNCHANGED <<md, sidecar, key, head, pushed, verified, gated>>
         /\ run' \in Runs /\ Busy(run')
         /\ run'.stage = "parse" /\ run'.at = t /\ run'.todo = run.todo \ {t}
         /\ run'.kind = run.kind /\ run'.scope = run.scope /\ run'.key = run.key
         /\ run'.found = run.found /\ run'.quiet = run.quiet /\ run'.named = run.named
<1>1. run \in Runs /\ Busy(run) /\ run.stage = "choose" /\ t \in run.todo
      /\ run.kind \in {"fix", "sign"}
  BY DEF Take, RunShapes, NoRun
<1>2. PICK T \in SUBSET Targets : T = run.todo \ {t}
  BY <1>1 DEF Runs
<1>3. run' = [run EXCEPT !.stage = "parse", !.at = t, !.todo = T]
  BY <1>2 DEF Take
<1>4. /\ run' \in Runs
      /\ run'.stage = "parse" /\ run'.at = t /\ run'.todo = T
      /\ run'.kind = run.kind /\ run'.scope = run.scope /\ run'.key = run.key
      /\ run'.found = run.found /\ run'.quiet = run.quiet /\ run'.named = run.named
  BY <1>1, <1>3 DEF Runs
<1>5. Busy(run')
  BY <1>1, <1>4 DEF Busy
<1> QED BY <1>1, <1>2, <1>4, <1>5 DEF Take, DoctorUnchanged, storeVars

LEMMA Compared ==
  ASSUME RunShapes, Compare
  PROVE  LET m == MdAt(run.at)
             v == IF m \in {NoFile, Garbled} THEN "md-parse-error"
                  ELSE Verified(run.seen, m, run.key) IN
         /\ run \in Runs /\ run.stage = "compare" /\ run.at \in Targets
         /\ run.seen \in Sidecars /\ run.kind \notin {"fix", "sign"}
         /\ v \in Kinds /\ Conclude(run.at, v)
         /\ UNCHANGED <<md, sidecar, key, head, pushed, verified, gated>>
<1>1. run \in Runs /\ Busy(run) /\ run.stage = "compare"
  BY DEF Compare, RunShapes, NoRun
<1>2. run.at \in Targets /\ run.seen \in Sidecars /\ run.kind \notin {"fix", "sign"}
  BY <1>1 DEF Busy
<1>3. Verified(run.seen, MdAt(run.at), run.key) \in Kinds /\ "md-parse-error" \in Kinds
  BY DEF Verified, Kinds
<1> QED BY <1>1, <1>2, <1>3 DEF Compare, DoctorUnchanged, storeVars

LEMMA Parsed ==
  ASSUME RunShapes, Parse
  PROVE  /\ run \in Runs /\ run.stage = "parse" /\ run.at \in Targets
         /\ UNCHANGED <<md, sidecar, key, head, pushed, verified, gated>>
         /\ \/ run' = NoRun
            \/ /\ run' \in Runs /\ Busy(run')
               /\ run'.stage = "save" /\ run'.at = run.at /\ run'.todo = run.todo
               /\ run'.seen = MdAt(run.at)
               /\ run'.kind = run.kind /\ run'.scope = run.scope /\ run'.key = run.key
               /\ run'.found = run.found /\ run'.quiet = run.quiet /\ run'.named = run.named
<1>1. run \in Runs /\ Busy(run) /\ run.stage = "parse" /\ run.at \in Targets
  BY DEF Parse, RunShapes, NoRun, Busy
<1>2. CASE MdAt(run.at) \in {NoFile, Garbled}
  BY <1>1, <1>2 DEF Parse, DoctorUnchanged, storeVars
<1>3. CASE MdAt(run.at) \notin {NoFile, Garbled}
  <2>1. PICK m \in Versions : m = MdAt(run.at)
    BY <1>1, <1>3, TargetFiles
  <2>2. run' = [run EXCEPT !.stage = "save", !.seen = m]
    BY <1>3, <2>1 DEF Parse
  <2>3. /\ run' \in Runs
        /\ run'.stage = "save" /\ run'.at = run.at /\ run'.todo = run.todo
        /\ run'.seen = m
        /\ run'.kind = run.kind /\ run'.scope = run.scope /\ run'.key = run.key
        /\ run'.found = run.found /\ run'.quiet = run.quiet /\ run'.named = run.named
    BY <1>1, <2>2 DEF Runs
  <2>4. Busy(run')
    BY <1>1, <2>1, <2>3 DEF Busy
  <2> QED BY <1>1, <2>1, <2>3, <2>4 DEF Parse, DoctorUnchanged, storeVars
<1> QED BY <1>2, <1>3

LEMMA Saved ==
  ASSUME RunShapes, Save
  PROVE  LET s == NewSidecar(run.seen, Heals(run.kind), run.key) IN
         /\ run \in Runs /\ run.stage = "save" /\ run.at \in Targets
         /\ run.at[1] \in Docs /\ run.seen \in Versions /\ run.kind # "check"
         /\ s \in Sidecars /\ sidecar' = [sidecar EXCEPT ![run.at[1]] = s]
         /\ UNCHANGED <<md, key, job, reply, disturbed, head, pushed, gated>>
         /\ verified' = FALSE
         /\ run' \in Runs /\ Busy(run')
         /\ run'.stage = "choose" /\ run'.todo = run.todo
         /\ run'.kind = run.kind /\ run'.scope = run.scope /\ run'.key = run.key
         /\ run'.found = run.found /\ run'.quiet = run.quiet /\ run'.named = run.named
<1>1. run \in Runs /\ Busy(run) /\ run.stage = "save" /\ run.at \in Targets
      /\ run.seen \in Versions /\ run.kind # "check"
  BY DEF Save, RunShapes, NoRun, Busy
<1>2. run.at[1] \in Docs
  BY <1>1, TargetFiles
<1>3. Heals(run.kind) \in BOOLEAN
  BY DEF Heals
<1>4. NewSidecar(run.seen, Heals(run.kind), run.key) \in Sidecars
  BY <1>1, <1>3, NewSidecarType DEF Runs
<1>5. run' = [run EXCEPT !.stage = "choose", !.at = <<>>, !.seen = NoFile]
  BY DEF Save
<1>6. /\ run' \in Runs
      /\ run'.stage = "choose" /\ run'.todo = run.todo
      /\ run'.kind = run.kind /\ run'.scope = run.scope /\ run'.key = run.key
      /\ run'.found = run.found /\ run'.quiet = run.quiet /\ run'.named = run.named
  BY <1>1, <1>5 DEF Runs
<1>7. Busy(run')
  BY <1>1, <1>6 DEF Busy
<1> QED BY <1>1, <1>2, <1>4, <1>6, <1>7 DEF Save

\* Callers, editors and integrations: a run that is still quiet, and a state
\* that still counts as verified, have seen nothing change.
LEMMA OthersStep ==
  ASSUME RunShapes, StoreStep \/ \E d \in Docs : RecordPush(d)
  PROVE  /\ run' \in Runs \cup {NoRun}
         /\ run' \in Runs => Busy(run')
         /\ run' \in Runs /\ run'.quiet =>
              run' = run /\ UNCHANGED <<md, sidecar, key, pushed>>
         /\ verified' \in BOOLEAN
         /\ verified' => verified /\ UNCHANGED <<md, sidecar, key>>
         /\ UNCHANGED <<head, gated>> /\ pushed' \subseteq Docs
<1>1. Disturb => /\ run' \in Runs \cup {NoRun}
                 /\ run' \in Runs => Busy(run') /\ ~run'.quiet
  <2> SUFFICES ASSUME Disturb
               PROVE  /\ run' \in Runs \cup {NoRun}
                      /\ run' \in Runs => Busy(run') /\ ~run'.quiet
    OBVIOUS
  <2>1. CASE run = NoRun
    BY <2>1, NoRunIsNone DEF Disturb
  <2>2. CASE run \in Runs
    <3>1. run' = [run EXCEPT !.quiet = FALSE]
      BY <2>2, NoRunIsNone DEF Disturb
    <3>2. /\ run' \in Runs /\ ~run'.quiet
          /\ run'.kind = run.kind /\ run'.scope = run.scope /\ run'.stage = run.stage
          /\ run'.at = run.at /\ run'.seen = run.seen
      BY <2>2, <3>1 DEF Runs
    <3> QED BY <2>2, <3>2 DEF RunShapes, Busy
  <2> QED BY <2>1, <2>2 DEF RunShapes
<1>2. CASE StoreStep
  <2>1. CASE UNCHANGED <<md, sidecar, key>>
    BY <1>2, <2>1 DEF StoreStep, RunShapes
  <2>2. CASE ~UNCHANGED <<md, sidecar, key>>
    BY <1>1, <1>2, <2>2 DEF StoreStep, RunShapes
  <2> QED BY <2>1, <2>2
<1>3. CASE \E d \in Docs : RecordPush(d)
  BY <1>1, <1>3 DEF RecordPush, RunShapes
<1> QED BY <1>2, <1>3

LEMMA RunShapesInit == DoctorInit => RunShapes
<1> SUFFICES ASSUME DoctorInit PROVE RunShapes
  OBVIOUS
<1>1. TypeOK
  BY TypeCorrectInit DEF DoctorInit
<1>2. run = NoRun /\ run \notin Runs
  BY NoRunIsNone DEF DoctorInit
<1>3. head \in [Docs -> [md : Versions \cup {NoFile, Garbled},
                         sidecar : Sidecars \cup {NoFile, Garbled}]]
  BY DEF DoctorInit
<1>4. pushed \subseteq Docs /\ verified \in BOOLEAN /\ gated \in BOOLEAN
  BY DEF DoctorInit
<1> QED BY <1>1, <1>2, <1>3, <1>4 DEF RunShapes

\* A step that leaves the callers alone and writes at most a sidecar.
LEMMA TypeKept ==
  ASSUME TypeOK, UNCHANGED <<md, key, job, reply, disturbed>>,
         sidecar' \in [Docs -> Sidecars \cup {NoFile, Garbled}]
  PROVE  TypeOK'
BY DEF TypeOK

LEMMA RunShapesStep == RunShapes /\ [DoctorNext]_allVars => RunShapes'
<1> SUFFICES ASSUME RunShapes, [DoctorNext]_allVars PROVE RunShapes'
  OBVIOUS
<1>1. TypeOK'
  <2>1. CASE UNCHANGED storeVars
    BY <2>1, TypeStep DEF RunShapes
  <2>2. CASE Save
    <3>1. sidecar' \in [Docs -> Sidecars \cup {NoFile, Garbled}]
      BY <2>2, Saved DEF RunShapes, TypeOK
    <3> QED BY <2>2, <3>1, Saved, TypeKept DEF RunShapes
  <2>3. CASE StoreStep
    BY <2>3, TypeStep DEF StoreStep, RunShapes
  <2>4. DoctorStep => UNCHANGED storeVars \/ Save
    BY DEF DoctorStep, StartRun, Inspect, Take, Compare, Parse, RunFails, Exit,
           DoctorUnchanged
  <2> QED
    BY <2>1, <2>2, <2>3, <2>4 DEF DoctorNext, RecordPush, Commit, allVars
<1>2. CASE UNCHANGED allVars
  BY <1>1, <1>2 DEF allVars, doctorVars, RunShapes
<1>3. CASE StoreStep \/ \E d \in Docs : RecordPush(d)
  BY <1>1, <1>3, OthersStep DEF RunShapes
<1>4. CASE Commit
  <2>1. head' \in [Docs -> [md : Versions \cup {NoFile, Garbled},
                            sidecar : Sidecars \cup {NoFile, Garbled}]]
    BY <1>4 DEF Commit, RunShapes, TypeOK
  <2> QED BY <1>1, <1>4, <2>1 DEF Commit, RunShapes
<1>5. ASSUME NEW kind \in RunKinds, NEW scope \in Scopes, StartRun(kind, scope)
      PROVE  RunShapes'
  BY <1>1, <1>5, Started DEF RunShapes
<1>6. ASSUME NEW t \in Targets, Inspect(t)
      PROVE  RunShapes'
  <2>1. run' \in Runs /\ Busy(run')
    <3>1. Verdict(MdAt(t), SidecarAt(t), run.key) \in Kinds
      BY TargetFiles, VerdictIsKind
    <3> QED BY <1>6, <3>1, Inspected, Concluded
  <2> QED BY <1>1, <1>6, <2>1, Inspected DEF RunShapes
<1>7. ASSUME NEW t \in Targets, Take(t)
      PROVE  RunShapes'
  BY <1>1, <1>7, Taken DEF RunShapes
<1>8. CASE Compare
  <2>1. run' \in Runs /\ Busy(run')
    BY <1>8, Compared, Concluded
  <2> QED BY <1>1, <1>8, <2>1, Compared DEF RunShapes
<1>9. CASE Parse
  BY <1>1, <1>9, Parsed, NoRunIsNone DEF RunShapes
<1>10. CASE Save
  BY <1>1, <1>10, Saved DEF RunShapes
<1>11. CASE RunFails
  BY <1>1, <1>11, NoRunIsNone DEF RunFails, DoctorUnchanged, RunShapes
<1>12. CASE Exit
  BY <1>1, <1>12, NoRunIsNone DEF Exit, RunShapes
<1> QED
  BY <1>2, <1>3, <1>4, <1>5, <1>6, <1>7, <1>8, <1>9, <1>10, <1>11, <1>12
     DEF DoctorNext, DoctorStep

-----------------------------------------------------------------------------

(***************************************************************************)
(* A quiet run: nobody else has changed a document or the key since it     *)
(* started.  What it holds is then what the files say, and a document is   *)
(* either still to be dealt with or already as the run must leave it.      *)
(***************************************************************************)
Quiet == run \in Runs /\ run.quiet

AtHand ==
  /\ run.key = KeyOrNil(key)
  /\ run.stage = "compare" =>
       /\ run.seen = SidecarAt(run.at) /\ MdAt(run.at) # NoFile
       /\ ~IsEnvelopePrefix(MdAt(run.at))
  /\ run.stage = "save" => run.seen = MdAt(run.at)
  /\ run.stage \in {"parse", "save"} /\ run.kind = "heal" => SidecarAt(run.at) = NoFile

Pending(d) == Doc(d) \in run.todo \/ (run.stage # "choose" /\ run.at = Doc(d))
Listed(d, v) == <<Doc(d), v>> \in run.found
Found(d) == \E v \in Kinds : Listed(d, v)

\* check meets the documents it covers, --all by their markdown, and lists what
\* is wrong with those it has met.
Meets(d) == Covers(run.scope, d) /\ (run.scope = "all" => md[d] # NoFile)
CheckTrack(d) ==
  run.kind = "check" =>
    /\ Pending(d) => Meets(d) /\ ~Found(d)
    /\ ~Pending(d) => (Found(d) <=> Meets(d) /\ Drifting(d))
    /\ \A v \in Kinds : Listed(d, v) => v = VerdictOf(d)

Signed(d) ==
  Paired(md[d], sidecar[d]) /\ (VerdictOf(d) = "clean" \/ IsEnvelopePrefix(md[d]))
SignTrack(d) ==
  run.kind \in {"fix", "sign"} /\ Covers(run.scope, d) /\ md[d] # NoFile =>
    Pending(d) \/ Signed(d)

Healed(d) == VerdictOf(d) \notin {"tamper", "missing-sidecar"}
HealTrack(d) ==
  ~ScalarVirtuals /\ Heals(run.kind) /\ run.found = {} /\ Covers(run.scope, d) =>
    Pending(d) \/ Healed(d)

Tracks(d) == CheckTrack(d) /\ SignTrack(d) /\ HealTrack(d)

RunTrack == Quiet => AtHand /\ \A d \in Docs : Tracks(d)

\* The verdict on the two files of a target.
VerdictAt(t) == Verdict(MdAt(t), SidecarAt(t), run.key)

LEMMA ScopesAre ==
  \A scope \in Scopes : scope \in {"all", "uncommitted", "since", "id"}
BY DoctorAssumption

LEMMA KindsAre ==
  \A kind \in RunKinds : kind \in {"check", "heal", "heal_ack", "fix", "sign"}
BY DoctorAssumption

\* Where the files and the key stand still, so do the verdicts and the scopes.
LEMMA StillFiles ==
  ASSUME UNCHANGED <<md, sidecar, key, head>>, NEW d \in Docs
  PROVE  /\ VerdictOf(d)' = VerdictOf(d) /\ Drifting(d)' = Drifting(d)
         /\ Signed(d)' = Signed(d) /\ Healed(d)' = Healed(d)
         /\ DirListed' = DirListed /\ Changed(d)' = Changed(d)
BY DEF VerdictOf, Drifting, Signed, Healed, Changed, DirListed, InHead

LEMMA StillScopes ==
  ASSUME UNCHANGED <<md, sidecar, key, head>>, run'.named = run.named,
         NEW d \in Docs, NEW scope
  PROVE  Covers(scope, d)' = Covers(scope, d)
BY StillFiles DEF Covers

LEMMA StillTargets ==
  ASSUME UNCHANGED <<md, sidecar, pushed>>, NEW t
  PROVE  MdAt(t)' = MdAt(t) /\ SidecarAt(t)' = SidecarAt(t)
BY DEF MdAt, SidecarAt

\* A step that touches no file, and leaves the document as pending as it was.
LEMMA TrackKept ==
  ASSUME run \in Runs, UNCHANGED <<md, sidecar, key, head>>,
         run'.kind = run.kind, run'.scope = run.scope,
         NEW d \in Docs, Tracks(d), Pending(d)' = Pending(d),
         run'.found = {} => run.found = {}, run'.named = run.named,
         run.kind = "check" => \A v \in Kinds : Listed(d, v)' = Listed(d, v)
  PROVE  Tracks(d)'
<1>1. run.scope \in Scopes
  BY DEF Runs
<1>2. /\ VerdictOf(d)' = VerdictOf(d) /\ Drifting(d)' = Drifting(d)
      /\ Signed(d)' = Signed(d) /\ Healed(d)' = Healed(d)
      /\ Covers(run.scope, d)' = Covers(run.scope, d)
      /\ Meets(d)' = Meets(d)
  <2>1. PICK scope \in Scopes : scope = run.scope /\ scope = run'.scope
    BY <1>1
  <2>2. Covers(scope, d)' = Covers(scope, d)
    BY StillScopes
  <2> QED BY <2>1, <2>2, StillFiles DEF Meets
<1>3. CheckTrack(d)'
  BY <1>2 DEF Tracks, CheckTrack, Found
<1>4. SignTrack(d)'
  BY <1>2 DEF Tracks, SignTrack
<1>5. HealTrack(d)'
  BY <1>2 DEF Tracks, HealTrack, Heals
<1> QED BY <1>3, <1>4, <1>5 DEF Tracks

-----------------------------------------------------------------------------

LEMMA VerdictAtMeans ==
  ASSUME RunShapes, NEW t \in Targets
  PROVE  /\ VerdictAt(t) \in Kinds
         /\ VerdictAt(t) = "missing-sidecar" => SidecarAt(t) = NoFile
         /\ SidecarAt(t) \in Sidecars /\ MdAt(t) # NoFile /\ ~IsEnvelopePrefix(MdAt(t)) =>
              VerdictAt(t) = IF MdAt(t) = Garbled THEN "md-parse-error"
                             ELSE Verified(SidecarAt(t), MdAt(t), run.key)
<1>1. PICK m \in Versions \cup {NoFile, Garbled}, s \in Sidecars \cup {NoFile, Garbled} :
        m = MdAt(t) /\ s = SidecarAt(t)
  BY TargetFiles
<1>2. PICK k : k = run.key
  OBVIOUS
<1>3. VerdictAt(t) = Verdict(m, s, k)
  BY <1>1, <1>2 DEF VerdictAt
<1>4. Verdict(m, s, k) \in Kinds
  BY VerdictIsKind
<1>5. Verdict(m, s, k) = "missing-sidecar" => s = NoFile
  BY RepairedMeans
<1>6. s \in Sidecars /\ m # NoFile /\ ~IsEnvelopePrefix(m) =>
        Verdict(m, s, k) = IF m = Garbled THEN "md-parse-error" ELSE Verified(s, m, k)
  BY FilesAssumption DEF Verdict
<1> QED BY <1>1, <1>2, <1>3, <1>4, <1>5, <1>6

\* A run starts with every document of its scope pending.
LEMMA StartTracks ==
  ASSUME RunShapes, NEW kind \in RunKinds, NEW scope \in Scopes, StartRun(kind, scope)
  PROVE  RunTrack'
<1>1. /\ run' \in Runs /\ run'.stage = "choose" /\ run'.kind = kind
      /\ run'.scope = scope /\ run'.key = KeyOrNil(key) /\ run'.found = {}
      /\ run'.todo \in ScopeTargets(scope) /\ HasScope(kind, scope)
      /\ UNCHANGED <<md, sidecar, key, head, pushed>>
  BY Started
<1>2. AtHand'
  BY <1>1 DEF AtHand
<1>3. ASSUME NEW d \in Docs
      PROVE  Tracks(d)'
  <2>1. Pending(d)' <=> Doc(d) \in run'.todo
    BY <1>1 DEF Pending, Doc
  <2>2. ~Found(d)' /\ \A v \in Kinds : ~Listed(d, v)'
    BY <1>1 DEF Found, Listed
  <2>3. Signed(d)' = Signed(d) /\ Healed(d)' = Healed(d)
    BY <1>1, StillFiles
  <2>4. Covers(scope, d)' =>
          \/ Doc(d) \in run'.todo
          \/ scope = "all" /\ md[d] = NoFile
    <3>1. CASE scope = "all"
      BY <1>1, <3>1, DocTarget DEF ScopeTargets, AllTargets
    <3>2. CASE scope = "uncommitted"
      <4>1. Covers(scope, d)' <=> DirListed /\ Changed(d)
        BY <1>1, <3>2, StillFiles DEF Covers
      <4> QED BY <1>1, <3>2, <4>1, DocTarget DEF ScopeTargets, GitScope
    <3>3. CASE scope = "since"
      BY <1>1, <3>3, DocTarget DEF ScopeTargets, DiffTargets, Covers
    <3>4. CASE scope = "id"
      BY <1>1, <3>4, Started DEF Covers
    <3> QED BY <3>1, <3>2, <3>3, <3>4, ScopesAre
  <2>5. kind = "check" =>
          (Doc(d) \in run'.todo <=> Covers(scope, d)' /\ (scope = "all" => md[d] # NoFile))
    <3>1. CASE scope = "all"
      BY <1>1, <3>1, DocTarget DEF ScopeTargets, AllTargets, Covers
    <3>2. CASE scope = "uncommitted"
      <4>1. Covers(scope, d)' <=> DirListed /\ Changed(d)
        BY <1>1, <3>2, StillFiles DEF Covers
      <4> QED BY <1>1, <3>2, <4>1, DocTarget DEF ScopeTargets, GitScope, Doc
    <3>3. CASE scope \notin {"all", "uncommitted"}
      BY <1>1, <3>3 DEF HasScope, Heals
    <3> QED BY <3>1, <3>2, <3>3
  <2>6. md[d] = NoFile => Healed(d)
    <3>1. /\ md[d] \in Versions \cup {NoFile, Garbled}
          /\ sidecar[d] \in Sidecars \cup {NoFile, Garbled}
      BY DEF RunShapes, TypeOK
    <3> QED BY <3>1, RepairedMeans DEF Healed, VerdictOf
  <2>7. /\ Covers(run.scope, d)' = Covers(scope, d)'
        /\ Meets(d)' <=> Covers(scope, d)' /\ (scope = "all" => md[d] # NoFile)
    BY <1>1 DEF Meets, Covers
  <2>8. CheckTrack(d)'
    BY <1>1, <2>1, <2>2, <2>5, <2>7 DEF CheckTrack
  <2>9. SignTrack(d)'
    BY <1>1, <2>1, <2>4, <2>7 DEF SignTrack
  <2>10. HealTrack(d)'
    BY <1>1, <2>1, <2>3, <2>4, <2>6, <2>7 DEF HealTrack
  <2> QED BY <2>8, <2>9, <2>10 DEF Tracks
<1> QED BY <1>2, <1>3 DEF RunTrack

\* Concluding a target: it is done, or goes on to be repaired.
LEMMA ConcludeTracks ==
  ASSUME RunShapes, RunTrack, run \in Runs, run.kind \notin {"fix", "sign"},
         NEW t \in Targets,
         \/ run.stage = "choose" /\ t \in run.todo
         \/ run.stage = "compare" /\ run.at = t,
         NEW v \in Kinds, v = VerdictAt(t), Conclude(t, v),
         UNCHANGED <<md, sidecar, key, head, pushed>>
  PROVE  RunTrack'
<1> SUFFICES ASSUME Quiet' PROVE AtHand' /\ \A d \in Docs : Tracks(d)'
  BY DEF RunTrack
<1>1. /\ run' \in Runs
      /\ run'.kind = run.kind /\ run'.scope = run.scope /\ run'.key = run.key
      /\ run'.quiet = run.quiet /\ run'.named = run.named /\ run'.todo = run.todo \ {t}
      /\ IF Repairs(v) THEN run'.stage = "parse" /\ run'.at = t
         ELSE run'.stage = "choose"
      /\ run'.found = IF Reports(v) THEN run.found \cup {<<t, v>>} ELSE run.found
  BY Concluded
<1>2. Quiet /\ AtHand /\ \A d \in Docs : Tracks(d)
  BY <1>1 DEF Quiet, RunTrack
<1>3. /\ SidecarAt(t)' = SidecarAt(t)
      /\ SidecarAt(t) \in Sidecars \cup {NoFile, Garbled}
      /\ MdAt(t) \in Versions \cup {NoFile, Garbled}
  BY StillTargets, TargetFiles
<1>4. AtHand'
  <2>1. run'.key = KeyOrNil(key)'
    BY <1>1, <1>2 DEF AtHand, KeyOrNil
  <2>2. run'.stage \in {"parse", "choose"}
    BY <1>1
  <2>3. ASSUME run'.stage = "parse", run'.kind = "heal"
        PROVE  SidecarAt(run.at)' = NoFile
    <3>1. v = "missing-sidecar" /\ run'.at = t
      BY <1>1, <2>3 DEF Repairs
    <3>2. SidecarAt(t) = NoFile
      BY <3>1, VerdictAtMeans
    <3>3. SidecarAt(run.at)' = SidecarAt(t)'
      BY <3>1 DEF SidecarAt
    <3> QED BY <1>3, <3>2, <3>3
  <2> QED BY <2>1, <2>2, <2>3 DEF AtHand
<1>5. ASSUME NEW d \in Docs
      PROVE  Tracks(d)'
  <2>1. CASE Doc(d) # t
    <3>1. Pending(d)' = Pending(d)
      BY <1>1, <2>1 DEF Pending, Doc
    <3>2. \A w \in Kinds : Listed(d, w)' = Listed(d, w)
      BY SMTT(30), <1>1, <2>1 DEF Listed, Doc
    <3>3. run'.found = {} => run.found = {}
      BY <1>1
    <3> QED BY <1>1, <1>2, <3>1, <3>2, <3>3, TrackKept
  <2>2. CASE Doc(d) = t
    <3>1. Pending(d) /\ (Pending(d)' <=> Repairs(v))
      BY <1>1, <2>2 DEF Pending, Doc
    <3>2. v = VerdictOf(d) /\ MdAt(t) = md[d] /\ SidecarAt(t) = sidecar[d]
      BY <1>2, <2>2, DocTarget DEF VerdictAt, VerdictOf, AtHand
    <3>3. /\ VerdictOf(d)' = v /\ (Drifting(d)' <=> v \notin {"clean", "absent"})
          /\ Healed(d)' <=> v \notin {"tamper", "missing-sidecar"}
      BY <3>2, StillFiles DEF Drifting, Healed
    <3>4. run.found = {} => (run'.found = {} <=> ~Reports(v))
      BY <1>1
    <3>5. run.found \subseteq run'.found
      BY <1>1
    <3>6. CheckTrack(d)'
      <4> SUFFICES ASSUME run.kind = "check" PROVE CheckTrack(d)'
        BY <1>1 DEF CheckTrack
      <4>1. ~Repairs(v) /\ (Reports(v) <=> v \notin {"clean", "absent"})
        BY DEF Repairs, Reports, Heals
      <4>2. Meets(d) /\ ~Found(d)
        BY <1>2, <3>1 DEF Tracks, CheckTrack
      <4>3. \A w \in Kinds : Listed(d, w)' <=> Reports(v) /\ w = v
        <5>1. CASE Reports(v)
          BY <1>1, <2>2, <4>2, <5>1 DEF Found, Listed, Doc
        <5>2. CASE ~Reports(v)
          BY <1>1, <4>2, <5>2 DEF Found, Listed, Doc
        <5> QED BY <5>1, <5>2
      <4>5. Found(d)' <=> Reports(v)
        BY <4>3 DEF Found
      <4>4. Meets(d)'
        <5>1. PICK scope \in Scopes : scope = run.scope /\ scope = run'.scope
          BY <1>1 DEF Runs
        <5>2. Covers(scope, d)' = Covers(scope, d)
          BY <1>1, StillScopes
        <5> QED BY <4>2, <5>1, <5>2 DEF Meets
      <4> QED BY <3>1, <3>3, <4>1, <4>3, <4>4, <4>5 DEF CheckTrack
    <3>7. SignTrack(d)'
      BY <1>1 DEF SignTrack
    <3>8. HealTrack(d)'
      <4> SUFFICES ASSUME Heals(run.kind), run'.found = {}, ~Pending(d)'
                   PROVE  v \notin {"tamper", "missing-sidecar"}
        BY <1>1, <3>3 DEF HealTrack, Heals
      <4>1. ~Repairs(v) /\ ~Reports(v)
        BY <3>1, <3>4, <3>5
      <4>2. run.kind \in {"heal", "heal_ack"}
        BY DEF Heals
      <4> QED BY <4>1, <4>2 DEF Repairs, Reports, Heals
    <3> QED BY <3>6, <3>7, <3>8 DEF Tracks
  <2> QED BY <2>1, <2>2
<1> QED BY <1>4, <1>5

LEMMA InspectTracks ==
  ASSUME RunShapes, RunTrack, NEW t \in Targets, Inspect(t)
  PROVE  RunTrack'
<1>1. /\ run \in Runs /\ run.stage = "choose" /\ t \in run.todo
      /\ run.kind \notin {"fix", "sign"}
      /\ UNCHANGED <<md, sidecar, key, head, pushed>>
  BY Inspected
<1>2. CASE Conclude(t, Verdict(MdAt(t), SidecarAt(t), run.key))
  <2>1. VerdictAt(t) \in Kinds
    BY VerdictAtMeans
  <2>2. PICK v \in Kinds : v = VerdictAt(t)
    BY <2>1
  <2>3. Conclude(t, v)
    BY <1>2, <2>2 DEF VerdictAt
  <2> QED BY <1>1, <2>2, <2>3, ConcludeTracks
<1>3. CASE /\ Compares(t)
           /\ run' \in Runs /\ Busy(run')
           /\ run'.stage = "compare" /\ run'.at = t /\ run'.seen = SidecarAt(t)
           /\ run'.kind = run.kind /\ run'.scope = run.scope /\ run'.key = run.key
           /\ run'.todo = run.todo /\ run'.found = run.found
           /\ run'.quiet = run.quiet /\ run'.named = run.named
  <2> SUFFICES ASSUME Quiet' PROVE AtHand' /\ \A d \in Docs : Tracks(d)'
    BY DEF RunTrack
  <2>1. Quiet /\ AtHand /\ \A d \in Docs : Tracks(d)
    BY <1>1, <1>3 DEF Quiet, RunTrack
  <2>2. MdAt(t)' = MdAt(t) /\ SidecarAt(t)' = SidecarAt(t)
    BY <1>1, StillTargets
  <2>3. MdAt(run.at)' = MdAt(t)' /\ SidecarAt(run.at)' = SidecarAt(t)'
    BY <1>3 DEF MdAt, SidecarAt
  <2>4. AtHand'
    BY <1>1, <1>3, <2>1, <2>2, <2>3 DEF AtHand, Compares, KeyOrNil
  <2>5. ASSUME NEW d \in Docs
        PROVE  Tracks(d)'
    <3>1. Pending(d)' = Pending(d)
      BY <1>1, <1>3 DEF Pending, Doc
    <3>2. \A v \in Kinds : Listed(d, v)' = Listed(d, v)
      BY <1>3 DEF Listed, Doc
    <3> QED BY <1>1, <1>3, <2>1, <3>1, <3>2, TrackKept
  <2> QED BY <2>4, <2>5
<1> QED BY <1>2, <1>3, Inspected

LEMMA CompareTracks ==
  ASSUME RunShapes, RunTrack, Compare
  PROVE  RunTrack'
<1>1. PICK t \in Targets : t = run.at
  BY Compared
<1>2. /\ run \in Runs /\ run.stage = "compare" /\ run.seen \in Sidecars
      /\ run.kind \notin {"fix", "sign"}
      /\ UNCHANGED <<md, sidecar, key, head, pushed>>
  BY Compared
<1>3. PICK v \in Kinds :
        /\ v = IF MdAt(t) \in {NoFile, Garbled} THEN "md-parse-error"
               ELSE Verified(run.seen, MdAt(t), run.key)
        /\ Conclude(t, v)
  BY <1>1, Compared
<1>4. CASE Quiet
  <2>1. run.seen = SidecarAt(t) /\ MdAt(t) # NoFile /\ ~IsEnvelopePrefix(MdAt(t))
    BY <1>1, <1>2, <1>4 DEF RunTrack, AtHand
  <2>2. v = VerdictAt(t)
    BY <1>2, <1>3, <2>1, VerdictAtMeans
  <2> QED BY <1>1, <1>2, <1>3, <2>2, ConcludeTracks
<1>5. CASE ~Quiet
  <2>1. run'.quiet = run.quiet /\ run'.named = run.named
    BY <1>2, <1>3, Concluded
  <2> QED BY <1>2, <1>5, <2>1 DEF Quiet, RunTrack
<1> QED BY <1>4, <1>5

LEMMA TakeTracks ==
  ASSUME RunShapes, RunTrack, NEW t \in Targets, Take(t)
  PROVE  RunTrack'
<1> SUFFICES ASSUME Quiet' PROVE AtHand' /\ \A d \in Docs : Tracks(d)'
  BY DEF RunTrack
<1>1. /\ run \in Runs /\ run.stage = "choose" /\ t \in run.todo
      /\ run.kind \in {"fix", "sign"}
      /\ UNCHANGED <<md, sidecar, key, head, pushed>>
      /\ run' \in Runs /\ run'.stage = "parse" /\ run'.at = t
      /\ run'.todo = run.todo \ {t}
      /\ run'.kind = run.kind /\ run'.scope = run.scope /\ run'.key = run.key
      /\ run'.found = run.found /\ run'.quiet = run.quiet /\ run'.named = run.named
  BY Taken
<1>2. Quiet /\ AtHand /\ \A d \in Docs : Tracks(d)
  BY <1>1 DEF Quiet, RunTrack
<1>3. AtHand'
  BY <1>1, <1>2 DEF AtHand, KeyOrNil
<1>4. ASSUME NEW d \in Docs
      PROVE  Tracks(d)'
  <2>1. Pending(d)' = Pending(d)
    BY <1>1 DEF Pending, Doc
  <2>2. \A v \in Kinds : Listed(d, v)' = Listed(d, v)
    BY <1>1 DEF Listed, Doc
  <2> QED BY <1>1, <1>2, <2>1, <2>2, TrackKept
<1> QED BY <1>3, <1>4

LEMMA ParseTracks ==
  ASSUME RunShapes, RunTrack, Parse
  PROVE  RunTrack'
<1> SUFFICES ASSUME Quiet' PROVE AtHand' /\ \A d \in Docs : Tracks(d)'
  BY DEF RunTrack
<1>1. PICK t \in Targets : t = run.at
  BY Parsed
<1>2. /\ run \in Runs /\ run.stage = "parse"
      /\ UNCHANGED <<md, sidecar, key, head, pushed>>
      /\ run'.stage = "save" /\ run'.at = t /\ run'.todo = run.todo
      /\ run'.seen = MdAt(t)
      /\ run'.kind = run.kind /\ run'.scope = run.scope /\ run'.key = run.key
      /\ run'.found = run.found /\ run'.quiet = run.quiet /\ run'.named = run.named
  BY <1>1, Parsed, NoRunIsNone DEF Quiet
<1>3. Quiet /\ AtHand /\ \A d \in Docs : Tracks(d)
  BY <1>2 DEF Quiet, RunTrack
<1>4. MdAt(t)' = MdAt(t) /\ SidecarAt(t)' = SidecarAt(t)
  BY <1>2, StillTargets
<1>5. MdAt(run.at)' = MdAt(t)' /\ SidecarAt(run.at)' = SidecarAt(t)'
  BY <1>2 DEF MdAt, SidecarAt
<1>6. AtHand'
  BY <1>1, <1>2, <1>3, <1>4, <1>5 DEF AtHand, KeyOrNil
<1>7. ASSUME NEW d \in Docs
      PROVE  Tracks(d)'
  <2>1. Pending(d)' = Pending(d)
    BY <1>1, <1>2 DEF Pending, Doc
  <2>2. \A v \in Kinds : Listed(d, v)' = Listed(d, v)
    BY <1>2 DEF Listed, Doc
  <2> QED BY <1>2, <1>3, <2>1, <2>2, TrackKept
<1> QED BY <1>6, <1>7

\* A sidecar written by an undisturbed run makes its document clean.
LEMMA SaveTracks ==
  ASSUME RunShapes, RunTrack, Save
  PROVE  RunTrack'
<1> SUFFICES ASSUME Quiet' PROVE AtHand' /\ \A d \in Docs : Tracks(d)'
  BY DEF RunTrack
<1>1. PICK t \in Targets : t = run.at
  BY Saved
<1>2. PICK c \in Docs : c = t[1]
  BY <1>1, Saved
<1>3. PICK m \in Versions : m = run.seen
  BY Saved
<1>4. PICK s \in Sidecars : s = NewSidecar(m, Heals(run.kind), run.key)
  BY <1>3, Saved
<1>5. /\ run \in Runs /\ run.stage = "save" /\ run.kind # "check"
      /\ sidecar' = [sidecar EXCEPT ![c] = s]
      /\ UNCHANGED <<md, key, head, pushed>>
      /\ run' \in Runs /\ run'.stage = "choose" /\ run'.todo = run.todo
      /\ run'.kind = run.kind /\ run'.scope = run.scope /\ run'.key = run.key
      /\ run'.found = run.found /\ run'.quiet = run.quiet /\ run'.named = run.named
  BY <1>1, <1>2, <1>3, <1>4, Saved
<1>6. Quiet /\ AtHand /\ \A d \in Docs : Tracks(d)
  BY <1>5 DEF Quiet, RunTrack
<1>7. AtHand'
  BY <1>5, <1>6 DEF AtHand, KeyOrNil
<1>8. t = Doc(c) /\ md[c] = m
  <2>1. MdAt(t) = m /\ m # NoFile
    BY <1>1, <1>3, <1>5, <1>6, FilesAssumption DEF AtHand
  <2> QED BY <1>2, <2>1, TargetFiles, DocTarget
<1>9. sidecar \in [Docs -> Sidecars \cup {NoFile, Garbled}]
  BY DEF RunShapes, TypeOK
<1>10. PICK k \in Keys \cup {NoKey} : k = run.key
  BY <1>5 DEF Runs
<1>11. k = KeyOrNil(key)
  BY <1>6, <1>10 DEF AtHand
<1>12. ASSUME Heals(run.kind) => ~ScalarVirtuals
       PROVE  Signed(c)' /\ Healed(c)'
  <2>1. PICK b \in BOOLEAN : b = Heals(run.kind)
    <3>1. Heals(run.kind) \in BOOLEAN
      BY DEF Heals
    <3> WITNESS Heals(run.kind) \in BOOLEAN
    <3> QED OBVIOUS
  <2>2. /\ Paired(m, s)
        /\ IF IsEnvelopePrefix(m) THEN Verdict(m, s, k) \in {"encrypted", "envelope-malformed"}
           ELSE Verdict(m, s, k) = "clean"
    BY <1>4, <1>10, <1>12, <2>1, WrittenIsClean
  <2>3. md'[c] = m /\ sidecar'[c] = s /\ KeyOrNil(key)' = k
    BY <1>5, <1>8, <1>9, <1>11 DEF KeyOrNil
  <2> QED BY <2>2, <2>3 DEF Signed, Healed, VerdictOf
<1>13. ASSUME NEW d \in Docs, d # c
       PROVE  Tracks(d)'
  <2>1. sidecar'[d] = sidecar[d] /\ md'[d] = md[d]
    BY <1>5, <1>9, <1>13
  <2>2. /\ VerdictOf(d)' = VerdictOf(d)
        /\ Signed(d)' = Signed(d) /\ Healed(d)' = Healed(d)
    BY <1>5, <2>1 DEF VerdictOf, Signed, Healed, KeyOrNil
  <2>3. Covers(run.scope, d)' = Covers(run.scope, d)
    <3>1. Changed(d)' = Changed(d)
      BY <1>5, <2>1 DEF Changed
    <3>2. DirListed' = DirListed
      BY <1>5 DEF DirListed, InHead
    <3> QED BY <1>5, <2>1, <3>1, <3>2 DEF Covers
  <2>4. Pending(d)' = Pending(d)
    BY <1>1, <1>5, <1>8, <1>13, DocTarget DEF Pending, Doc
  <2>5. CheckTrack(d)'
    BY <1>5 DEF CheckTrack
  <2>6. SignTrack(d)'
    BY <1>5, <1>6, <2>1, <2>2, <2>3, <2>4 DEF Tracks, SignTrack
  <2>7. HealTrack(d)'
    BY <1>5, <1>6, <2>1, <2>2, <2>3, <2>4 DEF Tracks, HealTrack, Heals
  <2> QED BY <2>5, <2>6, <2>7 DEF Tracks
<1>14. Tracks(c)'
  <2>1. CheckTrack(c)'
    BY <1>5 DEF CheckTrack
  <2>2. SignTrack(c)'
    BY <1>5, <1>12 DEF SignTrack, Heals
  <2>3. HealTrack(c)'
    BY <1>5, <1>12 DEF HealTrack, Heals
  <2> QED BY <2>1, <2>2, <2>3 DEF Tracks
<1> QED BY <1>7, <1>13, <1>14

LEMMA RunTrackStep ==
  RunShapes /\ RunTrack /\ [DoctorNext]_allVars => RunTrack'
<1> SUFFICES ASSUME RunShapes, RunTrack, [DoctorNext]_allVars PROVE RunTrack'
  OBVIOUS
<1>1. ASSUME run' = run, UNCHANGED <<md, sidecar, key, head, pushed>>
      PROVE  RunTrack'
  <2> SUFFICES ASSUME Quiet' PROVE AtHand' /\ \A d \in Docs : Tracks(d)'
    BY DEF RunTrack
  <2>1. Quiet /\ AtHand /\ \A d \in Docs : Tracks(d)
    BY <1>1 DEF Quiet, RunTrack
  <2>2. AtHand'
    BY <1>1, <2>1 DEF AtHand, KeyOrNil, MdAt, SidecarAt
  <2>3. ASSUME NEW d \in Docs
        PROVE  Tracks(d)'
    <3>1. Pending(d)' = Pending(d) /\ \A v \in Kinds : Listed(d, v)' = Listed(d, v)
      BY <1>1 DEF Pending, Listed, Doc
    <3> QED BY <1>1, <2>1, <3>1, TrackKept DEF Quiet
  <2> QED BY <2>2, <2>3
<1>2. ASSUME run' = NoRun
      PROVE  RunTrack'
  BY <1>2, NoRunIsNone DEF RunTrack, Quiet
<1>3. CASE UNCHANGED allVars
  BY <1>1, <1>3 DEF allVars, storeVars, doctorVars
<1>4. CASE StoreStep \/ \E d \in Docs : RecordPush(d)
  <2>1. CASE Quiet'
    BY <1>1, <1>4, <2>1, OthersStep DEF Quiet
  <2>2. CASE ~Quiet'
    BY <2>2 DEF RunTrack
  <2> QED BY <2>1, <2>2
<1>5. CASE Commit
  BY <1>2, <1>5 DEF Commit
<1>6. CASE RunFails \/ Exit
  BY <1>2, <1>6 DEF RunFails, Exit
<1>7. CASE \E kind \in RunKinds, scope \in Scopes : StartRun(kind, scope)
  BY <1>7, StartTracks
<1>8. CASE \E t \in Targets : Inspect(t) \/ Take(t)
  BY <1>8, InspectTracks, TakeTracks
<1>9. CASE Compare \/ Parse \/ Save
  BY <1>9, CompareTracks, ParseTracks, SaveTracks
<1> QED
  BY <1>3, <1>4, <1>5, <1>6, <1>7, <1>8, <1>9 DEF DoctorNext, DoctorStep

-----------------------------------------------------------------------------

(***************************************************************************)
(* Commits: while every one of them followed a clean check of the changes, *)
(* what is committed is paired, and so is what may be committed next.      *)
(***************************************************************************)
Gate ==
  gated =>
    \A d \in Docs : /\ Paired(head[d].md, head[d].sidecar)
                    /\ verified => Paired(md[d], sidecar[d])

LEMMA GateStep ==
  ASSUME DirTracked
  PROVE  RunShapes /\ RunTrack /\ Gate /\ [DoctorNext]_allVars => Gate'
<1> SUFFICES ASSUME RunShapes, RunTrack, Gate, [DoctorNext]_allVars, gated',
                    NEW d \in Docs
             PROVE  /\ Paired(head'[d].md, head'[d].sidecar)
                    /\ verified' => Paired(md'[d], sidecar'[d])
  BY DEF Gate, Paired
<1>1. ASSUME head' = head, gated' = gated,
             verified' => verified /\ UNCHANGED <<md, sidecar>>
      PROVE  /\ Paired(head'[d].md, head'[d].sidecar)
             /\ verified' => Paired(md'[d], sidecar'[d])
  BY <1>1 DEF Gate
<1>2. CASE UNCHANGED allVars
  BY <1>1, <1>2 DEF allVars, storeVars, doctorVars
<1>3. CASE StoreStep \/ \E c \in Docs : RecordPush(c)
  BY <1>1, <1>3, OthersStep
<1>4. CASE Commit
  <2>1. gated /\ verified /\ verified' = verified
        /\ head'[d] = [md |-> md[d], sidecar |-> sidecar[d]]
        /\ UNCHANGED <<md, sidecar>>
    BY <1>4 DEF Commit, storeVars
  <2>2. Paired(md[d], sidecar[d])
    BY <2>1 DEF Gate
  <2> QED BY <2>1, <2>2
<1>5. CASE Exit
  <2>1. UNCHANGED <<md, sidecar, head, gated>>
    BY <1>5 DEF Exit, storeVars
  <2>2. Paired(head[d].md, head[d].sidecar)
    BY <2>1 DEF Gate
  <2>3. ASSUME run.kind = "check", run.scope = "uncommitted", run.found = {}, run.quiet
        PROVE  Paired(md[d], sidecar[d])
    <3>1. run \in Runs /\ run.stage = "choose" /\ run.todo = {}
      BY <1>5, NoRunIsNone DEF Exit
    <3>2. ~(Meets(d) /\ Drifting(d))
      <4>1. CheckTrack(d)
        BY <2>3, <3>1 DEF RunTrack, Quiet, Tracks
      <4>2. ~Pending(d) /\ ~Found(d)
        BY <2>3, <3>1 DEF Pending, Found, Listed
      <4> QED BY <2>3, <4>1, <4>2 DEF CheckTrack
    <3>3. CASE Changed(d)
      <4>1. Meets(d)
        BY <2>3, <3>3 DEF Meets, Covers, DirListed
      <4>2. VerdictOf(d) \in {"clean", "absent"}
        BY <3>2, <4>1 DEF Drifting
      <4>3. /\ md[d] \in Versions \cup {NoFile, Garbled}
            /\ sidecar[d] \in Sidecars \cup {NoFile, Garbled}
        BY DEF RunShapes, TypeOK
      <4> QED BY <4>2, <4>3, CleanIsPaired DEF VerdictOf
    <3>4. CASE ~Changed(d)
      BY <2>2, <3>4 DEF Changed
    <3> QED BY <3>3, <3>4
  <2>4. verified' => Paired(md[d], sidecar[d])
    <3>1. CASE verified
      BY <2>1, <3>1 DEF Gate
    <3>2. CASE ~verified
      BY <1>5, <2>3, <3>2 DEF Exit
    <3> QED BY <3>1, <3>2
  <2> QED BY <2>1, <2>2, <2>4
<1>6. CASE \E kind \in RunKinds, scope \in Scopes : StartRun(kind, scope)
  BY <1>1, <1>6, Started
<1>7. CASE \E t \in Targets : Inspect(t) \/ Take(t)
  BY <1>1, <1>7, Inspected, Taken
<1>8. CASE Compare \/ Parse \/ Save
  BY <1>1, <1>8, Compared, Parsed, Saved
<1>9. CASE RunFails
  BY <1>1, <1>9 DEF RunFails, DoctorUnchanged, storeVars
<1> QED
  BY <1>2, <1>3, <1>4, <1>5, <1>6, <1>7, <1>8, <1>9 DEF DoctorNext, DoctorStep

-----------------------------------------------------------------------------

\* The state of the doctor: what a quiet run still has to do, and the gate.
DoctorInv == RunShapes /\ RunTrack

\* A doctor run is of the shape its stage says, and an undisturbed one holds
\* exactly what the files say and has left every document of its scope either
\* pending or as the subcommand promises (cmd/doctor.go, cmd/doctor_heal.go).
THEOREM DoctorInvAlways == DoctorSpec => []DoctorInv
<1>1. DoctorInit => DoctorInv
  BY RunShapesInit, NoRunIsNone DEF DoctorInit, DoctorInv, RunTrack, Quiet
<1>2. DoctorInv /\ [DoctorNext]_allVars => DoctorInv'
  BY RunShapesStep, RunTrackStep DEF DoctorInv
<1> QED BY <1>1, <1>2, PTL DEF DoctorSpec

\* Every variable of the doctor holds what the code can put there.
THEOREM DoctorTypeCorrect == DoctorSpec => []DoctorTypeOK
<1>1. DoctorInv => DoctorTypeOK
  <2> SUFFICES ASSUME DoctorInv PROVE DoctorTypeOK
    OBVIOUS
  <2>1. CASE run = NoRun
    BY <2>1 DEF DoctorInv, RunShapes, DoctorTypeOK
  <2>2. CASE run \in Runs
    BY <2>2 DEF DoctorInv, RunShapes, DoctorTypeOK, Runs
  <2> QED BY <2>1, <2>2 DEF DoctorInv, RunShapes
<1> QED BY <1>1, DoctorInvAlways, PTL

\* The end of an undisturbed run: nothing is pending.
LEMMA AtExit ==
  ASSUME DoctorInv, NEW kind, NEW scope, QuietExit(kind, scope), NEW d \in Docs
  PROVE  /\ run.kind = kind /\ run.scope = scope
         /\ Tracks(d) /\ ~Pending(d)
<1>1. run \in Runs /\ run.stage = "choose" /\ run.todo = {} /\ run.quiet
      /\ run.kind = kind /\ run.scope = scope
  BY NoRunIsNone DEF QuietExit, Exit, DoctorInv
<1> QED BY <1>1 DEF DoctorInv, RunTrack, Quiet, Pending

\* A heal that exits with 0 leaves no document of its scope with a tampered or a
\* missing sidecar, envelopes among them or not, where the schema has no scalar
\* virtual field (with one, heal writes sidecars that its own check rejects:
\* cmd/doctor_heal.go).
THEOREM HealAlwaysConverges ==
  ASSUME ~ScalarVirtuals
  PROVE  DoctorSpec => HealConverges
<1> DEFINE A ==
      \A kind \in {"heal", "heal_ack"}, scope \in Scopes :
        (QuietExit(kind, scope) /\ run.found = {}) =>
          \A d \in Docs : Covers(scope, d) =>
            VerdictOf(d) \notin {"tamper", "missing-sidecar"}
<1>1. DoctorInv /\ [DoctorNext]_allVars => A
  <2> SUFFICES ASSUME DoctorInv,
                      NEW kind \in {"heal", "heal_ack"}, NEW scope \in Scopes,
                      QuietExit(kind, scope), run.found = {}, NEW d \in Docs,
                      Covers(scope, d)
               PROVE  VerdictOf(d) \notin {"tamper", "missing-sidecar"}
    OBVIOUS
  <2>1. HealTrack(d) /\ ~Pending(d) /\ run.kind = kind /\ run.scope = scope
    BY AtExit DEF Tracks
  <2> QED BY <2>1 DEF HealTrack, Healed, Heals
<1>2. DoctorInv /\ [DoctorNext]_allVars => [A]_allVars
  BY <1>1
<1> HIDE DEF A
<1>3. DoctorSpec => [][A]_allVars
  BY <1>2, DoctorInvAlways, PTL DEF DoctorSpec
<1> QED BY <1>3 DEF A, HealConverges

\* A sign or a fix that ends leaves every document of its scope with a sidecar
\* computed from it, and none that fails the check but envelopes, which fail it
\* whatever their sidecar (cmd/doctor.go).
THEOREM SignAlwaysConverges == DoctorSpec => SignConverges
<1> DEFINE A ==
      \A kind \in {"fix", "sign"}, scope \in Scopes :
        QuietExit(kind, scope) =>
          \A d \in Docs : (Covers(scope, d) /\ md[d] # NoFile) =>
            /\ Paired(md[d], sidecar[d])
            /\ VerdictOf(d) = "clean" \/ IsEnvelopePrefix(md[d])
<1>1. DoctorInv /\ [DoctorNext]_allVars => A
  <2> SUFFICES ASSUME DoctorInv,
                      NEW kind \in {"fix", "sign"}, NEW scope \in Scopes,
                      QuietExit(kind, scope), NEW d \in Docs,
                      Covers(scope, d), md[d] # NoFile
               PROVE  Signed(d)
    BY DEF Signed
  <2>1. SignTrack(d) /\ ~Pending(d) /\ run.kind = kind /\ run.scope = scope
    BY AtExit DEF Tracks
  <2> QED BY <2>1 DEF SignTrack
<1>2. DoctorInv /\ [DoctorNext]_allVars => [A]_allVars
  BY <1>1
<1> HIDE DEF A
<1>3. DoctorSpec => [][A]_allVars
  BY <1>2, DoctorInvAlways, PTL DEF DoctorSpec
<1> QED BY <1>3 DEF A, SignConverges

\* Without --i-meant-it, heal writes a sidecar only where none is: it replaces
\* no evidence of an edit outside the tool (cmd/doctor_heal.go).
THEOREM UnackedHealAlwaysKeepsEvidence == DoctorSpec => UnackedHealKeepsEvidence
<1> DEFINE A ==
      (Save /\ run.kind = "heal" /\ run.quiet) => sidecar[run.at[1]] = NoFile
<1>1. DoctorInv /\ [DoctorNext]_allVars => A
  <2> SUFFICES ASSUME DoctorInv, Save, run.kind = "heal", run.quiet
               PROVE  sidecar[run.at[1]] = NoFile
    OBVIOUS
  <2>1. RunShapes /\ RunTrack
    BY DEF DoctorInv
  <2>2. run \in Runs /\ run.stage = "save" /\ run.at \in Targets /\ run.seen \in Versions
    BY <2>1, Saved
  <2>3. run.seen = MdAt(run.at) /\ SidecarAt(run.at) = NoFile
    BY <2>1, <2>2 DEF RunTrack, Quiet, AtHand
  <2>4. run.at = Doc(run.at[1]) /\ run.at[1] \in Docs
    BY <2>1, <2>2, <2>3, TargetFiles, FilesAssumption
  <2> QED BY <2>3, <2>4, DocTarget
<1>2. DoctorInv /\ [DoctorNext]_allVars => [A]_allVars
  BY <1>1
<1> HIDE DEF A
<1>3. DoctorSpec => [][A]_allVars
  BY <1>2, DoctorInvAlways, PTL DEF DoctorSpec
<1> QED BY <1>3 DEF A, UnackedHealKeepsEvidence

\* An undisturbed doctor check lists exactly the documents of its scope that
\* drift and the envelopes among them, each for what is wrong with it, whatever
\* order it takes them in (cmd/doctor.go, checkOneDoc).
THEOREM CheckIsAlwaysExact == DoctorSpec => CheckIsExact
<1> DEFINE A ==
      \A scope \in Scopes :
        QuietExit("check", scope) =>
          {r \in run.found : r[1][2] = "doc"} =
            {<<Doc(d), VerdictOf(d)>> :
               d \in {c \in Docs : /\ Covers(scope, c) /\ Drifting(c)
                                   /\ scope = "all" => md[c] # NoFile}}
<1>1. DoctorInv /\ [DoctorNext]_allVars => A
  <2> SUFFICES ASSUME DoctorInv, NEW scope \in Scopes, QuietExit("check", scope)
               PROVE  {r \in run.found : r[1][2] = "doc"} =
                        {<<Doc(d), VerdictOf(d)>> :
                           d \in {c \in Docs : /\ Covers(scope, c) /\ Drifting(c)
                                               /\ scope = "all" => md[c] # NoFile}}
    OBVIOUS
  <2> DEFINE Drifts == {c \in Docs : /\ Covers(scope, c) /\ Drifting(c)
                                     /\ scope = "all" => md[c] # NoFile}
  <2>1. ASSUME NEW d \in Docs
        PROVE  /\ Found(d) <=> d \in Drifts
               /\ \A v \in Kinds : Listed(d, v) => v = VerdictOf(d)
    <3>1. CheckTrack(d) /\ ~Pending(d) /\ run.kind = "check" /\ run.scope = scope
      BY AtExit DEF Tracks
    <3> QED BY <3>1 DEF CheckTrack, Meets
  <2>2. run.found \subseteq Targets \X Kinds
    BY NoRunIsNone DEF QuietExit, Exit, DoctorInv, Runs
  <2>3. ASSUME NEW r \in run.found, r[1][2] = "doc"
        PROVE  \E d \in Drifts : r = <<Doc(d), VerdictOf(d)>>
    <3>1. PICK d \in Docs, v \in Kinds : r = <<Doc(d), v>>
      BY <2>2, <2>3 DEF Targets, Doc
    <3>2. Listed(d, v) /\ Found(d)
      BY <3>1 DEF Listed, Found
    <3>3. d \in Drifts /\ v = VerdictOf(d)
      BY <2>1, <3>2
    <3> QED BY <3>1, <3>3
  <2>4. ASSUME NEW d \in Drifts
        PROVE  <<Doc(d), VerdictOf(d)>> \in {r \in run.found : r[1][2] = "doc"}
    <3>0. d \in Docs /\ Found(d)
      BY <2>1, <2>4
    <3>1. PICK v \in Kinds : Listed(d, v)
      BY <3>0 DEF Found
    <3>2. v = VerdictOf(d) /\ <<Doc(d), v>> \in run.found
      BY <2>1, <3>0, <3>1 DEF Listed
    <3>3. <<Doc(d), v>>[1][2] = "doc"
      BY DEF Doc
    <3> QED BY <3>2, <3>3
  <2> QED BY <2>3, <2>4
<1>2. DoctorInv /\ [DoctorNext]_allVars => [A]_allVars
  BY <1>1
<1> QED BY <1>2, DoctorInvAlways, PTL DEF DoctorSpec, CheckIsExact

\* While every commit followed a clean check of the uncommitted changes, every
\* document in HEAD has a sidecar computed from it.  git must track some file
\* of docs_dir: of an untracked directory git status lists no file, and the
\* check of what it lists is clean (integrity/gitscope.go).
THEOREM HeadAlwaysVerified ==
  ASSUME DirTracked
  PROVE  DoctorSpec => []HeadVerified
<1>1. DoctorInit => Gate
  <2> SUFFICES ASSUME DoctorInit, NEW d \in Docs
               PROVE  /\ Paired(head[d].md, head[d].sidecar)
                      /\ ~verified
    BY DEF Gate
  <2>1. head[d] = [md |-> NoFile, sidecar |-> NoFile] /\ ~verified
    BY DEF DoctorInit
  <2> QED BY <2>1 DEF Paired
<1>2. DoctorInv /\ Gate /\ [DoctorNext]_allVars => Gate'
  BY GateStep DEF DoctorInv
<1>3. Gate => HeadVerified
  BY DEF Gate, HeadVerified
<1> QED BY <1>1, <1>2, <1>3, DoctorInvAlways, PTL DEF DoctorSpec
=============================================================================
