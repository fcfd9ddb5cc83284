---------------------------- MODULE Migrate_proofs ----------------------------
(***************************************************************************)
(* The registry commands and a migration of data/ beside them, for every    *)
(* set of files, entities, texts and processes and any number of faults:    *)
(* first what each registry command knows of the files and the registry     *)
(* while others change them, then the migration, then the theorems.         *)
(***************************************************************************)
EXTENDS Migrate, TLAPS

\* The stages each command goes through, and what it has got by then.
StagesOf == [create   |-> {"truncate", "write", "sign", "load", "save"},
             sign     |-> {"sign", "load", "save"},
             sign_all |-> {"load", "walk", "sign_each"},
             delete   |-> {"remove", "load", "save"},
             document |-> {"write", "pair"},
             drop_document |-> {"remove", "unpair"}]

HasEntry(c) == c.op \in {"create", "sign"} /\ c.at \in {"load", "save"}

Shaped(c) ==
  /\ c \in Cmds
  /\ c.at \in StagesOf[c.op]
  /\ IF c.op = "sign_all" THEN c.file = NoFile ELSE c.file \in Files
  /\ c.at \notin {"walk", "sign_each"} => c.found = {}
  /\ c.at \in {"walk", "sign_each", "save"} => c.reg \in Registries
  /\ HasEntry(c) => c.entry \in Texts
  /\ c.at = "sign_each" => c.todo = {}

\* What c holds of a file that nobody else has touched is still so, the files
\* being d, the sidecars s and the registry r.  Open: nobody has claimed f.
Open(f, s, r) == r[f] = NoEntry /\ ~(f \in UnderSchema /\ s[f] # NoFile)

SeesFile(c, f, d, s, r) ==
  /\ (HasEntry(c) /\ f = c.file) => d[f] = c.entry
  /\ c.at = "save" => c.reg[f] = r[f]
  /\ c.at \in {"walk", "sign_each"} =>
       /\ f \in c.todo => c.reg[f] = r[f] /\ f \notin c.found
       /\ f \in c.found => c.reg[f] = r[f] /\ Open(f, s, r)
       /\ f \notin c.todo \cup c.found =>
            c.reg[f] = IF Open(f, s, r) /\ d[f] \in Texts THEN d[f] ELSE r[f]

Sees(c, d, s, r) == \A f \in Files \ c.touched : SeesFile(c, f, d, s, r)

\* The inductive invariant.
Sound(c, d, s, r) == c = NoCmd \/ (Shaped(c) /\ Sees(c, d, s, r))
CmdsInv == \A p \in Procs : Sound(cmd[p], disk, sidecar, registry)
UntrackedInv == UntrackedTypeOK /\ CmdsInv /\ EntriesVerify

\* Outside fs nothing happens to a file or its entries.
Spares(fs) ==
  \A f \in Files \ fs :
    disk'[f] = disk[f] /\ registry'[f] = registry[f] /\ sidecar'[f] = sidecar[f]

\* c when others have touched the files fs.
Told(c, fs) == [c EXCEPT !.touched = @ \cup fs]

-----------------------------------------------------------------------------

\* A command that is told of every change still sees the rest rightly.
LEMMA ToldSees ==
  ASSUME NEW c, Shaped(c), Sees(c, disk, sidecar, registry),
         NEW fs \in SUBSET Files, Spares(fs)
  PROVE  Shaped(Told(c, fs)) /\ Sees(Told(c, fs), disk', sidecar', registry')
<1>. DEFINE d == Told(c, fs)
<1>1. /\ d.op = c.op /\ d.file = c.file /\ d.text = c.text /\ d.at = c.at
      /\ d.entry = c.entry /\ d.reg = c.reg /\ d.todo = c.todo /\ d.found = c.found
      /\ d.touched = c.touched \cup fs
  BY DEF Told, Shaped, Cmds
<1>2. d \in Cmds
  BY DEF Told, Shaped, Cmds
<1>3. Shaped(d)
  BY <1>1, <1>2 DEF Shaped, HasEntry
<1>4. ASSUME NEW f \in Files \ (c.touched \cup fs)
      PROVE  SeesFile(d, f, disk', sidecar', registry')
  <2>1. disk'[f] = disk[f] /\ registry'[f] = registry[f] /\ sidecar'[f] = sidecar[f]
    BY DEF Spares
  <2>2. SeesFile(c, f, disk, sidecar, registry)
    BY DEF Sees
  <2>. HIDE DEF d
  <2>. QED
    BY <1>1, <2>1, <2>2 DEF SeesFile, HasEntry, Open
<1>. HIDE DEF d
<1>5. Sees(d, disk', sidecar', registry')
  BY <1>1, <1>4 DEF Sees
<1>. QED
  BY <1>3, <1>5 DEF d

\* One command steps, the others are told.
LEMMA StepSound ==
  ASSUME UntrackedTypeOK, CmdsInv, NEW p \in Procs, NEW c, NEW fs \in SUBSET Files,
         Step(p, c, fs), Spares(fs), Sound(c, disk', sidecar', registry')
  PROVE  CmdsInv' /\ cmd' \in [Procs -> Cmds \cup {NoCmd}]
<1>1. ASSUME NEW q \in Procs
      PROVE  Sound(cmd'[q], disk', sidecar', registry')
  <2>1. CASE q = p
    BY <2>1 DEF Step
  <2>2. CASE q # p /\ cmd[q] = NoCmd
    BY <2>2 DEF Step, Sound
  <2>3. CASE q # p /\ cmd[q] # NoCmd
    <3>1. cmd'[q] = Told(cmd[q], fs)
      BY <2>3 DEF Step, Told
    <3>. QED
      BY <2>3, <3>1, ToldSees DEF CmdsInv, Sound
  <2>. QED
    BY <2>1, <2>2, <2>3
<1>2. CmdsInv'
  BY <1>1 DEF CmdsInv
<1>3. \A q \in Procs : cmd'[q] \in Cmds \cup {NoCmd}
  BY <1>1 DEF Sound, Shaped
<1>4. cmd' = [q \in Procs |-> cmd'[q]]
  BY DEF Step
<1>. QED
  BY <1>2, <1>3, <1>4

\* Nobody steps, and every command is told.
LEMMA AllTold ==
  ASSUME UntrackedTypeOK, CmdsInv, NEW fs \in SUBSET Files, Spares(fs),
         cmd' = [q \in Procs |-> IF cmd[q] = NoCmd THEN NoCmd
                                 ELSE [cmd[q] EXCEPT !.touched = @ \cup fs]]
  PROVE  CmdsInv' /\ cmd' \in [Procs -> Cmds \cup {NoCmd}]
<1>1. ASSUME NEW q \in Procs
      PROVE  Sound(cmd'[q], disk', sidecar', registry')
  <2>1. CASE cmd[q] = NoCmd
    BY <2>1 DEF Sound
  <2>2. CASE cmd[q] # NoCmd
    <3>1. cmd'[q] = Told(cmd[q], fs)
      BY <2>2 DEF Told
    <3>. QED
      BY <2>2, <3>1, ToldSees DEF CmdsInv, Sound
  <2>. QED
    BY <2>1, <2>2
<1>2. CmdsInv'
  BY <1>1 DEF CmdsInv
<1>3. \A q \in Procs : cmd'[q] \in Cmds \cup {NoCmd}
  BY <1>1 DEF Sound, Shaped
<1>4. cmd' = [q \in Procs |-> cmd'[q]]
  OBVIOUS
<1>. QED
  BY <1>2, <1>3, <1>4

-----------------------------------------------------------------------------

\* c has changed f and not yet its entry.
InMidst(c, f) == /\ c # NoCmd
                 /\ c.file = f
                 /\ c.op \in TwoStep
                 /\ c.at # FirstStage(c.op)

LEMMA OthersAreInMidst ==
  ASSUME UntrackedTypeOK, NEW p \in Procs, NEW q \in Procs, q # p, NEW c,
         NEW fs \in SUBSET Files, Step(p, c, fs), NEW f
  PROVE  Changing(q, f)' <=> Changing(q, f)
<1>1. CASE cmd[q] = NoCmd
  BY <1>1 DEF Step, Changing
<1>2. CASE cmd[q] # NoCmd
  <2>1. cmd[q] \in Cmds
    BY <1>2 DEF UntrackedTypeOK
  <2>2. cmd'[q] = Told(cmd[q], fs)
    BY <1>2 DEF Step, Told
  <2>3. /\ cmd'[q].op = cmd[q].op /\ cmd'[q].at = cmd[q].at /\ cmd'[q].file = cmd[q].file
        /\ cmd'[q] \in Cmds
    BY <2>1, <2>2 DEF Told, Cmds
  <2>4. cmd'[q] # NoCmd
    BY <2>3 DEF Cmds, NoCmd, Ops
  <2>. QED
    BY <1>2, <2>3, <2>4 DEF Changing, FirstStage
<1>. QED
  BY <1>1, <1>2

\* A step keeps EntriesVerify if each file is excused, is right, or is as it was.
LEMMA VerifyStep ==
  ASSUME UntrackedTypeOK, EntriesVerify, NEW p \in Procs, NEW c,
         NEW fs \in SUBSET Files, Step(p, c, fs),
         \A f \in Files : \/ f \in loose' \/ InMidst(c, f)
                          \/ registry'[f] = NoEntry \/ disk'[f] = registry'[f]
                          \/ /\ disk'[f] = disk[f] /\ registry'[f] = registry[f]
                             /\ f \notin loose /\ ~Changing(p, f)
  PROVE  EntriesVerify'
<1>. SUFFICES ASSUME NEW f \in Files, registry'[f] # NoEntry, f \notin loose',
                     \A q \in Procs : ~Changing(q, f)'
              PROVE  disk'[f] = registry'[f]
  BY DEF EntriesVerify
<1>1. \A q \in Procs : q # p => ~Changing(q, f)
  BY OthersAreInMidst
<1>2. ~InMidst(c, f)
  <2>1. cmd'[p] = c
    BY DEF Step
  <2>. QED
    BY <2>1 DEF Changing, InMidst
<1>. QED
  BY <1>1, <1>2 DEF EntriesVerify

-----------------------------------------------------------------------------
\* The actions of a command.

\* What an active command is made of.
LEMMA Active ==
  ASSUME CmdsInv, NEW p \in Procs, cmd[p] # NoCmd
  PROVE  Shaped(cmd[p]) /\ Sees(cmd[p], disk, sidecar, registry)
BY DEF CmdsInv, Sound

LEMMA StartKeeps ==
  ASSUME UntrackedInv, NEW p \in Procs, NEW r \in Requests, Start(p, r)
  PROVE  UntrackedInv'
<1>. DEFINE c == [op |-> r[1], file |-> r[2], text |-> r[3], at |-> FirstStage(r[1]),
                  entry |-> NoEntry, reg |-> NoEntry, todo |-> {},
                  found |-> {}, touched |-> {}]
<1>1. Step(p, c, {}) /\ cmd[p] = NoCmd
  BY DEF Start
<1>2. Shaped(c) /\ c.at \notin {"save", "walk", "sign_each"} /\ ~HasEntry(c)
  <2>1. /\ r[1] \in Ops /\ r[2] \in Files \cup {NoFile} /\ r[3] \in Texts
        /\ IF r[1] = "sign_all" THEN r[2] = NoFile ELSE r[2] \in Files
    BY UntrackedAssumption DEF Requests, Ops
  <2>2. /\ FirstStage(r[1]) \in Stages /\ FirstStage(r[1]) \in StagesOf[r[1]]
        /\ FirstStage(r[1]) \notin {"save", "walk", "sign_each"}
        /\ r[1] \in {"create", "sign"} => FirstStage(r[1]) # "load"
    BY <2>1 DEF FirstStage, Ops, Stages, StagesOf
  <2>3. c \in Cmds
    BY <2>1, <2>2 DEF Cmds
  <2>. QED
    BY <2>1, <2>2, <2>3 DEF Shaped, HasEntry
<1>. HIDE DEF c
<1>3. Sees(c, disk', sidecar', registry')
  BY <1>2 DEF Sees, SeesFile
<1>4. UNCHANGED <<disk, sidecar, registry, dataDir, loose, faults>> /\ started' \in 0..MaxStarted
  BY UntrackedAssumption DEF Start, UntrackedInv, UntrackedTypeOK
<1>5. Spares({})
  BY <1>4 DEF Spares
<1>6. CmdsInv' /\ cmd' \in [Procs -> Cmds \cup {NoCmd}]
  BY <1>1, <1>2, <1>3, <1>5, StepSound DEF UntrackedInv, Sound
<1>7. EntriesVerify'
  BY <1>1, <1>4, VerifyStep DEF UntrackedInv, Changing
<1>. QED
  BY <1>4, <1>6, <1>7 DEF UntrackedInv, UntrackedTypeOK

\* A command that goes on to another stage and changes nothing else.
LEMMA GoesOn ==
  ASSUME NEW c \in Cmds, NEW stage \in Stages
  PROVE  /\ [c EXCEPT !.at = stage] \in Cmds
         /\ [c EXCEPT !.at = stage].at = stage
         /\ [c EXCEPT !.at = stage].op = c.op /\ [c EXCEPT !.at = stage].file = c.file
         /\ [c EXCEPT !.at = stage].touched = c.touched
         /\ [c EXCEPT !.at = stage].found = c.found
         /\ [c EXCEPT !.at = stage] # NoCmd
BY DEF Cmds, NoCmd, Ops

\* A command changes its file, the first of its two steps, and is in the midst.
ChangesFile(p, t, stage) ==
  /\ disk' = [disk EXCEPT ![cmd[p].file] = t]
  /\ Go(p, stage, {cmd[p].file})
  /\ UNCHANGED <<sidecar, registry, dataDir, loose, Counters>>

LEMMA ChangeFile ==
  ASSUME UntrackedInv, NEW p \in Procs, cmd[p] # NoCmd, NEW t \in Contents,
         NEW stage \in {"write", "sign", "load", "pair", "unpair"},
         stage \in StagesOf[cmd[p].op], cmd[p].op \in TwoStep,
         cmd[p].op = "create" => stage # "load",
         stage # FirstStage(cmd[p].op),
         ChangesFile(p, t, stage)
  PROVE  UntrackedInv'
<1>. USE DEF ChangesFile
<1>. DEFINE c == [cmd[p] EXCEPT !.at = stage]
            F == cmd[p].file
<1>1. Shaped(cmd[p]) /\ F \in Files
  BY Active DEF UntrackedInv, Shaped, TwoStep
<1>2. /\ c \in Cmds /\ c.at = stage /\ c.op = cmd[p].op /\ c.file = F /\ c # NoCmd
      /\ stage \in Stages /\ c.found = cmd[p].found
  <2>1. stage \in Stages
    BY DEF Stages
  <2>2. cmd[p] \in Cmds
    BY <1>1 DEF Shaped
  <2>. QED
    BY <2>1, <2>2, GoesOn
<1>3. Step(p, c, {F})
  BY DEF Go
<1>. HIDE DEF c
<1>4. Shaped(c) /\ ~HasEntry(c)
  <2>1. cmd[p].at \notin {"walk", "sign_each"}
    BY <1>1 DEF Shaped, StagesOf, TwoStep
  <2>. QED
    BY <1>1, <1>2, <2>1 DEF Shaped, HasEntry, TwoStep
<1>5. Sees(c, disk', sidecar', registry')
  BY <1>2, <1>4 DEF Sees, SeesFile
<1>6. Spares({F}) /\ {F} \in SUBSET Files
  BY <1>1 DEF Spares, UntrackedInv, UntrackedTypeOK
<1>7. CmdsInv' /\ cmd' \in [Procs -> Cmds \cup {NoCmd}]
  BY <1>3, <1>4, <1>5, <1>6, StepSound DEF UntrackedInv, Sound
<1>8. EntriesVerify'
  <2>1. InMidst(c, F)
    BY <1>2 DEF InMidst
  <2>2. \A f \in Files : f # F => ~Changing(p, f) /\ disk'[f] = disk[f]
    BY DEF Changing, UntrackedInv, UntrackedTypeOK
  <2>3. \A f \in Files : \/ f \in loose' \/ InMidst(c, f)
                         \/ /\ disk'[f] = disk[f] /\ registry'[f] = registry[f]
                            /\ f \notin loose /\ ~Changing(p, f)
    BY <2>1, <2>2
  <2>. QED
    BY <1>3, <1>6, <2>3, VerifyStep DEF UntrackedInv
<1>9. disk' \in [Files -> Contents]
  BY DEF UntrackedInv, UntrackedTypeOK
<1>. QED
  BY <1>7, <1>8, <1>9 DEF UntrackedInv, UntrackedTypeOK, Counters

LEMMA TruncateKeeps ==
  ASSUME UntrackedInv, NEW p \in Procs, Truncate(p)
  PROVE  UntrackedInv'
<1>1. cmd[p] # NoCmd /\ cmd[p].at = "truncate"
  BY DEF Truncate, At
<1>2. cmd[p].op = "create" /\ cmd[p].op \in TwoStep
  BY <1>1, Active DEF UntrackedInv, Shaped, StagesOf, Cmds, Ops, TwoStep
<1>3. "write" \in StagesOf[cmd[p].op] /\ "write" # FirstStage(cmd[p].op)
  BY <1>2 DEF StagesOf, FirstStage
<1>4. ChangesFile(p, Blank, "write") /\ Blank \in Contents
  BY UntrackedAssumption DEF Truncate, ChangesFile, Contents
<1>. QED
  BY <1>1, <1>2, <1>3, <1>4, ChangeFile

LEMMA WriteKeeps ==
  ASSUME UntrackedInv, NEW p \in Procs, Write(p)
  PROVE  UntrackedInv'
<1>. DEFINE stage == IF cmd[p].op = "document" THEN "pair" ELSE "sign"
<1>1. cmd[p] # NoCmd /\ cmd[p].at = "write"
  BY DEF Write, At
<1>2. /\ cmd[p].op \in {"create", "document"} /\ cmd[p].op \in TwoStep
      /\ cmd[p].text \in Contents
  BY <1>1, Active DEF UntrackedInv, Shaped, StagesOf, Cmds, Ops, Contents, TwoStep
<1>3. /\ stage \in StagesOf[cmd[p].op] /\ stage # FirstStage(cmd[p].op)
      /\ stage \in {"sign", "pair"}
  BY <1>2 DEF StagesOf, FirstStage
<1>4. ChangesFile(p, cmd[p].text, stage)
  BY DEF Write, ChangesFile
<1>. HIDE DEF stage
<1>. QED
  BY <1>1, <1>2, <1>3, <1>4, ChangeFile

LEMMA RemoveFileKeeps ==
  ASSUME UntrackedInv, NEW p \in Procs, RemoveFile(p)
  PROVE  UntrackedInv'
<1>1. cmd[p] # NoCmd /\ cmd[p].at = "remove"
  BY DEF RemoveFile, At
<1>2. cmd[p].op = "delete" /\ cmd[p].op \in TwoStep
  BY DEF RemoveFile, TwoStep
<1>3. "load" \in StagesOf[cmd[p].op] /\ "load" # FirstStage(cmd[p].op)
  BY <1>2 DEF StagesOf, FirstStage
<1>4. ChangesFile(p, NoFile, "load") /\ NoFile \in Contents
  BY DEF RemoveFile, ChangesFile, Contents
<1>. QED
  BY <1>1, <1>2, <1>3, <1>4, ChangeFile

LEMMA RemoveDocumentKeeps ==
  ASSUME UntrackedInv, NEW p \in Procs, RemoveDocument(p)
  PROVE  UntrackedInv'
<1>1. cmd[p] # NoCmd /\ cmd[p].at = "remove"
  BY DEF RemoveDocument, At
<1>2. cmd[p].op = "drop_document" /\ cmd[p].op \in TwoStep
  BY DEF RemoveDocument, TwoStep
<1>3. "unpair" \in StagesOf[cmd[p].op] /\ "unpair" # FirstStage(cmd[p].op)
  BY <1>2 DEF StagesOf, FirstStage
<1>4. ChangesFile(p, NoFile, "unpair") /\ NoFile \in Contents
  BY DEF RemoveDocument, ChangesFile, Contents
<1>. QED
  BY <1>1, <1>2, <1>3, <1>4, ChangeFile

\* A command that ends leaves the files it is in the midst of in doubt.
LEMMA EndKeeps ==
  ASSUME UntrackedTypeOK, CmdsInv, EntriesVerify, NEW p \in Procs, cmd[p] # NoCmd,
         Fail(p), UNCHANGED <<disk, sidecar, registry>>
  PROVE  /\ CmdsInv' /\ cmd' \in [Procs -> Cmds \cup {NoCmd}]
         /\ EntriesVerify' /\ loose' \subseteq Files
<1>1. Step(p, NoCmd, {}) /\ loose' = loose \cup InDoubt(p)
  BY DEF Fail
<1>2. Shaped(cmd[p])
  BY Active
<1>3. \A f \in Files : Changing(p, f) => f \in InDoubt(p)
  BY DEF Changing, InDoubt
<1>4. InDoubt(p) \subseteq Files
  BY <1>2 DEF InDoubt, Shaped, TwoStep
<1>5. Spares({})
  BY DEF Spares
<1>6. CmdsInv' /\ cmd' \in [Procs -> Cmds \cup {NoCmd}]
  BY <1>1, <1>5, StepSound DEF Sound
<1>7. EntriesVerify'
  BY <1>1, <1>3, VerifyStep
<1>. QED
  BY <1>1, <1>4, <1>6, <1>7 DEF UntrackedTypeOK

\* The store's second step: c.file's sidecar becomes x.
LEMMA SecondFile ==
  ASSUME UntrackedInv, NEW p \in Procs, cmd[p] # NoCmd, NEW x \in Sidecars \cup {NoFile},
         cmd[p].file \in Files, sidecar' = [sidecar EXCEPT ![cmd[p].file] = x],
         Step(p, NoCmd, {cmd[p].file}), loose' = loose \cup {cmd[p].file},
         UNCHANGED <<disk, registry, dataDir, started, faults>>
  PROVE  UntrackedInv'
<1>. DEFINE F == cmd[p].file
<1>1. Spares({F})
  BY DEF Spares, UntrackedInv, UntrackedTypeOK
<1>2. CmdsInv' /\ cmd' \in [Procs -> Cmds \cup {NoCmd}]
  BY <1>1, StepSound DEF UntrackedInv, Sound
<1>3. EntriesVerify'
  <2>1. \A f \in Files : f # F => ~Changing(p, f)
    BY DEF Changing
  <2>. QED
    BY <2>1, VerifyStep DEF UntrackedInv
<1>4. sidecar' \in [Files -> Sidecars \cup {NoFile}]
  BY DEF UntrackedInv, UntrackedTypeOK
<1>. QED
  BY <1>2, <1>3, <1>4 DEF UntrackedInv, UntrackedTypeOK

LEMMA PairKeeps ==
  ASSUME UntrackedInv, NEW p \in Procs, Pair(p)
  PROVE  UntrackedInv'
<1>. DEFINE x == [of |-> cmd[p].text, from |-> "store"]
<1>1. cmd[p] # NoCmd /\ cmd[p].at = "pair"
  BY DEF Pair, At
<1>2. cmd[p].file \in Files /\ x \in Sidecars
  BY <1>1, Active DEF UntrackedInv, Shaped, StagesOf, Cmds, Ops, Sidecars
<1>3. /\ sidecar' = [sidecar EXCEPT ![cmd[p].file] = x]
      /\ Step(p, NoCmd, {cmd[p].file}) /\ loose' = loose \cup {cmd[p].file}
      /\ UNCHANGED <<disk, registry, dataDir, started, faults>>
  BY DEF Pair, Counters
<1>. HIDE DEF x
<1>. QED
  BY <1>1, <1>2, <1>3, SecondFile

LEMMA UnpairKeeps ==
  ASSUME UntrackedInv, NEW p \in Procs, Unpair(p)
  PROVE  UntrackedInv'
<1>1. cmd[p] # NoCmd /\ cmd[p].at = "unpair"
  BY DEF Unpair, At
<1>2. cmd[p].file \in Files
  BY <1>1, Active DEF UntrackedInv, Shaped, StagesOf, Cmds, Ops
<1>3. /\ sidecar' = [sidecar EXCEPT ![cmd[p].file] = NoFile]
      /\ Step(p, NoCmd, {cmd[p].file}) /\ loose' = loose \cup {cmd[p].file}
      /\ UNCHANGED <<disk, registry, dataDir, started, faults>>
  BY DEF Unpair, Counters
<1>. QED
  BY <1>1, <1>2, <1>3, SecondFile

LEMMA DocumentAbsentKeeps ==
  ASSUME UntrackedInv, NEW p \in Procs, DocumentAbsent(p)
  PROVE  UntrackedInv'
<1>1. /\ cmd[p] # NoCmd /\ cmd[p].at = FirstStage(cmd[p].op) /\ Step(p, NoCmd, {})
      /\ UNCHANGED <<disk, sidecar, registry, dataDir, loose, started, faults>>
  BY DEF DocumentAbsent, At, FirstStage, Counters
<1>2. Spares({})
  BY <1>1 DEF Spares
<1>3. CmdsInv' /\ cmd' \in [Procs -> Cmds \cup {NoCmd}]
  BY <1>1, <1>2, StepSound DEF UntrackedInv, Sound
<1>4. EntriesVerify'
  <2>1. \A f \in Files : ~Changing(p, f)
    BY <1>1 DEF Changing
  <2>. QED
    BY <1>1, <2>1, VerifyStep DEF UntrackedInv
<1>. QED
  BY <1>1, <1>3, <1>4 DEF UntrackedInv, UntrackedTypeOK

\* A command goes on and touches no file, entry or sidecar.
LEMMA QuietKeeps ==
  ASSUME UntrackedInv, NEW p \in Procs, cmd[p] # NoCmd, NEW c, Step(p, c, {}),
         Shaped(c), Sees(c, disk, sidecar, registry), c.op = cmd[p].op,
         c.file = cmd[p].file, c.at # FirstStage(c.op), c # NoCmd,
         UNCHANGED <<disk, sidecar, registry, dataDir, loose, started, faults>>
  PROVE  UntrackedInv'
<1>1. CmdsInv' /\ cmd' \in [Procs -> Cmds \cup {NoCmd}]
  <2>1. Spares({})
    BY DEF Spares
  <2>. QED
    BY <2>1, StepSound DEF UntrackedInv, Sound
<1>2. EntriesVerify'
  <2>1. \A f \in Files : Changing(p, f) => InMidst(c, f)
    BY DEF Changing, InMidst
  <2>. QED
    BY <2>1, VerifyStep DEF UntrackedInv
<1>. QED
  BY <1>1, <1>2 DEF UntrackedInv, UntrackedTypeOK

LEMMA SignFileKeeps ==
  ASSUME UntrackedInv, NEW p \in Procs, SignFile(p)
  PROVE  UntrackedInv'
<1>1. cmd[p] # NoCmd /\ cmd[p].at = "sign"
  BY DEF SignFile, At
<1>2. /\ Shaped(cmd[p]) /\ cmd[p].op \in {"create", "sign"} /\ cmd[p].file \in Files
      /\ cmd[p] \in Cmds
  BY <1>1, Active DEF UntrackedInv, Shaped, StagesOf, Cmds, Ops
<1>3. CASE disk[cmd[p].file] \in Texts
  <2>. DEFINE c == [cmd[p] EXCEPT !.entry = disk[cmd[p].file], !.at = "load"]
  <2>1. /\ c \in Cmds /\ c # NoCmd /\ c.at = "load" /\ c.op = cmd[p].op
        /\ c.file = cmd[p].file /\ c.entry = disk[cmd[p].file] /\ c.found = cmd[p].found
    BY <1>2, <1>3 DEF Cmds, Stages, Ops, NoCmd
  <2>2. /\ Step(p, c, {})
        /\ UNCHANGED <<disk, sidecar, registry, dataDir, loose, started, faults>>
    BY <1>3 DEF SignFile, Counters
  <2>. HIDE DEF c
  <2>3. Shaped(c) /\ c.at # FirstStage(c.op)
    BY <1>2, <1>3, <2>1 DEF Shaped, StagesOf, FirstStage
  <2>4. Sees(c, disk, sidecar, registry)
    BY <2>1 DEF Sees, SeesFile
  <2>. QED
    BY <1>1, <2>1, <2>2, <2>3, <2>4, QuietKeeps
<1>4. CASE disk[cmd[p].file] \notin Texts
  <2>1. Fail(p) /\ UNCHANGED <<disk, sidecar, registry, dataDir, started, faults>>
    BY <1>4 DEF SignFile, Counters
  <2>. QED
    BY <1>1, <2>1, EndKeeps DEF UntrackedInv, UntrackedTypeOK
<1>. QED
  BY <1>3, <1>4

LEMMA LoadKeeps ==
  ASSUME UntrackedInv, NEW p \in Procs, Load(p)
  PROVE  UntrackedInv'
<1>. DEFINE old == cmd[p]
            c == IF cmd[p].op = "sign_all"
                   THEN [cmd[p] EXCEPT !.reg = registry, !.at = "walk", !.todo = Files]
                   ELSE [cmd[p] EXCEPT !.reg = registry, !.at = "save"]
<1>1. cmd[p] # NoCmd /\ cmd[p].at = "load"
  BY DEF Load, At
<1>2. Shaped(cmd[p]) /\ Sees(cmd[p], disk, sidecar, registry) /\ cmd[p] \in Cmds
  BY <1>1, Active DEF UntrackedInv, Shaped
<1>3. /\ Step(p, c, {})
      /\ UNCHANGED <<disk, sidecar, registry, dataDir, loose, started, faults>>
  BY DEF Load, Counters
<1>4. registry \in Registries
  BY DEF UntrackedInv, UntrackedTypeOK
<1>5. /\ c \in Cmds /\ c # NoCmd /\ c.op = cmd[p].op /\ c.file = cmd[p].file
      /\ c.entry = cmd[p].entry /\ c.reg = registry /\ c.touched = cmd[p].touched
      /\ c.found = cmd[p].found
      /\ c.at = IF cmd[p].op = "sign_all" THEN "walk" ELSE "save"
      /\ c.op = "sign_all" => c.todo = Files
  BY <1>2, <1>4 DEF Cmds, Stages, Ops, NoCmd
<1>. HIDE DEF c
<1>6. cmd[p].op \in {"create", "sign", "sign_all", "delete"}
  BY <1>1, <1>2 DEF Shaped, StagesOf, Cmds, Ops
<1>7. Shaped(c) /\ c.at # FirstStage(c.op)
  BY <1>1, <1>2, <1>4, <1>5, <1>6 DEF Shaped, StagesOf, FirstStage, HasEntry
<1>8. ASSUME NEW f \in Files \ c.touched
      PROVE  SeesFile(c, f, disk, sidecar, registry)
  <2>1. SeesFile(cmd[p], f, disk, sidecar, registry)
    BY <1>2, <1>5 DEF Sees
  <2>2. HasEntry(c) => HasEntry(cmd[p])
    BY <1>1, <1>5 DEF HasEntry
  <2>3. (HasEntry(c) /\ f = c.file) => disk[f] = c.entry
    BY <1>5, <2>1, <2>2 DEF SeesFile
  <2>4. CASE c.op = "sign_all"
    BY <1>1, <1>2, <1>5, <2>3, <2>4 DEF SeesFile, Shaped
  <2>5. CASE c.op # "sign_all"
    BY <1>5, <2>3, <2>5 DEF SeesFile
  <2>. QED
    BY <2>4, <2>5
<1>9. Sees(c, disk, sidecar, registry)
  BY <1>8 DEF Sees
<1>. QED
  BY <1>1, <1>3, <1>5, <1>7, <1>9, QuietKeeps

LEMMA VisitKeeps ==
  ASSUME UntrackedInv, NEW p \in Procs, Visit(p)
  PROVE  UntrackedInv'
<1>. DEFINE old  == cmd[p]
            g    == NextOf(cmd[p].todo)
            todo == cmd[p].todo \ {g}
            hit  == disk[g] # NoFile /\ ClassifyFile(g, cmd[p].reg) = "unregistered"
            c    == [cmd[p] EXCEPT !.todo = todo,
                                   !.found = IF hit THEN @ \cup {g} ELSE @,
                                   !.at = IF todo = {} THEN "sign_each" ELSE @]
<1>1. cmd[p] # NoCmd /\ cmd[p].at = "walk" /\ cmd[p].todo # {}
  BY DEF Visit, At
<1>2. Shaped(cmd[p]) /\ Sees(cmd[p], disk, sidecar, registry) /\ cmd[p] \in Cmds
  BY <1>1, Active DEF UntrackedInv, Shaped
<1>3. Step(p, c, {}) /\ UNCHANGED <<disk, sidecar, registry, dataDir, loose, started, faults>>
  BY DEF Visit, Counters
<1>4. g \in cmd[p].todo /\ g \in Files
  BY <1>1, <1>2 DEF NextOf, Cmds
<1>5. cmd[p].op = "sign_all" /\ cmd[p].reg \in Registries
  BY <1>1, <1>2 DEF Shaped, StagesOf, Cmds, Ops
<1>6. /\ c \in Cmds /\ c # NoCmd /\ c.op = cmd[p].op /\ c.file = cmd[p].file
      /\ c.entry = cmd[p].entry /\ c.reg = cmd[p].reg /\ c.touched = cmd[p].touched
      /\ c.todo = todo /\ c.found = (IF hit THEN cmd[p].found \cup {g} ELSE cmd[p].found)
      /\ c.at = IF todo = {} THEN "sign_each" ELSE "walk"
  BY <1>1, <1>2, <1>4 DEF Cmds, Stages, Ops, NoCmd
<1>. HIDE DEF c
<1>7. Shaped(c) /\ c.at # FirstStage(c.op)
  BY <1>2, <1>5, <1>6 DEF Shaped, StagesOf, FirstStage, HasEntry
<1>8. ASSUME NEW f \in Files \ c.touched
      PROVE  SeesFile(c, f, disk, sidecar, registry)
  <2>1. SeesFile(cmd[p], f, disk, sidecar, registry)
    BY <1>2, <1>6 DEF Sees
  <2>2. ~HasEntry(c)
    BY <1>5, <1>6 DEF HasEntry
  <2>3. CASE f = g /\ hit
    <3>1. Open(g, sidecar, registry)
      BY <1>1, <1>4, <2>1, <2>3 DEF SeesFile, Open, ClassifyFile
    <3>. QED
      BY <1>1, <1>4, <1>6, <2>1, <2>2, <2>3, <3>1 DEF SeesFile
  <2>4. CASE f = g /\ ~hit
    <3>1. ~(Open(g, sidecar, registry) /\ disk[g] \in Texts)
      BY <1>1, <1>4, <2>1, <2>4, UntrackedAssumption DEF SeesFile, Open, ClassifyFile
    <3>. HIDE DEF hit
    <3>. QED
      BY <1>1, <1>4, <1>6, <2>1, <2>2, <2>4, <3>1 DEF SeesFile
  <2>5. CASE f # g
    <3>1. (f \in c.todo <=> f \in cmd[p].todo) /\ (f \in c.found <=> f \in cmd[p].found)
      BY <1>6, <2>5
    <3>. QED
      BY <1>1, <1>6, <2>1, <2>2, <3>1 DEF SeesFile
  <2>. QED
    BY <2>3, <2>4, <2>5
<1>9. Sees(c, disk, sidecar, registry)
  BY <1>8 DEF Sees
<1>. QED
  BY <1>1, <1>3, <1>6, <1>7, <1>9, QuietKeeps

LEMMA SignEachKeeps ==
  ASSUME UntrackedInv, NEW p \in Procs, SignEach(p)
  PROVE  UntrackedInv'
<1>. DEFINE g == NextOf(cmd[p].found)
            c == [cmd[p] EXCEPT !.found = @ \ {g},
                                !.reg[g] = IF disk[g] \in Texts THEN disk[g] ELSE @]
            reg == [cmd[p].reg EXCEPT ![g] = IF disk[g] \in Texts THEN disk[g] ELSE @]
<1>1. cmd[p] # NoCmd /\ cmd[p].at = "sign_each" /\ cmd[p].found # {}
  BY DEF SignEach, At
<1>2. Shaped(cmd[p]) /\ Sees(cmd[p], disk, sidecar, registry) /\ cmd[p] \in Cmds
  BY <1>1, Active DEF UntrackedInv, Shaped
<1>3. Step(p, c, {}) /\ UNCHANGED <<disk, sidecar, registry, dataDir, loose, started, faults>>
  BY DEF SignEach, Counters
<1>4. g \in cmd[p].found /\ g \in Files
  BY <1>1, <1>2 DEF NextOf, Cmds
<1>5. cmd[p].op = "sign_all" /\ cmd[p].reg \in Registries /\ cmd[p].todo = {}
  BY <1>1, <1>2 DEF Shaped, StagesOf, Cmds, Ops
<1>6. /\ reg \in Registries
      /\ \A f \in Files : f # g => reg[f] = cmd[p].reg[f]
      /\ reg[g] = IF disk[g] \in Texts THEN disk[g] ELSE cmd[p].reg[g]
  BY <1>4, <1>5 DEF Registries
<1>7. /\ c \in Cmds /\ c # NoCmd /\ c.op = cmd[p].op /\ c.file = cmd[p].file
      /\ c.entry = cmd[p].entry /\ c.touched = cmd[p].touched /\ c.todo = cmd[p].todo
      /\ c.at = cmd[p].at /\ c.reg = reg /\ c.found = cmd[p].found \ {g}
  <2>. HIDE DEF g
  <2>1. c = [cmd[p] EXCEPT !.found = @ \ {g}, !.reg = reg]
    BY <1>2 DEF Cmds
  <2>. HIDE DEF c, reg
  <2>. QED
    BY <1>2, <1>6, <2>1 DEF Cmds, Ops, NoCmd
<1>. HIDE DEF c, reg
<1>8. Shaped(c) /\ c.at # FirstStage(c.op)
  BY <1>1, <1>2, <1>5, <1>6, <1>7 DEF Shaped, StagesOf, FirstStage, HasEntry
<1>9. ASSUME NEW f \in Files \ c.touched
      PROVE  SeesFile(c, f, disk, sidecar, registry)
  <2>1. SeesFile(cmd[p], f, disk, sidecar, registry)
    BY <1>2, <1>7 DEF Sees
  <2>2. ~HasEntry(c)
    BY <1>5, <1>7 DEF HasEntry
  <2>3. CASE f = g
    BY <1>1, <1>4, <1>5, <1>6, <1>7, <2>1, <2>2, <2>3 DEF SeesFile
  <2>4. CASE f # g
    <3>1. f \in c.found <=> f \in cmd[p].found
      BY <1>7, <2>4
    <3>. QED
      BY <1>1, <1>5, <1>6, <1>7, <2>1, <2>2, <2>4, <3>1 DEF SeesFile
  <2>. QED
    BY <2>3, <2>4
<1>10. Sees(c, disk, sidecar, registry)
  BY <1>9 DEF Sees
<1>. QED
  BY <1>1, <1>3, <1>7, <1>8, <1>10, QuietKeeps

-----------------------------------------------------------------------------
\* A save puts back what the command saw, and what it was asked for.

LEMMA SaveEdits ==
  ASSUME UntrackedInv, NEW p \in Procs, Save(p)
  PROVE  /\ Edited(cmd[p]) \in Registries
         /\ cmd[p].touched \subseteq Files
         /\ cmd[p].op = "sign_all" => cmd[p].file \notin Files
         /\ \A f \in Files \ cmd[p].touched :
              \/ /\ f = cmd[p].file
                 /\ \/ cmd[p].op = "delete" /\ Edited(cmd[p])[f] = NoEntry
                    \/ Edited(cmd[p])[f] = disk[f] /\ disk[f] \in Texts
              \/ f # cmd[p].file /\ Edited(cmd[p])[f] = registry[f]
              \/ Open(f, sidecar, registry) /\ Edited(cmd[p])[f] = disk[f]
         /\ cmd[p].op = "sign_all" =>
              \A f \in Files \ cmd[p].touched :
                Edited(cmd[p])[f] = IF Open(f, sidecar, registry) /\ disk[f] \in Texts
                                      THEN disk[f] ELSE registry[f]
<1>. DEFINE c == cmd[p]
<1>1. c # NoCmd /\ c.at \in {"save", "sign_each"} /\ (c.at = "sign_each" => c.found = {})
  BY DEF Save, At
<1>2. Shaped(c) /\ Sees(c, disk, sidecar, registry) /\ c \in Cmds
  BY <1>1, Active DEF UntrackedInv, Shaped
<1>3. c.op \in {"create", "sign", "sign_all", "delete"} /\ c.reg \in Registries
  BY <1>1, <1>2 DEF Shaped, StagesOf, Cmds, Ops
<1>4. c.touched \subseteq Files
  BY <1>2 DEF Cmds
<1>5. CASE c.op = "sign_all"
  <2>1. c.at = "sign_each" /\ c.todo = {} /\ c.found = {} /\ c.file \notin Files
    BY <1>1, <1>2, <1>5, UntrackedAssumption DEF Shaped, StagesOf
  <2>2. Edited(c) = c.reg
    BY <1>5 DEF Edited
  <2>3. \A f \in Files \ c.touched :
          c.reg[f] = IF Open(f, sidecar, registry) /\ disk[f] \in Texts
                       THEN disk[f] ELSE registry[f]
    BY <1>2, <2>1 DEF Sees, SeesFile
  <2>. QED
    BY <1>3, <1>4, <2>1, <2>2, <2>3
<1>6. CASE c.op # "sign_all"
  <2>1. c.at = "save" /\ c.file \in Files
    BY <1>1, <1>2, <1>3, <1>6 DEF Shaped, StagesOf
  <2>2. \A f \in Files \ c.touched : c.reg[f] = registry[f]
    BY <1>2, <2>1 DEF Sees, SeesFile
  <2>3. CASE c.op = "delete"
    <3>1. Edited(c) = [c.reg EXCEPT ![c.file] = NoEntry]
      BY <2>3 DEF Edited
    <3>. QED
      BY <1>3, <1>4, <1>6, <2>1, <2>2, <2>3, <3>1 DEF Registries
  <2>4. CASE c.op # "delete"
    <3>1. Edited(c) = [c.reg EXCEPT ![c.file] = c.entry]
      BY <1>6, <2>4 DEF Edited
    <3>2. HasEntry(c) /\ c.entry \in Texts
      BY <1>2, <1>3, <1>6, <2>1, <2>4 DEF HasEntry, Shaped
    <3>3. c.file \notin c.touched => disk[c.file] = c.entry
      BY <1>2, <2>1, <3>2 DEF Sees, SeesFile
    <3>. QED
      BY <1>3, <1>4, <1>6, <2>1, <2>2, <3>1, <3>2, <3>3 DEF Registries
  <2>. QED
    BY <2>3, <2>4
<1>. QED
  BY <1>5, <1>6

LEMMA SaveKeeps ==
  ASSUME UntrackedInv, NEW p \in Procs, Save(p)
  PROVE  UntrackedInv'
<1>. DEFINE c == cmd[p]
            changes == {f \in Files : Edited(cmd[p])[f] # registry[f]}
<1>1. /\ registry' = Edited(c) /\ dataDir' = TRUE /\ Step(p, NoCmd, changes)
      /\ loose' = (loose \ (changes \cup {c.file})) \cup c.touched
      /\ UNCHANGED <<disk, sidecar, started, faults>>
  BY DEF Save, Counters
<1>2. Spares(changes) /\ changes \in SUBSET Files
  BY <1>1 DEF Spares
<1>3. CmdsInv' /\ cmd' \in [Procs -> Cmds \cup {NoCmd}]
  BY <1>1, <1>2, StepSound DEF UntrackedInv, Sound
<1>4. EntriesVerify'
  <2>1. \A f \in Files : f # c.file => ~Changing(p, f)
    BY DEF Changing
  <2>2. ASSUME NEW f \in Files
        PROVE  \/ f \in loose' \/ registry'[f] = NoEntry \/ disk'[f] = registry'[f]
               \/ /\ disk'[f] = disk[f] /\ registry'[f] = registry[f]
                  /\ f \notin loose /\ ~Changing(p, f)
    <3>1. CASE f \in c.touched
      BY <1>1, <3>1
    <3>2. CASE f \notin c.touched
      <4>1. \/ Edited(c)[f] \in {NoEntry, disk[f]}
            \/ f # c.file /\ Edited(c)[f] = registry[f]
        BY <3>2, SaveEdits
      <4>. QED
        BY <1>1, <2>1, <4>1
    <3>. QED
      BY <3>1, <3>2
  <2>. QED
    BY <1>1, <1>2, <2>2, VerifyStep DEF UntrackedInv
<1>5. registry' \in Registries /\ loose' \subseteq Files /\ dataDir' \in BOOLEAN
  <2>1. c.touched \subseteq Files /\ Edited(c) \in Registries
    BY SaveEdits
  <2>. QED
    BY <1>1, <2>1 DEF UntrackedInv, UntrackedTypeOK
<1>. QED
  BY <1>1, <1>3, <1>4, <1>5 DEF UntrackedInv, UntrackedTypeOK

LEMMA CommandFailsKeeps ==
  ASSUME UntrackedInv, NEW p \in Procs, CommandFails(p)
  PROVE  UntrackedInv'
<1>1. /\ cmd[p] # NoCmd /\ Fail(p) /\ faults' \in 0..MaxFaults
      /\ UNCHANGED <<disk, sidecar, registry, dataDir, started>>
  BY UntrackedAssumption DEF CommandFails, UntrackedInv, UntrackedTypeOK
<1>. QED
  BY <1>1, EndKeeps DEF UntrackedInv, UntrackedTypeOK

\* Being told of a change leaves nobody less in the midst of its own.
LEMMA ToldInMidst ==
  ASSUME UntrackedTypeOK, NEW p \in Procs, NEW fs \in SUBSET Files,
         cmd' = [q \in Procs |-> IF cmd[q] = NoCmd THEN NoCmd
                                 ELSE [cmd[q] EXCEPT !.touched = @ \cup fs]],
         NEW f
  PROVE  Changing(p, f)' <=> Changing(p, f)
<1>1. CASE cmd[p] = NoCmd
  BY <1>1 DEF Changing
<1>2. CASE cmd[p] # NoCmd
  <2>1. cmd[p] \in Cmds
    BY <1>2 DEF UntrackedTypeOK
  <2>2. cmd'[p] = Told(cmd[p], fs)
    BY <1>2 DEF Told
  <2>3. /\ cmd'[p].op = cmd[p].op /\ cmd'[p].at = cmd[p].at /\ cmd'[p].file = cmd[p].file
        /\ cmd'[p] \in Cmds
    BY <2>1, <2>2 DEF Told, Cmds
  <2>4. cmd'[p] # NoCmd
    BY <2>3 DEF Cmds, NoCmd, Ops
  <2>. QED
    BY <1>2, <2>3, <2>4 DEF Changing, FirstStage
<1>. QED
  BY <1>1, <1>2

LEMMA HandEditKeeps ==
  ASSUME UntrackedInv, NEW g \in Files, NEW t \in Contents, HandEdit(g, t)
  PROVE  UntrackedInv'
<1>1. /\ disk' = [disk EXCEPT ![g] = t] /\ loose' = loose \cup {g}
      /\ cmd' = [q \in Procs |-> IF cmd[q] = NoCmd THEN NoCmd
                                 ELSE [cmd[q] EXCEPT !.touched = @ \cup {g}]]
      /\ UNCHANGED <<sidecar, registry, dataDir, started>>
      /\ faults' \in 0..MaxFaults
  BY UntrackedAssumption DEF HandEdit, UntrackedInv, UntrackedTypeOK
<1>2. Spares({g}) /\ {g} \in SUBSET Files
  BY <1>1 DEF Spares, UntrackedInv, UntrackedTypeOK
<1>3. CmdsInv' /\ cmd' \in [Procs -> Cmds \cup {NoCmd}]
  BY <1>1, <1>2, AllTold DEF UntrackedInv
<1>4. EntriesVerify'
  <2>. SUFFICES ASSUME NEW f \in Files, registry'[f] # NoEntry, f \notin loose',
                       \A q \in Procs : ~Changing(q, f)'
                PROVE  disk'[f] = registry'[f]
    BY DEF EntriesVerify
  <2>1. f # g /\ f \notin loose
    BY <1>1
  <2>2. \A q \in Procs : ~Changing(q, f)
    BY <1>1, <1>2, ToldInMidst DEF UntrackedInv
  <2>3. disk'[f] = disk[f]
    BY <1>1, <2>1 DEF UntrackedInv, UntrackedTypeOK
  <2>. QED
    BY <1>1, <2>1, <2>2, <2>3 DEF UntrackedInv, EntriesVerify
<1>. QED
  BY <1>1, <1>3, <1>4 DEF UntrackedInv, UntrackedTypeOK

-----------------------------------------------------------------------------

\* No step of a command, of the document store or of an editor breaks it.
LEMMA UntrackedKeeps ==
  ASSUME UntrackedInv, UntrackedNext
  PROVE  UntrackedInv'
<1>1. ASSUME NEW p \in Procs, NEW r \in Requests, Start(p, r) PROVE UntrackedInv'
  BY <1>1, StartKeeps
<1>2. ASSUME NEW p \in Procs, Truncate(p) PROVE UntrackedInv'
  BY <1>2, TruncateKeeps
<1>3. ASSUME NEW p \in Procs, Write(p) PROVE UntrackedInv'
  BY <1>3, WriteKeeps
<1>4. ASSUME NEW p \in Procs, Pair(p) PROVE UntrackedInv'
  BY <1>4, PairKeeps
<1>5. ASSUME NEW p \in Procs, RemoveFile(p) PROVE UntrackedInv'
  BY <1>5, RemoveFileKeeps
<1>6. ASSUME NEW p \in Procs, SignFile(p) PROVE UntrackedInv'
  BY <1>6, SignFileKeeps
<1>7. ASSUME NEW p \in Procs, Load(p) PROVE UntrackedInv'
  BY <1>7, LoadKeeps
<1>8. ASSUME NEW p \in Procs, Visit(p) PROVE UntrackedInv'
  BY <1>8, VisitKeeps
<1>9. ASSUME NEW p \in Procs, SignEach(p) PROVE UntrackedInv'
  BY <1>9, SignEachKeeps
<1>10. ASSUME NEW p \in Procs, Save(p) PROVE UntrackedInv'
  BY <1>10, SaveKeeps
<1>11. ASSUME NEW p \in Procs, CommandFails(p) PROVE UntrackedInv'
  BY <1>11, CommandFailsKeeps
<1>12. ASSUME NEW f \in Files, NEW t \in Contents \ {Blank}, HandEdit(f, t)
       PROVE  UntrackedInv'
  BY <1>12, HandEditKeeps
<1>13. ASSUME NEW p \in Procs, RemoveDocument(p) PROVE UntrackedInv'
  BY <1>13, RemoveDocumentKeeps
<1>14. ASSUME NEW p \in Procs, Unpair(p) PROVE UntrackedInv'
  BY <1>14, UnpairKeeps
<1>15. ASSUME NEW p \in Procs, DocumentAbsent(p) PROVE UntrackedInv'
  BY <1>15, DocumentAbsentKeeps
<1>. QED
  BY <1>1, <1>2, <1>3, <1>4, <1>5, <1>6, <1>7, <1>8, <1>9, <1>10, <1>11, <1>12, <1>13,
     <1>14, <1>15
     DEF UntrackedNext

LEMMA UntrackedStarts ==
  ASSUME UntrackedInit
  PROVE  UntrackedInv
<1>1. UntrackedTypeOK
  BY UntrackedAssumption DEF UntrackedInit, UntrackedTypeOK, Contents, Registries
<1>2. CmdsInv /\ EntriesVerify
  BY DEF UntrackedInit, CmdsInv, Sound, EntriesVerify
<1>. QED
  BY <1>1, <1>2 DEF UntrackedInv

-----------------------------------------------------------------------------

\* What the run m, on the entity m.ent, has still to do for the document f.
Pending(m, e, f) ==
  /\ e = m.ent /\ m.stage \in {"manifest", "docs", "save"}
  /\ f \in m.docs \/ (m.stage = "save" /\ f = m.doc)

RunShape(m) ==
  /\ m \in MigRuns
  /\ m.stage \in {"manifest", "docs", "save"} => m.ent \in Entities
  /\ m.stage = "save" => ~m.dry /\ m.doc \in Files /\ m.new \in Sidecars
  /\ m.stage = "wipe" => ~m.dry /\ m.todo = {}

\* The documents of the entities that m has been through, and whose records are
\* in l, have sidecars.
Converted(m, s, l) ==
  \A e \in m.named \ m.todo : <<"records", e>> \in l =>
    \A f \in Recorded(e) \ (Unfiled \cup m.touched) : s[f] # NoFile \/ Pending(m, e, f)

\* They hold what the manifest said, in a run that found all of data/.
FromV1(t) == [of |-> t, from |-> "v1"]
Faithful(m, s, v) ==
  /\ m.stage \in {"docs", "save"} => m.man
  /\ (m.stage = "save" /\ v[m.doc] # NoEntry) => m.new = FromV1(v[m.doc])
  /\ \A e \in m.named \ m.todo : \A f \in Recorded(e) \ (Unfiled \cup m.touched) :
       v[f] # NoEntry => s[f] = FromV1(v[f]) \/ Pending(m, e, f)

\* The inductive invariant.
Pristine == ~completed /\ ~cut
MigInv ==
  /\ legacy \subseteq LegacyFiles /\ v1 \in [Files -> Texts \cup {NoEntry}]
  /\ completed \in BOOLEAN /\ cut \in BOOLEAN
  /\ named \subseteq Entities
  /\ mig = NoRun \/ RunShape(mig)
  /\ (mig # NoRun /\ ~mig.dry) => Converted(mig, sidecar, legacy)
  /\ (Pristine /\ mig # NoRun /\ ~mig.dry) => Faithful(mig, sidecar, v1)
  /\ (Pristine /\ (mig = NoRun \/ mig.stage # "wipe")) => legacy = LegacyFiles
MigrateInv == UntrackedInv /\ MigInv

-----------------------------------------------------------------------------
\* What the steps of a migration do to the registry commands.

\* Nothing that a command reads is changed.
LEMMA AsideKeeps ==
  ASSUME UntrackedInv, UNCHANGED <<disk, sidecar, registry, cmd, loose>>,
         dataDir' \in BOOLEAN, started' \in 0..MaxStarted, faults' \in 0..MaxFaults
  PROVE  UntrackedInv'
<1>1. UntrackedTypeOK'
  BY DEF UntrackedInv, UntrackedTypeOK
<1>2. CmdsInv'
  BY DEF UntrackedInv, CmdsInv
<1>3. \A p \in Procs, f \in Files : Changing(p, f)' <=> Changing(p, f)
  BY DEF Changing
<1>4. EntriesVerify'
  BY <1>3 DEF UntrackedInv, EntriesVerify
<1>. QED
  BY <1>1, <1>2, <1>4 DEF UntrackedInv

LEMMA SaveSidecarKeeps ==
  ASSUME UntrackedInv, MigInv, SaveSidecar
  PROVE  UntrackedInv'
<1>1. mig # NoRun /\ mig.stage = "save" /\ mig.doc \in Files /\ mig.new \in Sidecars
  BY DEF SaveSidecar, AtStage, MigInv, RunShape
<1>2. /\ sidecar' = [sidecar EXCEPT ![mig.doc] = mig.new]
      /\ cmd' = [q \in Procs |-> IF cmd[q] = NoCmd THEN NoCmd
                                 ELSE [cmd[q] EXCEPT !.touched = @ \cup {mig.doc}]]
      /\ UNCHANGED <<disk, registry, dataDir, loose, started, faults>>
  BY DEF SaveSidecar
<1>3. Spares({mig.doc}) /\ {mig.doc} \in SUBSET Files
  BY <1>1, <1>2 DEF Spares, UntrackedInv, UntrackedTypeOK
<1>4. CmdsInv' /\ cmd' \in [Procs -> Cmds \cup {NoCmd}]
  BY <1>2, <1>3, AllTold DEF UntrackedInv
<1>5. \A p \in Procs, f \in Files : Changing(p, f)' <=> Changing(p, f)
  BY <1>2, <1>3, ToldInMidst DEF UntrackedInv
<1>6. EntriesVerify'
  BY <1>2, <1>5 DEF UntrackedInv, EntriesVerify
<1>7. sidecar' \in [Files -> Sidecars \cup {NoFile}]
  BY <1>1, <1>2 DEF UntrackedInv, UntrackedTypeOK
<1>. QED
  BY <1>2, <1>4, <1>6, <1>7 DEF UntrackedInv, UntrackedTypeOK

LEMMA WipeRegistryKeeps ==
  ASSUME UntrackedInv, WipeRegistry
  PROVE  UntrackedInv'
<1>. DEFINE lost == {f \in Files : registry[f] # NoEntry}
<1>1. /\ registry' = [f \in Files |-> NoEntry]
      /\ cmd' = [q \in Procs |-> IF cmd[q] = NoCmd THEN NoCmd
                                 ELSE [cmd[q] EXCEPT !.touched = @ \cup lost]]
      /\ UNCHANGED <<disk, sidecar, dataDir, loose, started, faults>>
  BY DEF WipeRegistry
<1>2. Spares(lost) /\ lost \in SUBSET Files
  BY <1>1 DEF Spares
<1>. HIDE DEF lost
<1>3. CmdsInv' /\ cmd' \in [Procs -> Cmds \cup {NoCmd}]
  BY <1>1, <1>2, AllTold DEF UntrackedInv
<1>4. EntriesVerify' /\ registry' \in Registries
  BY <1>1 DEF EntriesVerify, Registries
<1>. QED
  BY <1>1, <1>3, <1>4 DEF UntrackedInv, UntrackedTypeOK

\* The commands take no entry away but as NoEntryLost says.
LEMMA CommandsLoseNoEntry ==
  ASSUME UntrackedInv, UntrackedNext, NEW f \in Files,
         registry[f] # NoEntry, registry'[f] = NoEntry
  PROVE  \E p \in Procs : /\ Save(p)
                          /\ \/ cmd[p].op = "delete" /\ cmd[p].file = f
                             \/ f \in cmd[p].touched
<1>1. PICK p \in Procs : Save(p)
  BY DEF UntrackedNext, Start, Truncate, Write, Pair, RemoveFile, SignFile, Load,
     Visit, SignEach, CommandFails, HandEdit, RemoveDocument, Unpair, DocumentAbsent
<1>2. registry' = Edited(cmd[p])
  BY <1>1 DEF Save
<1>3. CASE f \notin cmd[p].touched
  <2>1. \/ /\ f = cmd[p].file
           /\ \/ cmd[p].op = "delete" /\ Edited(cmd[p])[f] = NoEntry
              \/ Edited(cmd[p])[f] = disk[f] /\ disk[f] \in Texts
        \/ f # cmd[p].file /\ Edited(cmd[p])[f] = registry[f]
        \/ Open(f, sidecar, registry) /\ Edited(cmd[p])[f] = disk[f]
    BY <1>1, <1>3, SaveEdits
  <2>. QED
    BY <1>1, <1>2, <2>1, UntrackedAssumption DEF Open
<1>. QED
  BY <1>1, <1>3

-----------------------------------------------------------------------------
\* The steps of a migration itself.

\* A run goes on and changes no file.
LEMMA RunGoesOn ==
  ASSUME MigInv, NEW m, mig' = m, UNCHANGED <<sidecar, legacy, v1, named, cut, completed>>,
         RunShape(m), ~m.dry => Converted(m, sidecar, legacy),
         (Pristine /\ ~m.dry) => Faithful(m, sidecar, v1),
         Pristine => legacy = LegacyFiles
  PROVE  MigInv'
<1>2. (Converted(mig, sidecar, legacy))' <=> Converted(m, sidecar, legacy)
  BY DEF Converted, Pending, Recorded
<1>3. (Faithful(mig, sidecar, v1))' <=> Faithful(m, sidecar, v1)
  BY DEF Faithful, Pending, Recorded, FromV1
<1>4. RunShape(mig)' <=> RunShape(m)
  BY DEF RunShape
<1>5. /\ (legacy \subseteq LegacyFiles)' /\ (v1 \in [Files -> Texts \cup {NoEntry}])'
      /\ (completed \in BOOLEAN)' /\ (cut \in BOOLEAN)' /\ (Pristine' <=> Pristine)
      /\ (named \subseteq Entities)'
  BY DEF MigInv, Pristine
<1>. QED
  BY <1>2, <1>3, <1>4, <1>5 DEF MigInv

\* The facts about a run in the middle of stage.
LEMMA Running ==
  ASSUME MigInv, NEW stage, AtStage(stage)
  PROVE  /\ mig # NoRun /\ mig.stage = stage /\ RunShape(mig) /\ mig \in MigRuns
         /\ ~mig.dry => Converted(mig, sidecar, legacy)
         /\ (Pristine /\ ~mig.dry) => Faithful(mig, sidecar, v1)
         /\ (Pristine /\ stage # "wipe") => legacy = LegacyFiles
BY DEF AtStage, MigInv, RunShape

LEMMA StartMigrateKeeps ==
  ASSUME MigInv, NEW dry \in BOOLEAN, StartMigrate(dry)
  PROVE  MigInv'
<1>. DEFINE m == [stage |-> "schemas", dry |-> dry, todo |-> Entities, named |-> named,
                  ent |-> NoFile, docs |-> {}, man |-> FALSE, doc |-> NoFile,
                  new |-> NoFile, touched |-> {}]
<1>1. mig = NoRun /\ mig' = m /\ UNCHANGED <<sidecar, legacy, v1, named, cut, completed>>
  BY DEF StartMigrate
<1>2. /\ m \in MigRuns /\ m.stage = "schemas" /\ m.todo = Entities /\ m.named = named
      /\ named \subseteq Entities
  BY DEF MigRuns, MigInv
<1>. HIDE DEF m
<1>3. RunShape(m) /\ Converted(m, sidecar, legacy) /\ Faithful(m, sidecar, v1)
  BY <1>2 DEF RunShape, Converted, Faithful
<1>4. Pristine => legacy = LegacyFiles
  BY <1>1 DEF MigInv
<1>. QED
  BY <1>1, <1>3, <1>4, RunGoesOn

LEMMA LoadRecordsKeeps ==
  ASSUME MigInv, NEW e \in Entities, LoadRecords(e)
  PROVE  MigInv'
<1>. DEFINE docs == IF <<"records", e>> \in legacy THEN Recorded(e) \ Unfiled ELSE {}
            m == [mig EXCEPT !.stage = "manifest", !.ent = e, !.todo = @ \ {e},
                             !.docs = docs]
<1>1. /\ AtStage("schemas") /\ mig' = m
      /\ UNCHANGED <<sidecar, legacy, v1, named, cut, completed>>
  BY DEF LoadRecords, MigGo, untrackedVars
<1>2. /\ mig.stage = "schemas" /\ mig \in MigRuns
      /\ ~mig.dry => Converted(mig, sidecar, legacy)
      /\ (Pristine /\ ~mig.dry) => Faithful(mig, sidecar, v1)
      /\ Pristine => legacy = LegacyFiles
  BY <1>1, Running
<1>3. docs \subseteq Files
  BY DEF Recorded
<1>. HIDE DEF docs
<1>4. /\ m \in MigRuns /\ m.stage = "manifest" /\ m.ent = e /\ m.todo = mig.todo \ {e}
      /\ m.docs = docs /\ m.dry = mig.dry /\ m.named = mig.named
      /\ m.touched = mig.touched
  BY <1>2, <1>3 DEF MigRuns
<1>. HIDE DEF m
<1>5. RunShape(m)
  BY <1>4 DEF RunShape
<1>6. ~m.dry => Converted(m, sidecar, legacy)
  <2>. SUFFICES ASSUME ~m.dry, NEW d \in m.named \ m.todo, <<"records", d>> \in legacy,
                       NEW f \in Recorded(d) \ (Unfiled \cup m.touched),
                       f \notin m.docs \/ d # e
                PROVE  sidecar[f] # NoFile
    BY <1>4 DEF Converted, Pending
  <2>1. CASE d = e
    BY <1>4, <2>1 DEF docs
  <2>2. CASE d # e
    BY <1>2, <1>4, <2>2 DEF Converted, Pending
  <2>. QED
    BY <2>1, <2>2
<1>7. (Pristine /\ ~m.dry) => Faithful(m, sidecar, v1)
  <2>. SUFFICES ASSUME Pristine, ~m.dry, NEW d \in m.named \ m.todo,
                       NEW f \in Recorded(d) \ (Unfiled \cup m.touched), v1[f] # NoEntry,
                       ~Pending(m, d, f)
                PROVE  sidecar[f] = FromV1(v1[f])
    BY <1>4 DEF Faithful
  <2>1. CASE d = e
    <3>1. <<"records", e>> \in legacy
      BY <1>2 DEF LegacyFiles
    <3>. QED
      BY <1>4, <2>1, <3>1 DEF docs, Pending
  <2>2. CASE d # e
    BY <1>2, <1>4, <2>2 DEF Faithful, Pending
  <2>. QED
    BY <2>1, <2>2
<1>. QED
  BY <1>1, <1>2, <1>5, <1>6, <1>7, RunGoesOn

\* The run comes from one entity to the next, having converted those behind it.
LEMMA Onwards ==
  ASSUME MigInv, NEW r, r \in MigRuns, mig' = EntityDone(r),
         UNCHANGED <<sidecar, legacy, v1, named, cut, completed>>,
         ~r.dry => Converted(r, sidecar, legacy),
         (Pristine /\ ~r.dry) => Faithful(r, sidecar, v1),
         \A d, f : ~Pending(r, d, f),
         Pristine => legacy = LegacyFiles
  PROVE  MigInv'
<1>. DEFINE stage == IF r.todo # {} THEN "schemas" ELSE "wipe"
            m == [r EXCEPT !.stage = stage]
<1>1. CASE mig' = NoRun
  BY <1>1 DEF MigInv, Pristine
<1>2. CASE mig' # NoRun
  <2>1. mig' = m /\ (stage = "wipe" => ~r.dry)
    BY <1>2 DEF EntityDone
  <2>2. /\ m \in MigRuns /\ m.stage = stage /\ m.todo = r.todo
        /\ m.dry = r.dry /\ m.named = r.named /\ m.touched = r.touched
    BY DEF MigRuns
  <2>. HIDE DEF m
  <2>3. RunShape(m)
    BY <2>1, <2>2 DEF RunShape
  <2>4. ~m.dry => Converted(m, sidecar, legacy)
    BY <2>2 DEF Converted
  <2>5. (Pristine /\ ~m.dry) => Faithful(m, sidecar, v1)
    BY <2>2 DEF Faithful
  <2>. QED
    BY <2>1, <2>3, <2>4, <2>5, RunGoesOn
<1>. QED
  BY <1>1, <1>2

\* A skipped entity is not among the named, or its records are gone already.
LEMMA SkipEntityKeeps ==
  ASSUME MigInv, NEW e \in Entities, SkipEntity(e)
  PROVE  MigInv'
<1>. DEFINE r == [mig EXCEPT !.todo = @ \ {e}]
<1>1. /\ AtStage("schemas") /\ ~RecordsDirFound(e) /\ mig' = EntityDone(r)
      /\ UNCHANGED <<sidecar, legacy, v1, named, cut, completed>>
  BY DEF SkipEntity, MigGo, untrackedVars
<1>2. /\ mig.stage = "schemas" /\ mig \in MigRuns
      /\ ~mig.dry => Converted(mig, sidecar, legacy)
      /\ (Pristine /\ ~mig.dry) => Faithful(mig, sidecar, v1)
      /\ Pristine => legacy = LegacyFiles
  BY <1>1, Running
<1>3. /\ r \in MigRuns /\ r.stage = "schemas" /\ r.todo = mig.todo \ {e}
      /\ r.dry = mig.dry /\ r.named = mig.named /\ r.touched = mig.touched
  BY <1>2 DEF MigRuns
<1>. HIDE DEF r
<1>4. e \notin r.named \/ <<"records", e>> \notin legacy
  BY <1>1, <1>3 DEF RecordsDirFound
<1>5. Pristine => e \notin r.named
  BY <1>2, <1>4 DEF LegacyFiles
<1>6. \A d, f : ~Pending(mig, d, f) /\ ~Pending(r, d, f)
  BY <1>2, <1>3 DEF Pending
<1>7. ~r.dry => Converted(r, sidecar, legacy)
  BY <1>2, <1>3, <1>4, <1>6 DEF Converted
<1>8. (Pristine /\ ~r.dry) => Faithful(r, sidecar, v1)
  BY <1>2, <1>3, <1>5, <1>6 DEF Faithful
<1>. QED
  BY <1>1, <1>2, <1>3, <1>6, <1>7, <1>8, Onwards

\* A run in progress has read the schemas already.
LEMMA RewriteSchemaKeeps ==
  ASSUME MigInv, NEW e \in Entities, RewriteSchema(e)
  PROVE  MigInv'
<1>1. UNCHANGED <<sidecar, legacy, v1, mig, cut, completed>> /\ named' \subseteq Entities
  BY DEF RewriteSchema, untrackedVars, MigInv
<1>. QED
  BY <1>1 DEF MigInv, Pristine, Recorded, Converted, Faithful, Pending, FromV1, RunShape

LEMMA LoadManifestKeeps ==
  ASSUME MigInv, LoadManifest
  PROVE  MigInv'
<1>. DEFINE man == <<"manifest", mig.ent>> \in legacy
            m == [mig EXCEPT !.stage = "docs", !.man = man]
<1>1. AtStage("manifest") /\ mig' = m /\ UNCHANGED <<sidecar, legacy, v1, named, cut, completed>>
  BY DEF LoadManifest, MigGo, untrackedVars
<1>2. /\ mig.stage = "manifest" /\ mig \in MigRuns /\ mig.ent \in Entities
      /\ ~mig.dry => Converted(mig, sidecar, legacy)
      /\ (Pristine /\ ~mig.dry) => Faithful(mig, sidecar, v1)
      /\ Pristine => legacy = LegacyFiles
  BY <1>1, Running DEF RunShape
<1>3. Pristine => man
  BY <1>2 DEF LegacyFiles
<1>. HIDE DEF man
<1>4. /\ m \in MigRuns /\ m.stage = "docs" /\ m.ent = mig.ent /\ m.todo = mig.todo
      /\ m.docs = mig.docs /\ m.dry = mig.dry /\ m.named = mig.named
      /\ m.touched = mig.touched /\ m.man = man
  <2>1. man \in BOOLEAN
    BY DEF man
  <2>. QED
    BY <1>2, <2>1 DEF MigRuns
<1>. HIDE DEF m
<1>5. \A d, f : Pending(mig, d, f) => Pending(m, d, f)
  BY <1>2, <1>4 DEF Pending
<1>6. RunShape(m)
  BY <1>2, <1>4 DEF RunShape
<1>7. ~m.dry => Converted(m, sidecar, legacy)
  BY <1>2, <1>4, <1>5 DEF Converted
<1>8. (Pristine /\ ~m.dry) => Faithful(m, sidecar, v1)
  BY <1>2, <1>3, <1>4, <1>5 DEF Faithful
<1>. QED
  BY <1>1, <1>2, <1>6, <1>7, <1>8, RunGoesOn

\* What is built for a document: its entry, if the manifest is there.
LEMMA BuiltSidecar ==
  ASSUME MigInv, NEW f \in Files
  PROVE  /\ BuildSidecar(f) \in Sidecars
         /\ (mig.man /\ v1[f] # NoEntry) => BuildSidecar(f) = FromV1(v1[f])
<1>1. v1[f] # NoEntry => v1[f] \in Texts
  BY DEF MigInv
<1>. QED
  BY <1>1 DEF BuildSidecar, Sidecars, FromV1

LEMMA ConvertKeeps ==
  ASSUME MigInv, NEW g \in Files, Convert(g)
  PROVE  MigInv'
<1>. DEFINE new == IF mig.dry THEN NoFile ELSE BuildSidecar(g)
            m == [mig EXCEPT !.docs = @ \ {g},
                             !.stage = IF mig.dry THEN "docs" ELSE "save",
                             !.doc = IF mig.dry THEN NoFile ELSE g,
                             !.new = new]
<1>1. /\ AtStage("docs") /\ g \in mig.docs /\ mig' = m
      /\ UNCHANGED <<sidecar, legacy, v1, named, cut, completed>>
  BY DEF Convert, MigGo, untrackedVars
<1>2. /\ mig.stage = "docs" /\ mig \in MigRuns /\ mig.ent \in Entities
      /\ ~mig.dry => Converted(mig, sidecar, legacy)
      /\ (Pristine /\ ~mig.dry) => Faithful(mig, sidecar, v1)
      /\ Pristine => legacy = LegacyFiles
  BY <1>1, Running DEF RunShape
<1>3. /\ new \in Sidecars \cup {NoFile}
      /\ ~mig.dry => new \in Sidecars
      /\ (~mig.dry /\ mig.man /\ v1[g] # NoEntry) => new = FromV1(v1[g])
  BY BuiltSidecar
<1>. HIDE DEF new
<1>4. /\ m \in MigRuns /\ m.stage = (IF mig.dry THEN "docs" ELSE "save")
      /\ m.ent = mig.ent /\ m.todo = mig.todo
      /\ m.docs = mig.docs \ {g} /\ m.dry = mig.dry /\ m.named = mig.named
      /\ m.touched = mig.touched
      /\ m.man = mig.man /\ m.new = new /\ m.doc = (IF mig.dry THEN NoFile ELSE g)
  BY <1>2, <1>3 DEF MigRuns
<1>. HIDE DEF m
<1>5. \A d, f : (~m.dry /\ Pending(mig, d, f)) => Pending(m, d, f)
  BY <1>2, <1>4 DEF Pending
<1>6. RunShape(m)
  BY <1>2, <1>3, <1>4 DEF RunShape
<1>7. ~m.dry => Converted(m, sidecar, legacy)
  BY <1>2, <1>4, <1>5 DEF Converted
<1>8. (Pristine /\ ~m.dry) => Faithful(m, sidecar, v1)
  BY <1>2, <1>3, <1>4, <1>5 DEF Faithful
<1>. QED
  BY <1>1, <1>2, <1>6, <1>7, <1>8, RunGoesOn

LEMMA NextEntityKeeps ==
  ASSUME MigInv, NextEntity
  PROVE  MigInv'
<1>1. /\ AtStage("docs") /\ mig.docs = {} /\ mig' = EntityDone(mig)
      /\ UNCHANGED <<sidecar, legacy, v1, named, cut, completed>>
  BY DEF NextEntity, MigGo, untrackedVars
<1>2. /\ mig.stage = "docs" /\ mig \in MigRuns
      /\ ~mig.dry => Converted(mig, sidecar, legacy)
      /\ (Pristine /\ ~mig.dry) => Faithful(mig, sidecar, v1)
      /\ Pristine => legacy = LegacyFiles
  BY <1>1, Running
<1>3. \A d, f : ~Pending(mig, d, f)
  BY <1>1, <1>2 DEF Pending
<1>. QED
  BY <1>1, <1>2, <1>3, Onwards

\* A document's sidecar is written, and it is no longer pending.
LEMMA SaveSidecarKeepsRun ==
  ASSUME UntrackedInv, MigInv, SaveSidecar
  PROVE  MigInv'
<1>. DEFINE m == [mig EXCEPT !.stage = "docs", !.doc = NoFile, !.new = NoFile]
<1>1. /\ AtStage("save") /\ mig' = m /\ sidecar' = [sidecar EXCEPT ![mig.doc] = mig.new]
      /\ UNCHANGED <<legacy, v1, named, cut, completed>>
  BY DEF SaveSidecar
<1>2. /\ mig # NoRun /\ mig.stage = "save" /\ mig \in MigRuns /\ mig.ent \in Entities
      /\ ~mig.dry /\ mig.doc \in Files /\ mig.new \in Sidecars
      /\ Converted(mig, sidecar, legacy)
      /\ Pristine => Faithful(mig, sidecar, v1)
      /\ Pristine => legacy = LegacyFiles
  BY <1>1, Running DEF RunShape
<1>3. /\ m \in MigRuns /\ m.stage = "docs" /\ m.ent = mig.ent /\ m.todo = mig.todo
      /\ m.docs = mig.docs /\ m.dry = mig.dry /\ m.named = mig.named /\ m.touched = mig.touched
      /\ m.man = mig.man
  BY <1>2 DEF MigRuns
<1>. HIDE DEF m
<1>4. /\ sidecar'[mig.doc] = mig.new /\ mig.new # NoFile
      /\ \A f \in Files : f # mig.doc => sidecar'[f] = sidecar[f]
  BY <1>1, <1>2, UntrackedAssumption DEF UntrackedInv, UntrackedTypeOK, Sidecars
<1>5. \A d, f : (Pending(mig, d, f) /\ f # mig.doc) => Pending(m, d, f)
  BY <1>2, <1>3 DEF Pending
<1>6. RunShape(m)
  BY <1>2, <1>3 DEF RunShape
<1>7. Converted(m, sidecar', legacy)
  BY <1>2, <1>3, <1>4, <1>5 DEF Converted, Recorded
<1>8. Pristine => Faithful(m, sidecar', v1)
  BY <1>2, <1>3, <1>4, <1>5 DEF Faithful, Recorded
<1>. QED
  BY <1>1, <1>2, <1>6, <1>7, <1>8
     DEF MigInv, Pristine, Converted, Faithful, Pending, Recorded, FromV1, RunShape

\* A records file goes only when its entity has been converted.
LEMMA WipeLegacyKeeps ==
  ASSUME MigInv, NEW x \in LegacyFiles, WipeLegacy(x)
  PROVE  MigInv'
<1>1. /\ AtStage("wipe") /\ legacy' = legacy \ {x}
      /\ UNCHANGED <<sidecar, v1, named, mig, cut, completed>>
  BY DEF WipeLegacy, untrackedVars
<1>2. mig # NoRun /\ mig.stage = "wipe" /\ Converted(mig, sidecar, legacy) /\ mig.todo = {}
  BY <1>1, Running DEF RunShape
<1>3. /\ Converted(mig, sidecar, legacy)'
      /\ (Faithful(mig, sidecar, v1))' <=> Faithful(mig, sidecar, v1)
      /\ RunShape(mig)' <=> RunShape(mig)
  BY <1>1, <1>2 DEF Converted, Faithful, Pending, Recorded, FromV1, RunShape
<1>. QED
  BY <1>1, <1>2, <1>3 DEF MigInv, Pristine

\* A run ends: MigrateFails and WipeDir.
LEMMA RunEnds ==
  ASSUME MigInv, mig' = NoRun, UNCHANGED <<sidecar, legacy, v1, named>>,
         completed' \in BOOLEAN, cut' \in BOOLEAN,
         Pristine' => Pristine /\ (mig = NoRun \/ mig.stage # "wipe")
  PROVE  MigInv'
BY DEF MigInv

-----------------------------------------------------------------------------
\* The steps of the others, seen from the run in progress.

\* The run is told of the files that changed.
RunTold(m, fs) == [m EXCEPT !.touched = @ \cup fs]

LEMMA OthersKeepRun ==
  ASSUME UntrackedInv, MigInv, UntrackedStep
  PROVE  MigInv'
<1>. DEFINE fs == {f \in Files : disk'[f] # disk[f] \/ sidecar'[f] # sidecar[f]}
            m == RunTold(mig, fs)
<1>1. /\ UntrackedNext /\ UNCHANGED <<legacy, v1, named, cut, completed>>
      /\ mig' = IF mig = NoRun THEN NoRun ELSE m
  BY DEF UntrackedStep, RunTold
<1>4. CASE mig = NoRun
  BY <1>1, <1>4 DEF MigInv, Pristine
<1>5. CASE mig # NoRun
  <2>1. RunShape(mig) /\ mig \in MigRuns
    BY <1>5 DEF MigInv, RunShape
  <2>2. fs \subseteq Files /\ \A f \in Files \ fs : sidecar'[f] = sidecar[f]
    OBVIOUS
  <2>. HIDE DEF fs
  <2>3. /\ m \in MigRuns /\ m.stage = mig.stage /\ m.ent = mig.ent /\ m.todo = mig.todo
        /\ m.docs = mig.docs /\ m.dry = mig.dry /\ m.named = mig.named
        /\ m.touched = mig.touched \cup fs
        /\ m.man = mig.man /\ m.doc = mig.doc /\ m.new = mig.new
    BY <2>1, <2>2 DEF MigRuns, RunTold
  <2>. HIDE DEF m
  <2>4. RunShape(m) /\ m # NoRun /\ mig' = m
    <3>1. m # NoRun
      BY <2>3 DEF MigRuns, NoRun
    <3>. QED
      BY <1>1, <1>5, <2>1, <2>3, <3>1 DEF RunShape
  <2>5. \A d, f : Pending(mig, d, f) => Pending(m, d, f)
    BY <2>3 DEF Pending
  <2>6. ~m.dry => Converted(m, sidecar', legacy)
    <3>1. ~m.dry => Converted(mig, sidecar, legacy)
      BY <1>5, <2>3 DEF MigInv
    <3>. QED
      BY <2>2, <2>3, <2>5, <3>1 DEF Converted, Recorded
  <2>7. (Pristine /\ ~m.dry) => Faithful(m, sidecar', v1)
    <3>1. (Pristine /\ ~m.dry) => Faithful(mig, sidecar, v1)
      BY <1>5, <2>3 DEF MigInv
    <3>. QED
      BY <2>2, <2>3, <2>5, <3>1 DEF Faithful, Recorded
  <2>8. (Pristine /\ m.stage # "wipe") => legacy = LegacyFiles
    BY <2>3 DEF MigInv
  <2>. QED
    BY <1>1, <2>4, <2>6, <2>7, <2>8
       DEF MigInv, Pristine, Converted, Faithful, Pending, Recorded, FromV1, RunShape
<1>. QED
  BY <1>4, <1>5

\* A step that leaves all of it alone.
LEMMA RunStutters ==
  ASSUME MigInv, UNCHANGED <<sidecar, legacyVars>>
  PROVE  MigInv'
<1>1. UNCHANGED <<sidecar, legacy, v1, named, mig, cut, completed>>
  BY DEF legacyVars
<1>. QED
  BY <1>1 DEF MigInv, Pristine, Recorded, Converted, Faithful,
     Pending, FromV1, RunShape

-----------------------------------------------------------------------------

LEMMA MigrateStarts ==
  ASSUME MigrateInit
  PROVE  MigrateInv
<1>1. UntrackedInv
  BY UntrackedStarts DEF MigrateInit
<1>2. MigInv
  BY DEF MigrateInit, MigInv, LegacyFiles
<1>. QED
  BY <1>1, <1>2 DEF MigrateInv

LEMMA MigrateStepKeeps ==
  ASSUME MigrateInv, MigrateStep
  PROVE  MigrateInv'
<1>. USE DEF MigrateInv
<1>. DEFINE Aside == UNCHANGED <<disk, sidecar, registry, cmd, loose>>
                     /\ dataDir' \in BOOLEAN /\ started' \in 0..MaxStarted
                     /\ faults' \in 0..MaxFaults
<1>0. UntrackedTypeOK
  BY DEF UntrackedInv
<1>1. ASSUME NEW dry \in BOOLEAN, StartMigrate(dry) PROVE MigrateInv'
  <2>1. Aside
    BY <1>0, <1>1, UntrackedAssumption DEF StartMigrate, UntrackedTypeOK
  <2>. QED
    BY <1>1, <2>1, AsideKeeps, StartMigrateKeeps
<1>2. ASSUME NEW r, MigGo(r) PROVE Aside
  BY <1>0, <1>2 DEF MigGo, untrackedVars, UntrackedTypeOK
<1>3. ASSUME NEW e \in Entities, LoadRecords(e) PROVE MigrateInv'
  <2>1. Aside
    BY <1>2, <1>3 DEF LoadRecords
  <2>. QED
    BY <1>3, <2>1, AsideKeeps, LoadRecordsKeeps
<1>4. ASSUME LoadManifest PROVE MigrateInv'
  <2>1. Aside
    BY <1>2, <1>4 DEF LoadManifest
  <2>. QED
    BY <1>4, <2>1, AsideKeeps, LoadManifestKeeps
<1>5. ASSUME SaveSidecar PROVE MigrateInv'
  BY <1>5, SaveSidecarKeeps, SaveSidecarKeepsRun
<1>6. ASSUME NextEntity PROVE MigrateInv'
  <2>1. Aside
    BY <1>2, <1>6 DEF NextEntity
  <2>. QED
    BY <1>6, <2>1, AsideKeeps, NextEntityKeeps
<1>7. ASSUME NEW f \in Files, Convert(f) PROVE MigrateInv'
  <2>1. Aside
    BY <1>2, <1>7 DEF Convert
  <2>. QED
    BY <1>7, <2>1, AsideKeeps, ConvertKeeps
<1>8. ASSUME NEW x \in LegacyFiles, WipeLegacy(x) PROVE MigrateInv'
  <2>1. Aside
    BY <1>0, <1>8 DEF WipeLegacy, untrackedVars, UntrackedTypeOK
  <2>. QED
    BY <1>8, <2>1, AsideKeeps, WipeLegacyKeeps
<1>9. ASSUME WipeRegistry PROVE MigrateInv'
  <2>1. UNCHANGED <<sidecar, legacyVars>>
    BY <1>9 DEF WipeRegistry
  <2>. QED
    BY <1>9, <2>1, WipeRegistryKeeps, RunStutters
<1>10. ASSUME WipeDir PROVE MigrateInv'
  <2>1. Aside
    BY <1>0, <1>10 DEF WipeDir, UntrackedTypeOK
  <2>2. /\ mig' = NoRun /\ UNCHANGED <<sidecar, legacy, v1, named, cut>> /\ completed' = TRUE
        /\ cut' \in BOOLEAN
    BY <1>10 DEF WipeDir, MigInv
  <2>3. MigInv'
    BY <2>2, RunEnds DEF Pristine
  <2>. QED
    BY <2>1, <2>3, AsideKeeps
<1>11. ASSUME MigrateFails PROVE MigrateInv'
  <2>1. Aside
    BY <1>0, <1>11, UntrackedAssumption DEF MigrateFails, UntrackedTypeOK
  <2>2. /\ mig' = NoRun /\ UNCHANGED <<sidecar, legacy, v1, named, completed>>
        /\ cut' = (cut \/ mig.stage = "wipe") /\ cut' \in BOOLEAN /\ completed' \in BOOLEAN
    BY <1>11 DEF MigrateFails, MigInv
  <2>3. MigInv'
    BY <2>2, RunEnds DEF Pristine
  <2>. QED
    BY <2>1, <2>3, AsideKeeps
<1>12. ASSUME NEW e \in Entities, SkipEntity(e) PROVE MigrateInv'
  <2>1. Aside
    BY <1>2, <1>12 DEF SkipEntity
  <2>. QED
    BY <1>12, <2>1, AsideKeeps, SkipEntityKeeps
<1>13. ASSUME NEW e \in Entities, RewriteSchema(e) PROVE MigrateInv'
  <2>1. Aside
    BY <1>0, <1>13 DEF RewriteSchema, untrackedVars, UntrackedTypeOK
  <2>. QED
    BY <1>13, <2>1, AsideKeeps, RewriteSchemaKeeps
<1>. QED
  BY <1>1, <1>3, <1>4, <1>5, <1>6, <1>7, <1>8, <1>9, <1>10, <1>11, <1>12, <1>13
     DEF MigrateStep

LEMMA MigrateKeeps ==
  ASSUME MigrateInv, [MigrateNext]_migrateVars
  PROVE  MigrateInv'
<1>1. CASE MigrateStep
  BY <1>1, MigrateStepKeeps
<1>2. CASE UntrackedStep
  <2>1. UntrackedNext
    BY <1>2 DEF UntrackedStep
  <2>. QED
    BY <1>2, <2>1, UntrackedKeeps, OthersKeepRun DEF MigrateInv
<1>3. CASE UNCHANGED migrateVars
  <2>1. UNCHANGED <<disk, sidecar, registry, dataDir, cmd, loose, started, faults, legacyVars>>
    BY <1>3 DEF migrateVars, untrackedVars
  <2>2. dataDir' \in BOOLEAN /\ started' \in 0..MaxStarted /\ faults' \in 0..MaxFaults
    BY <2>1 DEF MigrateInv, UntrackedInv, UntrackedTypeOK
  <2>. QED
    BY <2>1, <2>2, AsideKeeps, RunStutters DEF MigrateInv
<1>. QED
  BY <1>1, <1>2, <1>3 DEF MigrateNext

THEOREM MigrateInvariant == MigrateSpec => []MigrateInv
<1>1. MigrateInit => MigrateInv
  BY MigrateStarts
<1>2. MigrateInv /\ [MigrateNext]_migrateVars => MigrateInv'
  BY MigrateKeeps
<1>. QED
  BY <1>1, <1>2, PTL DEF MigrateSpec

-----------------------------------------------------------------------------

\* The variables of the commands and of a migration keep their types.
THEOREM MigrateTyped == MigrateSpec => []MigrateTypeOK
<1>1. MigrateInv => MigrateTypeOK
  BY DEF MigrateInv, UntrackedInv, MigInv, RunShape, MigrateTypeOK
<1>. QED
  BY <1>1, MigrateInvariant, PTL

\* A registered file still holds the text its entry was computed from, whatever
\* commands and migrations are interleaved, where nothing excuses it.
THEOREM RegisteredFilesVerify == MigrateSpec => []EntriesVerify
<1>1. MigrateInv => EntriesVerify
  BY DEF MigrateInv, UntrackedInv
<1>. QED
  BY <1>1, MigrateInvariant, PTL

\* sign-all registers exactly what was left to sign, for any files and overlaps.
THEOREM SignAllAddsWhatIsLeft == MigrateSpec => SignAllIsExact
<1>. DEFINE Exact == \A p \in Procs :
       (Save(p) /\ cmd[p].op = "sign_all") =>
         \A f \in Files \ cmd[p].touched :
           LET left == /\ registry[f] = NoEntry /\ disk[f] \in Texts
                       /\ ~(f \in UnderSchema /\ sidecar[f] # NoFile)
           IN registry'[f] = IF left THEN disk[f] ELSE registry[f]
<1>1. MigrateInv => Exact
  <2>. SUFFICES ASSUME MigrateInv, NEW p \in Procs, Save(p), cmd[p].op = "sign_all",
                       NEW f \in Files \ cmd[p].touched
                PROVE  registry'[f] = IF Open(f, sidecar, registry) /\ disk[f] \in Texts
                                        THEN disk[f] ELSE registry[f]
    BY DEF Open
  <2>1. registry' = Edited(cmd[p])
    BY DEF Save
  <2>. QED
    BY <2>1, SaveEdits DEF MigrateInv
<1>2. MigrateInv => [Exact]_untrackedVars
  BY <1>1
<1>. QED
  BY <1>2, MigrateInvariant, PTL DEF SignAllIsExact

\* A registry entry goes away by a delete, a migration or an overlapped save only.
THEOREM EntriesGoKnowingly == MigrateSpec => NoEntryLost
<1>. DEFINE Kept == \A f \in Files :
       (registry[f] # NoEntry /\ registry'[f] = NoEntry) =>
         \/ WipeRegistry
         \/ \E p \in Procs : /\ Save(p)
                            /\ \/ cmd[p].op = "delete" /\ cmd[p].file = f
                               \/ f \in cmd[p].touched
<1>1. MigrateInv /\ [MigrateNext]_migrateVars => Kept
  <2>. SUFFICES ASSUME MigrateInv, [MigrateNext]_migrateVars, NEW f \in Files,
                       registry[f] # NoEntry, registry'[f] = NoEntry, ~WipeRegistry
                PROVE  \E p \in Procs : /\ Save(p)
                                        /\ \/ cmd[p].op = "delete" /\ cmd[p].file = f
                                           \/ f \in cmd[p].touched
    OBVIOUS
  <2>1. UntrackedNext
    BY DEF MigrateNext, MigrateStep, UntrackedStep, migrateVars, untrackedVars, MigGo,
       StartMigrate, LoadRecords, LoadManifest, SaveSidecar, NextEntity, Convert,
       WipeLegacy, WipeDir, MigrateFails, SkipEntity, RewriteSchema
  <2>. QED
    BY <2>1, CommandsLoseNoEntry DEF MigrateInv
<1>2. MigrateInv /\ [MigrateNext]_migrateVars => [Kept]_migrateVars
  BY <1>1
<1>. QED
  BY <1>2, MigrateInvariant, PTL DEF MigrateSpec, NoEntryLost

\* When a records file is removed, whatever failed before, the documents it names
\* have sidecars: those of a schema that names it, and that nobody else changed.
THEOREM RecordsAreNotLost == MigrateSpec => RecordsBecomeSidecars
<1>. DEFINE Kept == \A e \in Entities :
       (<<"records", e>> \in legacy \ legacy' /\ e \in mig.named) =>
         \A f \in Recorded(e) \ (Unfiled \cup mig.touched) : sidecar[f] # NoFile
<1>1. MigrateInv /\ [MigrateNext]_migrateVars => Kept
  <2>. SUFFICES ASSUME MigInv, [MigrateNext]_migrateVars, NEW e \in Entities,
                       <<"records", e>> \in legacy \ legacy', e \in mig.named,
                       NEW f \in Recorded(e) \ (Unfiled \cup mig.touched)
                PROVE  sidecar[f] # NoFile
    BY DEF MigrateInv
  <2>1. PICK x \in LegacyFiles : WipeLegacy(x)
    BY DEF MigrateNext, MigrateStep, UntrackedStep, migrateVars, legacyVars, MigGo,
       StartMigrate, LoadRecords, LoadManifest, SaveSidecar, NextEntity, Convert,
       WipeRegistry, WipeDir, MigrateFails, SkipEntity, RewriteSchema
  <2>2. /\ mig.stage = "wipe" /\ mig.todo = {} /\ ~mig.dry
        /\ Converted(mig, sidecar, legacy)
    BY <2>1, Running DEF WipeLegacy, RunShape
  <2>. QED
    BY <2>2 DEF Converted, Pending
<1>2. MigrateInv /\ [MigrateNext]_migrateVars => [Kept]_migrateVars
  BY <1>1
<1>. QED
  BY <1>2, MigrateInvariant, PTL DEF MigrateSpec, RecordsBecomeSidecars

\* The first migration that ends gives each document the entry of the manifest.
THEOREM FirstMigrationIsFaithful == MigrateSpec => MigrationIsFaithful
<1>. DEFINE Exact == (WipeDir /\ ~completed /\ ~cut) =>
       \A e \in mig.named : \A f \in Recorded(e) \ (Unfiled \cup mig.touched) :
         v1[f] # NoEntry => sidecar[f] = [of |-> v1[f], from |-> "v1"]
<1>1. MigrateInv => Exact
  <2>. SUFFICES ASSUME MigInv, WipeDir, Pristine
                PROVE  \A e \in mig.named :
                         \A f \in Recorded(e) \ (Unfiled \cup mig.touched) :
                           v1[f] # NoEntry => sidecar[f] = FromV1(v1[f])
    BY DEF MigrateInv, Pristine, FromV1
  <2>1. /\ mig.stage = "wipe" /\ mig.todo = {} /\ ~mig.dry
        /\ Faithful(mig, sidecar, v1)
    BY Running DEF WipeDir, RunShape
  <2>. QED
    BY <2>1 DEF Faithful, Pending
<1>2. MigrateInv => [Exact]_migrateVars
  BY <1>1
<1>. QED
  BY <1>2, MigrateInvariant, PTL DEF MigrationIsFaithful
=============================================================================
