---------------------------- MODULE Vault_proofs ----------------------------
(***************************************************************************)
(* Encryption in one clone, for every set of documents, persons, texts and  *)
(* processes, any number of key pairs, commands and faults.  First the      *)
(* types, then what an editor wrote, what lock leaves, whom ACLs name and   *)
(* what git takes.                                                          *)
(***************************************************************************)
EXTENDS Vault, FiniteSetTheorems, NaturalsInduction, SequenceTheorems, TLAPS

\* The stages each command goes through.
StagesOf == [set       |-> {"load", "truncate", "write"},
             add       |-> {"load", "read", "truncate", "write"},
             rm        |-> {"load", "read", "truncate", "write"},
             import    |-> {"load", "truncate", "write"},
             self_init |-> {"forge", "forged", "load", "truncate", "write"},
             lock      |-> {"open", "seal"},
             unlock    |-> {"config", "attributes"}]

Paths == {File(d) : d \in Docs} \cup {ACLFile(d) : d \in Docs}
Cmds == [op : Ops, doc : Docs \cup {NoFile}, nicks : SUBSET Persons,
         entry : Entries \cup {NoFile}, at : Stages, ring : Seq(Entries),
         out : SUBSET Tokens, text : Texts, todo : SUBSET Docs, docs : SUBSET Docs,
         touched : SUBSET Paths]

\* Tokens and keys that were generated, each key with a token of its owner.
Real(e, is) == /\ e.token[1] = e.key[1]
               /\ e.token[2] <= is[e.token[1]] /\ e.key[2] <= is[e.token[1]]
RealRing(r, is) == \A i \in 1..Len(r) : Real(r[i], is)
RealTokens(ts, is) == \A t \in ts : t[2] <= is[t[1]]

Shaped(c, is) ==
  /\ c \in Cmds /\ c.at \in StagesOf[c.op]
  /\ c.op \in {"set", "add", "rm"} => c.doc \in Docs
  /\ c.op \in {"import", "self_init", "unlock"} => c.doc = NoFile
  /\ c.op = "lock" => IF c.at = "seal" THEN c.doc \in Docs ELSE c.doc = NoFile
  /\ (c.op = "import" \/ (c.op = "self_init" /\ c.at \notin {"forge", "forged"})) =>
       c.entry \in Entries /\ Real(c.entry, is)
  /\ RealRing(c.ring, is) /\ RealTokens(c.out, is)

FilesOK ==
  /\ work \in [Docs -> Contents] /\ repo \in [Docs -> Contents \ {NoFile}]
  /\ acl \in [Docs -> (SUBSET Tokens) \cup {NoACL}]
  /\ ring \in Seq(Entries) /\ mykey \in Keys \cup {NoKey, Torn}
  /\ filter \subseteq Hooks /\ issued \in [Persons -> 0..MaxGen]
  /\ RealRing(ring, issued)
  /\ \A d \in Docs : acl[d] # NoACL => RealTokens(acl[d], issued)
GhostsOK ==
  /\ latest \in [Docs -> Texts \cup {NoFile}] /\ named \in [Docs -> SUBSET Persons]
  /\ spilled \subseteq Docs /\ muddled \subseteq Docs
  /\ acts \in 0..MaxActs /\ faults \in 0..MaxFaults
CmdsOK == \A p \in Procs : cmd[p] = NoCmd \/ Shaped(cmd[p], issued)
TypeInv == FilesOK /\ GhostsOK /\ CmdsOK

-----------------------------------------------------------------------------
\* The key ring.

LEMMA MinIsIn ==
  ASSUME NEW I \in SUBSET Nat, I # {}
  PROVE  Min(I) \in I
<1>1. \E i \in I : \A j \in I : ~ <<j, i>> \in OpToRel(<, Nat)
  BY NatLessThanWellFounded, WFMin
<1>2. PICK i \in I : \A j \in I : ~ <<j, i>> \in OpToRel(<, Nat)
  BY <1>1
<1>0. \A j \in Nat, k \in Nat : j < k => <<j, k>> \in OpToRel(<, Nat)
  BY Zenon DEF OpToRel
<1>3. \A j \in I : ~ (j < i)
  BY <1>0, <1>2
<1>4. \A j \in I : i =< j
  BY <1>3
<1>. QED
  BY <1>4 DEF Min

\* The entry found is the person's, or holds the token.
LEMMA FoundByNickname ==
  ASSUME NEW r \in Seq(Entries), NEW q, ByNickname(r, q) # 0
  PROVE  ByNickname(r, q) \in 1..Len(r) /\ r[ByNickname(r, q)].token[1] = q
<1>. DEFINE I == {i \in 1..Len(r) : r[i].token[1] = q}
<1>1. ByNickname(r, q) = IF I # {} THEN Min(I) ELSE 0
  BY DEF ByNickname, SelectInSeq
<1>2. I \in SUBSET Nat
  OBVIOUS
<1>. HIDE DEF I
<1>3. ByNickname(r, q) \in I
  BY <1>1, <1>2, MinIsIn
<1>. QED
  BY <1>3 DEF I

LEMMA FoundByToken ==
  ASSUME NEW r \in Seq(Entries), NEW t, ByToken(r, t) # 0
  PROVE  ByToken(r, t) \in 1..Len(r) /\ r[ByToken(r, t)].token = t
<1>. DEFINE I == {i \in 1..Len(r) : r[i].token = t}
<1>1. ByToken(r, t) = IF I # {} THEN Min(I) ELSE 0
  BY DEF ByToken, SelectInSeq
<1>2. I \in SUBSET Nat
  OBVIOUS
<1>. HIDE DEF I
<1>3. ByToken(r, t) \in I
  BY <1>1, <1>2, MinIsIn
<1>. QED
  BY <1>3 DEF I

\* The tokens of the nicknames given: one for each of them, and generated.
LEMMA ResolvedTokens ==
  ASSUME NEW r \in Seq(Entries), NEW qs \in SUBSET Persons, Resolves(r, qs)
  PROVE  /\ TokensOf(r, qs) \in SUBSET Tokens
         /\ \A q \in Persons : q \in qs <=> \E t \in TokensOf(r, qs) : t[1] = q
         /\ \A is : RealRing(r, is) => RealTokens(TokensOf(r, qs), is)
<1>1. \A q \in qs : /\ ByNickname(r, q) \in 1..Len(r)
                    /\ r[ByNickname(r, q)].token[1] = q
                    /\ r[ByNickname(r, q)] \in Entries
  <2>. SUFFICES ASSUME NEW q \in qs
                PROVE  /\ ByNickname(r, q) \in 1..Len(r)
                       /\ r[ByNickname(r, q)].token[1] = q
                       /\ r[ByNickname(r, q)] \in Entries
    OBVIOUS
  <2>1. ByNickname(r, q) # 0
    BY DEF Resolves
  <2>2. ByNickname(r, q) \in 1..Len(r) /\ r[ByNickname(r, q)].token[1] = q
    BY <2>1, FoundByNickname
  <2>. HIDE DEF Resolves
  <2>3. r[ByNickname(r, q)] \in Entries
    BY <2>2, ElementOfSeq
  <2>. QED
    BY <2>2, <2>3
<1>2. \A t \in TokensOf(r, qs) : \E q \in qs : t = r[ByNickname(r, q)].token
  BY DEF TokensOf
<1>3. \A q \in qs : r[ByNickname(r, q)].token \in TokensOf(r, qs)
  BY DEF TokensOf
<1>4. TokensOf(r, qs) \in SUBSET Tokens
  BY <1>1, <1>2 DEF Entries
<1>5. \A is : RealRing(r, is) => RealTokens(TokensOf(r, qs), is)
  BY <1>1, <1>2 DEF RealRing, RealTokens, Real
<1>6. \A q \in Persons : q \in qs <=> \E t \in TokensOf(r, qs) : t[1] = q
  BY <1>1, <1>2, <1>3
<1>. QED
  BY <1>4, <1>5, <1>6

\* A ring of the first key pairs.
LEMMA EstablishedRing ==
  /\ Established \in Seq(Entries)
  /\ \A i \in 1..Len(Established) : \E q \in Persons :
       Established[i] = [token |-> <<q, 1>>, key |-> <<q, 1>>]
<1>. DEFINE E(q) == [token |-> <<q, 1>>, key |-> <<q, 1>>]
            S == {E(q) : q \in Persons}
<1>1. IsFiniteSet(S)
  <2>. DEFINE f == [q \in Persons |-> E(q)]
  <2>1. f \in Surjection(Persons, S)
    BY DEF Surjection
  <2>. HIDE DEF f, S
  <2>. QED
    BY <2>1, FS_Surjection, VaultAssumption
<1>2. Established \in [1..Cardinality(S) -> S] /\ Cardinality(S) \in Nat
  <2>1. Cardinality(S) \in Nat /\ ExistsBijection(1..Cardinality(S), S)
    BY <1>1, FS_CardinalityType
  <2>2. \E f \in [1..Cardinality(S) -> S] : IsInjective(f)
    BY <2>1 DEF ExistsBijection, Bijection, Injection, IsInjective
  <2>. QED
    BY <2>1, <2>2 DEF Established, SetToSeq
<1>4. S \subseteq Entries
  BY VaultAssumption DEF Entries, Tokens, Keys
<1>. HIDE DEF S
<1>3. Established \in Seq(S) /\ Len(Established) = Cardinality(S)
  BY <1>2
<1>5. Established \in Seq(Entries)
  BY <1>3, <1>4, SeqMonotonic
<1>6. \A i \in 1..Len(Established) : Established[i] \in S
  BY <1>2, <1>3
<1>. QED
  BY <1>5, <1>6 DEF S

\* What the clean filter makes of a file, if it does not fail.
LEMMA CleanOK ==
  ASSUME FilesOK, NEW d \in Docs, NEW b \in Contents \ {NoFile}, ~CleanFails(d, b)
  PROVE  /\ Clean(d, b) \in Contents \ {NoFile}
         /\ Clean(d, b).text = b.text
         /\ acl[d] # NoACL => IsEnvelope(Clean(d, b))
         /\ (acl[d] # NoACL /\ ~IsEnvelope(b)) =>
              /\ \A k \in Clean(d, b).keys : \E t \in acl[d] :
                   t[1] = k[1] /\ k[2] <= issued[k[1]]
              /\ \A t \in acl[d] : \E k \in Clean(d, b).keys :
                   t[1] = k[1] /\ k[2] <= issued[k[1]]
<1>1. CASE IsEnvelope(b) \/ acl[d] = NoACL
  BY <1>1 DEF Clean, Contents
<1>2. CASE ~IsEnvelope(b) /\ acl[d] # NoACL
  <2>. DEFINE K == {ring[ByToken(ring, t)].key : t \in acl[d]}
  <2>1. Clean(d, b) = [text |-> b.text, keys |-> K]
    BY <1>2 DEF Clean
  <2>2. acl[d] # {} /\ \A t \in acl[d] : ByToken(ring, t) # 0
    BY <1>2 DEF CleanFails
  <2>3. \A t \in acl[d] : /\ ring[ByToken(ring, t)].token = t
                          /\ ring[ByToken(ring, t)].key \in Keys
                          /\ Real(ring[ByToken(ring, t)], issued)
    <3>. SUFFICES ASSUME NEW t \in acl[d]
                  PROVE  /\ ring[ByToken(ring, t)].token = t
                         /\ ring[ByToken(ring, t)].key \in Keys
                         /\ Real(ring[ByToken(ring, t)], issued)
      OBVIOUS
    <3>1. ByToken(ring, t) \in 1..Len(ring) /\ ring[ByToken(ring, t)].token = t
      BY <2>2, FoundByToken DEF FilesOK
    <3>2. ring[ByToken(ring, t)] \in Entries
      BY <3>1, ElementOfSeq DEF FilesOK
    <3>. QED
      BY <3>1, <3>2 DEF FilesOK, RealRing, Entries
  <2>4. K \subseteq Keys /\ K # {}
    BY <2>2, <2>3
  <2>5. /\ \A k \in K : \E t \in acl[d] : t[1] = k[1] /\ k[2] <= issued[k[1]]
        /\ \A t \in acl[d] : \E k \in K : t[1] = k[1] /\ k[2] <= issued[k[1]]
    BY <2>3 DEF Real
  <2>. HIDE DEF K
  <2>6. b.text \in Texts
    BY DEF Contents
  <2>7. [text |-> b.text, keys |-> K] \in [text : Texts, keys : SUBSET Keys]
    BY <2>4, <2>6
  <2>8. Clean(d, b) \in Contents /\ Clean(d, b) # NoFile
    BY <2>1, <2>7, VaultAssumption DEF Contents, Keys
  <2>. QED
    BY <2>1, <2>4, <2>5, <2>8 DEF IsEnvelope
<1>. QED
  BY <1>1, <1>2

LEMMA PlainOK ==
  ASSUME NEW t \in Texts
  PROVE  Plain(t) \in Contents \ {NoFile} /\ Plain(t).text = t /\ ~IsEnvelope(Plain(t))
<1>1. Plain(t) \in [text : Texts, keys : SUBSET Keys]
  BY DEF Plain
<1>. QED
  BY <1>1, VaultAssumption DEF Contents, Keys, Plain, IsEnvelope

LEMMA SmudgeOK ==
  ASSUME NEW b \in Contents \ {NoFile}
  PROVE  Smudge(b) \in Contents \ {NoFile} /\ Smudge(b).text = b.text
<1>1. b.text \in Texts
  BY DEF Contents
<1>. QED
  BY <1>1, PlainOK DEF Smudge

-----------------------------------------------------------------------------
\* The others' commands are told of a change and are otherwise as they were.

Told(c, fs) == [c EXCEPT !.touched = @ \cup fs]
Grown(is, js) == \A q \in Persons : is[q] <= js[q]
IsTold(c, d, fs) ==
  /\ d # NoCmd /\ d \in Cmds
  /\ d.op = c.op /\ d.doc = c.doc /\ d.nicks = c.nicks /\ d.entry = c.entry
  /\ d.at = c.at /\ d.ring = c.ring /\ d.out = c.out /\ d.text = c.text
  /\ d.todo = c.todo /\ d.docs = c.docs /\ d.touched = c.touched \cup fs

LEMMA ToldFields ==
  ASSUME NEW c \in Cmds, NEW fs \in SUBSET Paths
  PROVE  IsTold(c, Told(c, fs), fs)
<1>1. Told(c, fs) \in Cmds
  BY DEF Told, Cmds
<1>2. Told(c, fs) # NoCmd
  BY <1>1 DEF Cmds, NoCmd, Ops
<1>. QED
  BY <1>1, <1>2 DEF Told, Cmds, IsTold

LEMMA ActiveShape ==
  ASSUME CmdsOK, NEW p \in Procs, cmd[p] # NoCmd
  PROVE  Shaped(cmd[p], issued) /\ cmd[p] \in Cmds
BY DEF CmdsOK, Shaped

LEMMA OthersTold ==
  ASSUME CmdsOK, NEW p \in Procs, NEW c, NEW fs \in SUBSET Paths, Step(p, c, fs),
         NEW q \in Procs, q # p
  PROVE  \/ cmd[q] = NoCmd /\ cmd'[q] = NoCmd
         \/ cmd[q] # NoCmd /\ IsTold(cmd[q], cmd'[q], fs)
<1>1. CASE cmd[q] = NoCmd
  BY <1>1 DEF Step
<1>2. CASE cmd[q] # NoCmd
  <2>1. cmd'[q] = Told(cmd[q], fs)
    BY <1>2 DEF Step, Told
  <2>. QED
    BY <1>2, <2>1, ToldFields, ActiveShape
<1>. QED
  BY <1>1, <1>2

LEMMA AllTold ==
  ASSUME CmdsOK, NEW fs \in SUBSET Paths, Touch(fs), NEW q \in Procs
  PROVE  \/ cmd[q] = NoCmd /\ cmd'[q] = NoCmd
         \/ cmd[q] # NoCmd /\ IsTold(cmd[q], cmd'[q], fs)
<1>1. CASE cmd[q] = NoCmd
  BY <1>1 DEF Touch
<1>2. CASE cmd[q] # NoCmd
  <2>1. cmd'[q] = Told(cmd[q], fs)
    BY <1>2 DEF Touch, Told
  <2>. QED
    BY <1>2, <2>1, ToldFields, ActiveShape
<1>. QED
  BY <1>1, <1>2

\* What was generated stays generated.
LEMMA GrownReal ==
  ASSUME NEW is \in [Persons -> 0..MaxGen], NEW js \in [Persons -> 0..MaxGen],
         Grown(is, js)
  PROVE  /\ \A e \in Entries : Real(e, is) => Real(e, js)
         /\ \A r \in Seq(Entries) : RealRing(r, is) => RealRing(r, js)
         /\ \A ts \in SUBSET Tokens : RealTokens(ts, is) => RealTokens(ts, js)
<1>1. \A e \in Entries : Real(e, is) => Real(e, js)
  <2>. SUFFICES ASSUME NEW e \in Entries, Real(e, is) PROVE Real(e, js)
    OBVIOUS
  <2>1. /\ e.token[1] \in Persons /\ e.token[2] \in Nat /\ e.key[2] \in Nat
        /\ is[e.token[1]] \in Nat /\ js[e.token[1]] \in Nat
        /\ is[e.token[1]] <= js[e.token[1]]
    BY VaultAssumption DEF Entries, Tokens, Keys, Grown
  <2>. QED
    BY <2>1 DEF Real
<1>2. \A r \in Seq(Entries) : RealRing(r, is) => RealRing(r, js)
  BY <1>1, ElementOfSeq DEF RealRing
<1>3. \A ts \in SUBSET Tokens : RealTokens(ts, is) => RealTokens(ts, js)
  <2>. SUFFICES ASSUME NEW ts \in SUBSET Tokens, NEW t \in ts, t[2] <= is[t[1]]
                PROVE  t[2] <= js[t[1]]
    BY DEF RealTokens
  <2>1. /\ t[1] \in Persons /\ t[2] \in Nat /\ is[t[1]] \in Nat /\ js[t[1]] \in Nat
        /\ is[t[1]] <= js[t[1]]
    BY VaultAssumption DEF Tokens, Keys, Grown
  <2>. QED
    BY <2>1
<1>. QED
  BY <1>1, <1>2, <1>3

LEMMA ToldShaped ==
  ASSUME NEW c, Shaped(c, issued), NEW d, NEW fs \in SUBSET Paths, IsTold(c, d, fs),
         issued \in [Persons -> 0..MaxGen], issued' \in [Persons -> 0..MaxGen],
         Grown(issued, issued')
  PROVE  Shaped(d, issued')
<1>1. RealRing(d.ring, issued') /\ RealTokens(d.out, issued')
  <2>1. RealRing(d.ring, issued) /\ d.ring \in Seq(Entries)
    BY DEF Shaped, IsTold, Cmds
  <2>2. RealTokens(d.out, issued) /\ d.out \in SUBSET Tokens
    BY DEF Shaped, IsTold, Cmds
  <2>. QED
    BY <2>1, <2>2, GrownReal
<1>2. (c.entry \in Entries /\ Real(c.entry, issued)) => Real(d.entry, issued')
  BY GrownReal DEF IsTold
<1>. QED
  BY <1>1, <1>2 DEF Shaped, IsTold

\* One command moves, the others are told.
LEMMA StepShaped ==
  ASSUME FilesOK, CmdsOK, NEW p \in Procs, NEW c, NEW fs \in SUBSET Paths, Step(p, c, fs),
         issued' \in [Persons -> 0..MaxGen], Grown(issued, issued'),
         c = NoCmd \/ Shaped(c, issued')
  PROVE  CmdsOK'
<1>. SUFFICES ASSUME NEW q \in Procs
              PROVE  cmd'[q] = NoCmd \/ Shaped(cmd'[q], issued')
  BY DEF CmdsOK
<1>1. CASE q = p
  BY <1>1 DEF Step
<1>2. CASE q # p
  BY <1>2, OthersTold, ActiveShape, ToldShaped DEF FilesOK
<1>. QED
  BY <1>1, <1>2

LEMMA SameGrown ==
  ASSUME FilesOK
  PROVE  Grown(issued, issued)
BY VaultAssumption DEF FilesOK, Grown

-----------------------------------------------------------------------------
\* The types: one lemma per action.

LEMMA Activity ==
  ASSUME GhostsOK, Act
  PROVE  acts' \in 0..MaxActs
BY VaultAssumption DEF GhostsOK, Act

\* A step of p that moves on to c and keeps the key pairs issued.
LEMMA MoveOn ==
  ASSUME TypeInv, NEW p \in Procs, NEW c, NEW fs \in SUBSET Paths, Step(p, c, fs),
         issued' = issued, c = NoCmd \/ Shaped(c, issued), FilesOK', GhostsOK'
  PROVE  TypeInv'
<1>1. issued' \in [Persons -> 0..MaxGen] /\ Grown(issued, issued')
  BY SameGrown DEF TypeInv, FilesOK
<1>2. CmdsOK'
  BY <1>1, StepShaped DEF TypeInv
<1>. QED
  BY <1>2 DEF TypeInv

LEMMA SameFiles ==
  ASSUME FilesOK, UNCHANGED files
  PROVE  FilesOK' /\ issued' = issued
<1>1. UNCHANGED <<work, repo, acl, ring, mykey, filter, issued>>
  BY DEF files
<1>. QED
  BY <1>1 DEF FilesOK, RealRing, RealTokens, Real

LEMMA SameGhosts ==
  ASSUME GhostsOK, UNCHANGED Ghosts, acts' \in 0..MaxActs, faults' \in 0..MaxFaults
  PROVE  GhostsOK'
BY DEF GhostsOK, Ghosts

LEMMA InternalOK ==
  ASSUME TypeInv, NEW p \in Procs, NEW c, Step(p, c, {}), Internal,
         c = NoCmd \/ Shaped(c, issued)
  PROVE  TypeInv'
<1>1. FilesOK' /\ GhostsOK' /\ issued' = issued
  <2>1. UNCHANGED files /\ UNCHANGED Ghosts /\ acts' = acts /\ faults' = faults
    BY DEF Internal
  <2>2. acts' \in 0..MaxActs /\ faults' \in 0..MaxFaults
    BY <2>1 DEF TypeInv, GhostsOK
  <2>. QED
    BY <2>1, <2>2, SameFiles, SameGhosts DEF TypeInv
<1>. QED
  BY <1>1, MoveOn

LEMMA RequestOK ==
  ASSUME FilesOK, NEW r \in Requests
  PROVE  /\ r[1] \in Ops /\ r[2] \in Docs \cup {NoFile} /\ r[3] \in SUBSET Persons
         /\ r[4] \in Entries \cup {NoFile}
         /\ IF r[1] \in {"set", "add", "rm"} THEN r[2] \in Docs ELSE r[2] = NoFile
         /\ r[1] = "import" => r[4] \in Entries /\ Real(r[4], issued)
<1>1. CASE r \in ({"set"} \X Docs \X (SUBSET Persons) \X {NoFile})
                 \cup ({"add", "rm"} \X Docs \X (SUBSET Persons \ {{}}) \X {NoFile})
  BY <1>1 DEF Ops
<1>2. CASE r \in {"import"} \X {NoFile} \X {{}} \X UNION {Bundles(q) : q \in Persons \ {Me}}
  <2>1. PICK q \in Persons : r[4] \in Issued(q)
    BY <1>2 DEF Bundles
  <2>2. PICK t \in 1..issued[q], k \in 1..issued[q] :
          r[4] = [token |-> <<q, t>>, key |-> <<q, k>>]
    BY <2>1 DEF Issued
  <2>3. issued[q] \in 0..MaxGen
    BY DEF FilesOK
  <2>4. t \in 1..MaxGen /\ k \in 1..MaxGen /\ t <= issued[q] /\ k <= issued[q]
    BY <2>3, VaultAssumption
  <2>5. <<q, t>> \in Keys /\ <<q, k>> \in Keys
    BY <2>4 DEF Keys
  <2>6. r[4] \in Entries /\ Real(r[4], issued)
    BY <2>2, <2>4, <2>5 DEF Entries, Tokens, Real
  <2>. QED
    BY <1>2, <2>6 DEF Ops
<1>3. CASE r \in {"self_init", "lock", "unlock"} \X {NoFile} \X {{}} \X {NoFile}
  BY <1>3 DEF Ops
<1>. QED
  BY <1>1, <1>2, <1>3 DEF Requests

\* The first stage of a command is one of its stages; nothing is done in it yet.
LEMMA FirstStageOK ==
  ASSUME NEW op \in Ops
  PROVE  /\ FirstStage(op) \in Stages /\ FirstStage(op) \in StagesOf[op]
         /\ op = "self_init" => FirstStage(op) = "forge"
         /\ FirstStage(op) \notin {"seal", "write", "truncate"}
         /\ op = "lock" <=> FirstStage(op) = "open"
BY DEF FirstStage, Ops, Stages, StagesOf

LEMMA EmptyRing ==
  <<>> \in Seq(Entries) /\ (\A is : RealRing(<<>>, is)) /\ (\A is : RealTokens({}, is))
BY DEF RealRing, RealTokens

\* The command that a request starts.
StartOf(r, docs) ==
  [op |-> r[1], doc |-> r[2], nicks |-> r[3], entry |-> r[4],
   at |-> FirstStage(r[1]), ring |-> <<>>, out |-> {}, text |-> Blank,
   todo |-> docs, docs |-> docs, touched |-> {}]

LEMMA StartShaped ==
  ASSUME FilesOK, NEW r \in Requests, NEW docs \in SUBSET Docs
  PROVE  Shaped(StartOf(r, docs), issued) /\ StartOf(r, docs) # NoCmd
<1>. DEFINE c == StartOf(r, docs)
<1>1. /\ c.op = r[1] /\ c.doc = r[2] /\ c.nicks = r[3] /\ c.entry = r[4]
      /\ c.at = FirstStage(r[1]) /\ c.ring = <<>> /\ c.out = {}
  BY DEF StartOf
<1>2. c \in Cmds
  <2>1. Blank \in Texts /\ FirstStage(r[1]) \in Stages
    BY VaultAssumption, RequestOK, FirstStageOK
  <2>2. /\ r[1] \in Ops /\ r[2] \in Docs \cup {NoFile} /\ r[3] \in SUBSET Persons
        /\ r[4] \in Entries \cup {NoFile}
    BY RequestOK
  <2>. QED
    BY <2>1, <2>2, EmptyRing DEF StartOf, Cmds
<1>. HIDE DEF c
<1>3. Shaped(c, issued)
  <2>1. /\ IF c.op \in {"set", "add", "rm"} THEN c.doc \in Docs ELSE c.doc = NoFile
        /\ c.op = "import" => c.entry \in Entries /\ Real(c.entry, issued)
    BY <1>1, RequestOK
  <2>2. /\ c.at \in StagesOf[c.op] /\ c.at # "seal"
        /\ c.op = "self_init" => c.at = "forge"
    BY <1>1, RequestOK, FirstStageOK
  <2>3. RealRing(c.ring, issued) /\ RealTokens(c.out, issued)
    BY <1>1, EmptyRing
  <2>. QED
    BY <1>2, <2>1, <2>2, <2>3 DEF Shaped
<1>4. c # NoCmd
  BY <1>2 DEF Cmds, NoCmd, Ops
<1>. QED
  BY <1>3, <1>4 DEF c

LEMMA StartOK ==
  ASSUME TypeInv, NEW p \in Procs, NEW r \in Requests, Start(p, r)
  PROVE  TypeInv'
<1>. DEFINE docs == IF r[1] = "lock" THEN WithACL ELSE {}
<1>1. Step(p, StartOf(r, docs), {}) /\ Act /\ UNCHANGED files /\ UNCHANGED Ghosts
      /\ faults' = faults
  BY DEF Start, StartOf
<1>2. docs \in SUBSET Docs
  BY DEF WithACL
<1>. HIDE DEF docs
<1>3. Shaped(StartOf(r, docs), issued)
  BY <1>2, StartShaped DEF TypeInv
<1>4. FilesOK' /\ issued' = issued
  BY <1>1, SameFiles DEF TypeInv
<1>5. GhostsOK'
  <2>1. faults' \in 0..MaxFaults /\ acts' \in 0..MaxActs
    BY <1>1, Activity DEF TypeInv, GhostsOK
  <2>. QED
    BY <1>1, <2>1, SameGhosts DEF TypeInv
<1>. QED
  BY <1>1, <1>3, <1>4, <1>5, MoveOn

\* A command goes to another stage of its own.
LEMMA StageOK ==
  ASSUME NEW c, Shaped(c, issued), NEW stage \in StagesOf[c.op], stage \in Stages,
         c.op = "lock" => stage = c.at,
         (c.op = "self_init" /\ c.at \in {"forge", "forged"}) => stage \in {"forge", "forged"}
  PROVE  /\ Shaped([c EXCEPT !.at = stage], issued)
         /\ [c EXCEPT !.at = stage].at = stage
         /\ [c EXCEPT !.at = stage].op = c.op /\ [c EXCEPT !.at = stage].doc = c.doc
         /\ [c EXCEPT !.at = stage].out = c.out /\ [c EXCEPT !.at = stage].nicks = c.nicks
         /\ [c EXCEPT !.at = stage].touched = c.touched
         /\ [c EXCEPT !.at = stage].text = c.text
<1>. DEFINE d == [c EXCEPT !.at = stage]
<1>1. /\ d \in Cmds /\ d.op = c.op /\ d.doc = c.doc /\ d.nicks = c.nicks /\ d.entry = c.entry
      /\ d.at = stage /\ d.ring = c.ring /\ d.out = c.out /\ d.text = c.text
      /\ d.touched = c.touched
  BY DEF Shaped, Cmds
<1>. HIDE DEF d
<1>2. Shaped(d, issued)
  BY <1>1 DEF Shaped
<1>. QED
  BY <1>1, <1>2 DEF d

\* Where Load leads: to the keyring's copy, or to the tokens of an acl set.
LEMMA LoadMoves ==
  ASSUME TypeInv, NEW p \in Procs, Load(p)
  PROVE  \E c : /\ Step(p, c, {}) /\ Internal
                /\ \/ c = NoCmd
                   \/ /\ Shaped(c, issued) /\ c.op = cmd[p].op /\ c.doc = cmd[p].doc
                      /\ c.op \in {"set", "add", "rm", "import", "self_init"}
                      /\ c.nicks = cmd[p].nicks /\ c.touched = cmd[p].touched
                      /\ c.op = "set" => /\ c.at = "truncate"
                                         /\ \A q \in Persons :
                                              q \in c.nicks <=> \E t \in c.out : t[1] = q
                      /\ c.op \in {"add", "rm"} => c.at = "read"
<1>1. cmd[p] # NoCmd /\ cmd[p].at = "load" /\ Internal
  BY DEF Load, At
<1>2. Shaped(cmd[p], issued) /\ cmd[p] \in Cmds
  BY <1>1, ActiveShape DEF TypeInv
<1>3. ring \in Seq(Entries) /\ RealRing(ring, issued)
  BY DEF TypeInv, FilesOK
<1>4. CASE cmd[p].op = "set" /\ Resolves(ring, cmd[p].nicks)
  <2>. DEFINE toks == TokensOf(ring, cmd[p].nicks)
              c == [cmd[p] EXCEPT !.out = toks, !.at = "truncate"]
  <2>1. Step(p, c, {})
    BY <1>4 DEF Load
  <2>2. /\ toks \in SUBSET Tokens /\ RealTokens(toks, issued)
        /\ \A q \in Persons : q \in cmd[p].nicks <=> \E t \in toks : t[1] = q
    BY <1>2, <1>3, <1>4, ResolvedTokens DEF Cmds
  <2>. HIDE DEF toks
  <2>3. /\ c \in Cmds /\ c.op = cmd[p].op /\ c.doc = cmd[p].doc /\ c.nicks = cmd[p].nicks
        /\ c.at = "truncate" /\ c.ring = cmd[p].ring /\ c.out = toks
        /\ c.touched = cmd[p].touched
    BY <1>2, <2>2 DEF Cmds, Stages
  <2>. HIDE DEF c
  <2>4. Shaped(c, issued)
    BY <1>2, <1>4, <2>2, <2>3 DEF Shaped, StagesOf
  <2>. QED
    BY <1>1, <1>4, <2>1, <2>2, <2>3, <2>4
<1>5. CASE cmd[p].op = "set" /\ ~Resolves(ring, cmd[p].nicks)
  <2>1. Step(p, NoCmd, {})
    BY <1>5 DEF Load
  <2>. QED
    BY <1>1, <2>1
<1>6. CASE cmd[p].op \in {"add", "rm"}
  <2>. DEFINE c == [cmd[p] EXCEPT !.ring = ring, !.at = "read"]
  <2>1. Step(p, c, {})
    BY <1>6 DEF Load
  <2>3. /\ c \in Cmds /\ c.op = cmd[p].op /\ c.doc = cmd[p].doc /\ c.nicks = cmd[p].nicks
        /\ c.at = "read" /\ c.ring = ring /\ c.out = cmd[p].out
        /\ c.touched = cmd[p].touched
    BY <1>2, <1>3 DEF Cmds, Stages
  <2>. HIDE DEF c
  <2>4. Shaped(c, issued)
    BY <1>2, <1>3, <1>6, <2>3 DEF Shaped, StagesOf
  <2>. QED
    BY <1>1, <1>6, <2>1, <2>3, <2>4
<1>7. CASE cmd[p].op \in {"import", "self_init"}
  <2>. DEFINE r == Append(ring, cmd[p].entry)
              c == [cmd[p] EXCEPT !.ring = r, !.at = "truncate"]
  <2>1. Step(p, c, {})
    BY <1>7 DEF Load
  <2>2. cmd[p].entry \in Entries /\ Real(cmd[p].entry, issued)
    BY <1>1, <1>2, <1>7 DEF Shaped
  <2>3. r \in Seq(Entries) /\ RealRing(r, issued)
    <3>1. /\ r \in Seq(Entries) /\ Len(r) = Len(ring) + 1 /\ r[Len(r)] = cmd[p].entry
          /\ \A i \in 1..Len(ring) : r[i] = ring[i]
      BY <1>3, <2>2, AppendProperties
    <3>2. Len(ring) \in Nat
      BY <1>3
    <3>. HIDE DEF r
    <3>3. \A i \in 1..Len(r) : i \in 1..Len(ring) \/ i = Len(r)
      BY <3>1, <3>2
    <3>. QED
      BY <1>3, <2>2, <3>1, <3>3 DEF RealRing
  <2>. HIDE DEF r
  <2>4. /\ c \in Cmds /\ c.op = cmd[p].op /\ c.doc = cmd[p].doc /\ c.nicks = cmd[p].nicks
        /\ c.at = "truncate" /\ c.ring = r /\ c.out = cmd[p].out
        /\ c.touched = cmd[p].touched /\ c.entry = cmd[p].entry
    BY <1>2, <2>3 DEF Cmds, Stages
  <2>. HIDE DEF c
  <2>5. Shaped(c, issued)
    BY <1>2, <1>7, <2>2, <2>3, <2>4 DEF Shaped, StagesOf
  <2>. QED
    BY <1>1, <1>7, <2>1, <2>4, <2>5
<1>. QED
  BY <1>4, <1>5, <1>6, <1>7 DEF Load

\* mutateACL: the readers there are, changed by the tokens of the nicknames.
LEMMA ReadMoves ==
  ASSUME TypeInv, NEW p \in Procs, ReadACL(p)
  PROVE  \E c : /\ Step(p, c, {}) /\ Internal
                /\ \/ c = NoCmd
                   \/ /\ Shaped(c, issued) /\ c.op = cmd[p].op /\ c.doc = cmd[p].doc
                      /\ c.op \in {"add", "rm"}
                      /\ c.nicks = cmd[p].nicks /\ c.touched = cmd[p].touched
                      /\ c.at = "truncate" /\ acl[c.doc] # NoACL
                      /\ Resolves(cmd[p].ring, c.nicks)
                      /\ c.out = Changed(cmd[p], acl[c.doc], TokensOf(cmd[p].ring, c.nicks))
<1>1. cmd[p] # NoCmd /\ cmd[p].at = "read" /\ Internal
  BY DEF ReadACL, At
<1>2. Shaped(cmd[p], issued) /\ cmd[p] \in Cmds
  BY <1>1, ActiveShape DEF TypeInv
<1>3. cmd[p].op \in {"add", "rm"} /\ cmd[p].doc \in Docs
  BY <1>1, <1>2 DEF Shaped, StagesOf, Cmds, Ops
<1>4. CASE acl[cmd[p].doc] # NoACL /\ Resolves(cmd[p].ring, cmd[p].nicks)
  <2>. DEFINE toks == TokensOf(cmd[p].ring, cmd[p].nicks)
              out == Changed(cmd[p], acl[cmd[p].doc], toks)
              c == [cmd[p] EXCEPT !.out = out, !.ring = <<>>, !.at = "truncate"]
  <2>1. Step(p, c, {})
    BY <1>4 DEF ReadACL
  <2>2. toks \in SUBSET Tokens /\ RealTokens(toks, issued)
    BY <1>2, <1>4, ResolvedTokens DEF Shaped, Cmds
  <2>3. acl[cmd[p].doc] \in SUBSET Tokens /\ RealTokens(acl[cmd[p].doc], issued)
    BY <1>3, <1>4 DEF TypeInv, FilesOK
  <2>4. out \in SUBSET Tokens /\ RealTokens(out, issued)
    BY <2>2, <2>3 DEF Changed, RealTokens
  <2>. HIDE DEF out
  <2>5. /\ c \in Cmds /\ c.op = cmd[p].op /\ c.doc = cmd[p].doc /\ c.nicks = cmd[p].nicks
        /\ c.at = "truncate" /\ c.ring = <<>> /\ c.out = out
        /\ c.touched = cmd[p].touched
    BY <1>2, <2>4, EmptyRing DEF Cmds, Stages
  <2>. HIDE DEF c
  <2>6. Shaped(c, issued)
    BY <1>2, <1>3, <2>4, <2>5, EmptyRing DEF Shaped, StagesOf
  <2>. QED
    BY <1>1, <1>3, <1>4, <2>1, <2>5, <2>6 DEF out
<1>5. CASE ~(acl[cmd[p].doc] # NoACL /\ Resolves(cmd[p].ring, cmd[p].nicks))
  <2>1. Step(p, NoCmd, {})
    BY <1>5 DEF ReadACL
  <2>. QED
    BY <1>1, <2>1
<1>. QED
  BY <1>4, <1>5

\* The ACL file, or the keyring, is emptied.
LEMMA TruncateMoves ==
  ASSUME TypeInv, NEW p \in Procs, Truncate(p)
  PROVE  \E c : /\ Shaped(c, issued) /\ c.op = cmd[p].op /\ c.doc = cmd[p].doc
                /\ c.out = cmd[p].out /\ c.nicks = cmd[p].nicks
                /\ c.touched = cmd[p].touched /\ c.at = "write"
                /\ cmd[p].at = "truncate" /\ cmd[p] # NoCmd
                /\ \/ /\ c.doc \in Docs /\ acl' = [acl EXCEPT ![c.doc] = {}]
                      /\ ring' = ring /\ Step(p, c, {ACLFile(c.doc)})
                   \/ /\ c.doc = NoFile /\ ring' = <<>> /\ acl' = acl /\ Step(p, c, {})
<1>. DEFINE c == [cmd[p] EXCEPT !.at = "write"]
<1>1. cmd[p] # NoCmd /\ cmd[p].at = "truncate"
  BY DEF Truncate, At
<1>2. Shaped(cmd[p], issued) /\ cmd[p] \in Cmds
  BY <1>1, ActiveShape DEF TypeInv
<1>3. cmd[p].op \in {"set", "add", "rm", "import", "self_init"}
  BY <1>1, <1>2 DEF Shaped, StagesOf, Cmds, Ops
<1>4. "write" \in StagesOf[cmd[p].op] /\ "write" \in Stages
  BY <1>3 DEF StagesOf, Stages
<1>5. /\ Shaped(c, issued) /\ c.op = cmd[p].op /\ c.doc = cmd[p].doc
      /\ c.out = cmd[p].out /\ c.nicks = cmd[p].nicks
      /\ c.touched = cmd[p].touched /\ c.at = "write"
  BY <1>1, <1>2, <1>3, <1>4, StageOK
<1>6. \/ /\ cmd[p].doc \in Docs /\ acl' = [acl EXCEPT ![cmd[p].doc] = {}]
         /\ ring' = ring /\ Step(p, c, {ACLFile(cmd[p].doc)})
      \/ /\ cmd[p].doc = NoFile /\ ring' = <<>> /\ acl' = acl /\ Step(p, c, {})
  <2>1. CASE cmd[p].doc # NoFile
    BY <1>2, <2>1 DEF Truncate, Go, Cmds
  <2>2. CASE cmd[p].doc = NoFile
    BY <2>2 DEF Truncate, Go
  <2>. QED
    BY <2>1, <2>2
<1>. HIDE DEF c
<1>. QED
  BY <1>1, <1>5, <1>6

LEMMA PathsOK ==
  ASSUME NEW d \in Docs
  PROVE  {File(d)} \in SUBSET Paths /\ {ACLFile(d)} \in SUBSET Paths
BY DEF Paths

LEMMA TruncateOK ==
  ASSUME TypeInv, NEW p \in Procs, Truncate(p)
  PROVE  TypeInv'
<1>1. PICK c : /\ Shaped(c, issued)
               /\ \/ /\ c.doc \in Docs /\ acl' = [acl EXCEPT ![c.doc] = {}]
                     /\ ring' = ring /\ Step(p, c, {ACLFile(c.doc)})
                  \/ /\ c.doc = NoFile /\ ring' = <<>> /\ acl' = acl /\ Step(p, c, {})
  BY TruncateMoves
<1>2. UNCHANGED <<work, repo, mykey, filter, issued>> /\ UNCHANGED Ghosts
      /\ acts' = acts /\ faults' = faults
  BY DEF Truncate
<1>3. GhostsOK'
  <2>1. acts' \in 0..MaxActs /\ faults' \in 0..MaxFaults
    BY <1>2 DEF TypeInv, GhostsOK
  <2>. QED
    BY <1>2, <2>1, SameGhosts DEF TypeInv
<1>4. FilesOK'
  <2>1. acl' \in [Docs -> (SUBSET Tokens) \cup {NoACL}]
        /\ \A d \in Docs : acl'[d] # NoACL => RealTokens(acl'[d], issued)
    BY <1>1, EmptyRing DEF TypeInv, FilesOK
  <2>2. ring' \in Seq(Entries) /\ RealRing(ring', issued)
    BY <1>1, EmptyRing DEF TypeInv, FilesOK
  <2>. QED
    BY <1>2, <2>1, <2>2 DEF TypeInv, FilesOK, RealRing, RealTokens, Real
<1>5. \E fs \in SUBSET Paths : Step(p, c, fs)
  BY <1>1, PathsOK
<1>. QED
  BY <1>1, <1>2, <1>3, <1>4, <1>5, MoveOn

LEMMA WriteACLOK ==
  ASSUME TypeInv, NEW p \in Procs, WriteACL(p)
  PROVE  TypeInv'
<1>. DEFINE c == cmd[p]
<1>1. c # NoCmd /\ c.at = "write" /\ c.doc # NoFile
  BY DEF WriteACL, At
<1>2. Shaped(c, issued) /\ c \in Cmds
  BY <1>1, ActiveShape DEF TypeInv
<1>3. c.doc \in Docs /\ c.out \in SUBSET Tokens /\ RealTokens(c.out, issued)
      /\ c.op \in {"set", "add", "rm"} /\ c.nicks \in SUBSET Persons
  BY <1>1, <1>2 DEF Shaped, Cmds, StagesOf, Ops
<1>4. /\ acl' = [acl EXCEPT ![c.doc] = c.out] /\ Step(p, NoCmd, {ACLFile(c.doc)})
      /\ named' = [named EXCEPT ![c.doc] = Meant(c)]
      /\ muddled' \subseteq muddled \cup {c.doc}
      /\ UNCHANGED <<work, repo, ring, mykey, filter, issued, latest, spilled, acts, faults>>
  BY DEF WriteACL
<1>5. Meant(c) \in SUBSET Persons
  BY <1>3 DEF Meant, TypeInv, GhostsOK
<1>6. GhostsOK'
  BY <1>3, <1>4, <1>5 DEF TypeInv, GhostsOK
<1>7. FilesOK'
  <2>1. acl' \in [Docs -> (SUBSET Tokens) \cup {NoACL}]
        /\ \A d \in Docs : acl'[d] # NoACL => RealTokens(acl'[d], issued)
    BY <1>3, <1>4 DEF TypeInv, FilesOK
  <2>. QED
    BY <1>4, <2>1 DEF TypeInv, FilesOK, RealRing, RealTokens, Real
<1>. QED
  BY <1>3, <1>4, <1>6, <1>7, PathsOK, MoveOn

LEMMA SaveKeyringOK ==
  ASSUME TypeInv, NEW p \in Procs, SaveKeyring(p)
  PROVE  TypeInv'
<1>1. cmd[p] # NoCmd
  BY DEF SaveKeyring, At
<1>2. cmd[p].ring \in Seq(Entries) /\ RealRing(cmd[p].ring, issued)
  BY <1>1, ActiveShape DEF TypeInv, Shaped, Cmds
<1>3. /\ ring' = cmd[p].ring /\ Step(p, NoCmd, {})
      /\ UNCHANGED <<work, repo, acl, mykey, filter, issued, acts, faults>>
      /\ UNCHANGED Ghosts
  BY DEF SaveKeyring
<1>4. GhostsOK'
  <2>1. acts' \in 0..MaxActs /\ faults' \in 0..MaxFaults
    BY <1>3 DEF TypeInv, GhostsOK
  <2>. QED
    BY <1>3, <2>1, SameGhosts DEF TypeInv
<1>5. FilesOK'
  BY <1>2, <1>3 DEF TypeInv, FilesOK, RealRing, RealTokens, Real
<1>. QED
  BY <1>3, <1>4, <1>5, MoveOn

LEMMA ForgeOK ==
  ASSUME TypeInv, NEW p \in Procs, Forge(p)
  PROVE  TypeInv'
<1>. DEFINE c == [cmd[p] EXCEPT !.at = "forged"]
<1>1. cmd[p] # NoCmd /\ cmd[p].at = "forge"
  BY DEF Forge, At
<1>2. Shaped(cmd[p], issued) /\ cmd[p].op = "self_init"
  BY <1>1, ActiveShape DEF TypeInv, Shaped, StagesOf, Cmds, Ops
<1>3. Shaped(c, issued)
  <2>1. "forged" \in StagesOf[cmd[p].op] /\ "forged" \in Stages
    BY <1>2 DEF StagesOf, Stages
  <2>. QED
    BY <1>2, <2>1, StageOK
<1>4. /\ mykey' = Torn /\ Step(p, c, {}) /\ UNCHANGED Ghosts
      /\ UNCHANGED <<work, repo, acl, ring, filter, issued, acts, faults>>
  BY DEF Forge, Go
<1>5. GhostsOK'
  <2>1. acts' \in 0..MaxActs /\ faults' \in 0..MaxFaults
    BY <1>4 DEF TypeInv, GhostsOK
  <2>. QED
    BY <1>4, <2>1, SameGhosts DEF TypeInv
<1>6. FilesOK'
  BY <1>4 DEF TypeInv, FilesOK, RealRing, RealTokens, Real
<1>. HIDE DEF c
<1>. QED
  BY <1>3, <1>4, <1>5, <1>6, MoveOn

\* Another key pair of q's.
LEMMA IssueGrows ==
  ASSUME FilesOK, NEW q \in Persons, issued[q] < MaxGen,
         issued' = [issued EXCEPT ![q] = @ + 1]
  PROVE  /\ issued' \in [Persons -> 0..MaxGen] /\ Grown(issued, issued')
         /\ issued'[q] = issued[q] + 1 /\ issued[q] + 1 \in 1..MaxGen
         /\ \A n \in Persons : n # q => issued'[n] = issued[n]
         /\ UNCHANGED <<work, repo, acl, ring, filter>> =>
              (mykey' \in Keys \cup {NoKey, Torn} => FilesOK')
<1>1. issued[q] \in 0..MaxGen /\ \A n \in Persons : issued[n] \in 0..MaxGen
  BY DEF FilesOK
<1>2. issued[q] + 1 \in 1..MaxGen
  BY <1>1, VaultAssumption
<1>3. \A n \in Persons : issued'[n] = IF n = q THEN issued[q] + 1 ELSE issued[n]
  BY DEF FilesOK
<1>4. issued' \in [Persons -> 0..MaxGen]
  BY <1>1, <1>2 DEF FilesOK
<1>5. Grown(issued, issued')
  BY <1>1, <1>3, VaultAssumption DEF Grown
<1>6. ASSUME UNCHANGED <<work, repo, acl, ring, filter>>,
             mykey' \in Keys \cup {NoKey, Torn}
      PROVE  FilesOK'
  <2>1. RealRing(ring', issued')
    BY <1>4, <1>5, <1>6, GrownReal DEF FilesOK
  <2>2. \A d \in Docs : acl'[d] # NoACL => RealTokens(acl'[d], issued')
    <3>1. \A d \in Docs : acl[d] # NoACL => acl[d] \in SUBSET Tokens /\ RealTokens(acl[d], issued)
      BY DEF FilesOK
    <3>. QED
      BY <1>4, <1>5, <1>6, <3>1, GrownReal DEF FilesOK
  <2>. QED
    BY <1>4, <1>6, <2>1, <2>2 DEF FilesOK
<1>. QED
  BY <1>2, <1>3, <1>4, <1>5, <1>6

LEMMA ForgedMoves ==
  ASSUME TypeInv, NEW p \in Procs, Forged(p)
  PROVE  \E c : /\ Step(p, c, {}) /\ Shaped(c, issued') /\ c.op = "self_init"
                /\ c.doc = NoFile /\ c.at = "load" /\ FilesOK' /\ GhostsOK'
                /\ issued' \in [Persons -> 0..MaxGen] /\ Grown(issued, issued')
                /\ UNCHANGED <<work, repo, acl, ring, filter, acts, faults>>
                /\ UNCHANGED Ghosts
<1>. DEFINE n == issued[Me] + 1
            key == <<Me, n>>
            entry == [token |-> key, key |-> key]
            c == [cmd[p] EXCEPT !.at = "load", !.entry = entry]
<1>1. cmd[p] # NoCmd /\ cmd[p].at = "forged" /\ issued[Me] < MaxGen
  BY DEF Forged, At
<1>2. Shaped(cmd[p], issued) /\ cmd[p].op = "self_init" /\ cmd[p] \in Cmds
  BY <1>1, ActiveShape DEF TypeInv, Shaped, StagesOf, Cmds, Ops
<1>3. /\ mykey' = key /\ issued' = [issued EXCEPT ![Me] = n] /\ Step(p, c, {})
      /\ UNCHANGED <<work, repo, acl, ring, filter, acts, faults>> /\ UNCHANGED Ghosts
  BY DEF Forged
<1>4. /\ issued' \in [Persons -> 0..MaxGen] /\ Grown(issued, issued')
      /\ issued'[Me] = n /\ n \in 1..MaxGen
      /\ UNCHANGED <<work, repo, acl, ring, filter>> =>
              (mykey' \in Keys \cup {NoKey, Torn} => FilesOK')
  BY <1>1, <1>3, IssueGrows, VaultAssumption DEF TypeInv
<1>. HIDE DEF n
<1>5. key \in Keys
  BY <1>4, VaultAssumption DEF Keys
<1>6. FilesOK'
  BY <1>3, <1>4, <1>5
<1>7. GhostsOK'
  <2>1. acts' \in 0..MaxActs /\ faults' \in 0..MaxFaults
    BY <1>3 DEF TypeInv, GhostsOK
  <2>. QED
    BY <1>3, <2>1, SameGhosts DEF TypeInv
<1>8. entry \in Entries /\ Real(entry, issued')
  <2>1. entry \in Entries
    BY <1>5 DEF Entries, Tokens
  <2>2. entry.token[1] = Me /\ entry.key[1] = Me /\ entry.token[2] = n /\ entry.key[2] = n
    OBVIOUS
  <2>. HIDE DEF entry
  <2>3. n <= n
    BY <1>4
  <2>. QED
    BY <1>4, <2>1, <2>2, <2>3 DEF Real
<1>. HIDE DEF entry
<1>9. /\ c \in Cmds /\ c.op = "self_init" /\ c.doc = cmd[p].doc /\ c.at = "load"
      /\ c.entry = entry /\ c.ring = cmd[p].ring /\ c.out = cmd[p].out
  BY <1>2, <1>8 DEF Cmds, Stages
<1>10. RealRing(c.ring, issued') /\ RealTokens(c.out, issued')
  <2>1. RealRing(c.ring, issued) /\ c.ring \in Seq(Entries)
    BY <1>2, <1>9 DEF Shaped, Cmds
  <2>2. RealTokens(c.out, issued) /\ c.out \in SUBSET Tokens
    BY <1>2, <1>9 DEF Shaped, Cmds
  <2>. QED
    BY <1>4, <2>1, <2>2, GrownReal DEF TypeInv, FilesOK
<1>. HIDE DEF c
<1>11. Shaped(c, issued') /\ c.doc = NoFile
  BY <1>2, <1>8, <1>9, <1>10 DEF Shaped, StagesOf
<1>. QED
  BY <1>3, <1>4, <1>6, <1>7, <1>9, <1>11

LEMMA ForgedOK ==
  ASSUME TypeInv, NEW p \in Procs, Forged(p)
  PROVE  TypeInv'
<1>1. PICK c : /\ Step(p, c, {}) /\ Shaped(c, issued') /\ FilesOK' /\ GhostsOK'
               /\ issued' \in [Persons -> 0..MaxGen] /\ Grown(issued, issued')
  BY ForgedMoves
<1>. QED
  BY <1>1, StepShaped DEF TypeInv

LEMMA UnlockOK ==
  ASSUME TypeInv, NEW p \in Procs, Unlock(p)
  PROVE  TypeInv'
<1>. DEFINE c == [cmd[p] EXCEPT !.at = "attributes"]
<1>1. /\ cmd[p] # NoCmd /\ cmd[p].at \in Hooks /\ filter' = filter \cup {cmd[p].at}
      /\ Step(p, IF cmd[p].at = "config" THEN c ELSE NoCmd, {})
      /\ UNCHANGED <<work, repo, acl, ring, mykey, issued, acts, faults>> /\ UNCHANGED Ghosts
  BY DEF Unlock
<1>2. Shaped(cmd[p], issued)
  BY <1>1, ActiveShape DEF TypeInv
<1>3. cmd[p].at = "config" => Shaped(c, issued)
  <2>. SUFFICES ASSUME cmd[p].at = "config" PROVE Shaped(c, issued)
    OBVIOUS
  <2>1. cmd[p].op = "unlock"
    BY <1>2 DEF Shaped, StagesOf, Cmds, Ops
  <2>2. "attributes" \in StagesOf[cmd[p].op] /\ "attributes" \in Stages
    BY <2>1 DEF StagesOf, Stages
  <2>. QED
    BY <1>2, <2>1, <2>2, StageOK
<1>4. GhostsOK'
  <2>1. acts' \in 0..MaxActs /\ faults' \in 0..MaxFaults
    BY <1>1 DEF TypeInv, GhostsOK
  <2>. QED
    BY <1>1, <2>1, SameGhosts DEF TypeInv
<1>5. FilesOK'
  BY <1>1 DEF TypeInv, FilesOK, RealRing, RealTokens, Real
<1>. HIDE DEF c
<1>. QED
  BY <1>1, <1>3, <1>4, <1>5, MoveOn

\* lock passes over a document, or empties it.
LEMMA OpenMoves ==
  ASSUME TypeInv, NEW p \in Procs, LockOpen(p)
  PROVE  \E d, c :
           /\ d \in cmd[p].todo /\ d \in Docs /\ cmd[p] # NoCmd /\ cmd[p].at = "open" /\ cmd[p].op = "lock"
           /\ Shaped(c, issued) /\ c.op = "lock" /\ c.todo = cmd[p].todo \ {d}
           /\ \/ /\ work[d] = NoFile \/ IsEnvelope(work[d])
                 /\ Step(p, c, {}) /\ work' = work
                 /\ c.at = "open" /\ c.docs = cmd[p].docs /\ c.touched = cmd[p].touched
              \/ /\ work[d] # NoFile /\ ~IsEnvelope(work[d])
                 /\ work' = [work EXCEPT ![d] = Plain(Blank)]
                 /\ Step(p, c, {File(d)})
                 /\ c.at = "seal" /\ c.doc = d /\ c.text = work[d].text
                 /\ c.docs = cmd[p].docs \ Altered(cmd[p]) /\ c.touched = {}
<1>. DEFINE d == NextOf(cmd[p].todo)
            b == work[d]
<1>1. cmd[p] # NoCmd /\ cmd[p].at = "open" /\ cmd[p].todo # {}
  BY DEF LockOpen, At
<1>2. Shaped(cmd[p], issued) /\ cmd[p].op = "lock" /\ cmd[p] \in Cmds
  BY <1>1, ActiveShape DEF TypeInv, Shaped, StagesOf, Cmds, Ops
<1>3. d \in cmd[p].todo /\ d \in Docs
  BY <1>1, <1>2 DEF NextOf, Cmds
<1>4. CASE b = NoFile \/ IsEnvelope(b)
  <2>. DEFINE c == [cmd[p] EXCEPT !.todo = @ \ {d}]
  <2>1. Step(p, c, {}) /\ work' = work
    BY <1>4 DEF LockOpen
  <2>2. /\ c \in Cmds /\ c.op = "lock" /\ c.todo = cmd[p].todo \ {d} /\ c.at = "open"
        /\ c.docs = cmd[p].docs /\ c.touched = cmd[p].touched /\ c.doc = cmd[p].doc
        /\ c.ring = cmd[p].ring /\ c.out = cmd[p].out
    BY <1>1, <1>2 DEF Cmds
  <2>. HIDE DEF c, d
  <2>3. Shaped(c, issued)
    BY <1>1, <1>2, <2>2 DEF Shaped
  <2>. QED
    BY <1>1, <1>2, <1>3, <1>4, <2>1, <2>2, <2>3
<1>5. CASE ~(b = NoFile \/ IsEnvelope(b))
  <2>. DEFINE docs == cmd[p].docs \ Altered(cmd[p])
              c == [cmd[p] EXCEPT !.todo = @ \ {d}, !.text = TextRead(b),
                                  !.docs = @ \ Altered(cmd[p]), !.touched = {},
                                  !.doc = d, !.at = "seal"]
  <2>1. Step(p, c, {File(d)}) /\ work' = [work EXCEPT ![d] = Plain(Blank)]
    BY <1>5 DEF LockOpen
  <2>2. b.text \in Texts
    BY <1>3, <1>5 DEF TypeInv, FilesOK, Contents
  <2>3. /\ c \in Cmds /\ c.op = "lock" /\ c.todo = cmd[p].todo \ {d} /\ c.at = "seal"
        /\ c.docs = docs /\ c.touched = {} /\ c.doc = d /\ c.text = b.text
        /\ c.ring = cmd[p].ring /\ c.out = cmd[p].out
    BY <1>2, <1>3, <2>2 DEF Cmds, Stages, TextRead
  <2>. HIDE DEF c, d
  <2>4. Shaped(c, issued)
    BY <1>2, <1>3, <2>3 DEF Shaped, StagesOf
  <2>. QED
    BY <1>1, <1>2, <1>3, <1>5, <2>1, <2>3, <2>4
<1>. QED
  BY <1>4, <1>5

LEMMA LockOpenOK ==
  ASSUME TypeInv, NEW p \in Procs, LockOpen(p)
  PROVE  TypeInv'
<1>1. PICK d, c :
        /\ d \in Docs /\ Shaped(c, issued)
        /\ \/ Step(p, c, {}) /\ work' = work
           \/ work' = [work EXCEPT ![d] = Plain(Blank)] /\ Step(p, c, {File(d)})
  BY OpenMoves
<1>2. UNCHANGED <<repo, acl, ring, mykey, filter, issued, acts, faults>> /\ UNCHANGED Ghosts
  BY DEF LockOpen
<1>3. GhostsOK'
  <2>1. acts' \in 0..MaxActs /\ faults' \in 0..MaxFaults
    BY <1>2 DEF TypeInv, GhostsOK
  <2>. QED
    BY <1>2, <2>1, SameGhosts DEF TypeInv
<1>4. FilesOK'
  <2>1. work' \in [Docs -> Contents]
    BY <1>1, PlainOK, VaultAssumption DEF TypeInv, FilesOK
  <2>. QED
    BY <1>2, <2>1 DEF TypeInv, FilesOK, RealRing, RealTokens, Real
<1>5. \E fs \in SUBSET Paths : Step(p, c, fs)
  BY <1>1, PathsOK
<1>. QED
  BY <1>1, <1>2, <1>3, <1>4, <1>5, MoveOn

\* lock fills the document again.
LEMMA SealMoves ==
  ASSUME TypeInv, NEW p \in Procs, LockSeal(p)
  PROVE  \E c, b :
           /\ cmd[p] # NoCmd /\ cmd[p].at = "seal" /\ cmd[p].op = "lock" /\ cmd[p].doc \in Docs
           /\ Shaped(c, issued) /\ c.op = "lock" /\ c.at = "open" /\ c.todo = cmd[p].todo
           /\ c.docs = cmd[p].docs /\ c.touched = cmd[p].touched
           /\ Step(p, c, {File(cmd[p].doc)})
           /\ b \in Contents \ {NoFile} /\ b.text = cmd[p].text
           /\ acl[cmd[p].doc] # NoACL => IsEnvelope(b)
           /\ \/ work' = [work EXCEPT ![cmd[p].doc] = b]
              \/ File(cmd[p].doc) \in cmd[p].touched /\ work' = work
<1>. DEFINE b == Clean(cmd[p].doc, Plain(cmd[p].text))
            c == [cmd[p] EXCEPT !.doc = NoFile, !.at = "open"]
<1>1. /\ cmd[p] # NoCmd /\ cmd[p].at = "seal" /\ ~CleanFails(cmd[p].doc, Plain(cmd[p].text))
      /\ Step(p, c, {File(cmd[p].doc)})
      /\ \/ work' = [work EXCEPT ![cmd[p].doc] = b]
         \/ File(cmd[p].doc) \in cmd[p].touched /\ work' = work
  BY DEF LockSeal, At
<1>2. Shaped(cmd[p], issued) /\ cmd[p].op = "lock" /\ cmd[p] \in Cmds
  BY <1>1, ActiveShape DEF TypeInv, Shaped, StagesOf, Cmds, Ops
<1>3. cmd[p].doc \in Docs /\ cmd[p].text \in Texts
  BY <1>1, <1>2 DEF Shaped, Cmds
<1>4. /\ b \in Contents \ {NoFile} /\ b.text = cmd[p].text
      /\ acl[cmd[p].doc] # NoACL => IsEnvelope(b)
  BY <1>1, <1>3, PlainOK, CleanOK DEF TypeInv
<1>. HIDE DEF b
<1>5. /\ c \in Cmds /\ c.op = "lock" /\ c.todo = cmd[p].todo /\ c.at = "open"
      /\ c.docs = cmd[p].docs /\ c.touched = cmd[p].touched /\ c.doc = NoFile
      /\ c.ring = cmd[p].ring /\ c.out = cmd[p].out
  BY <1>2 DEF Cmds, Stages
<1>. HIDE DEF c
<1>6. Shaped(c, issued)
  BY <1>2, <1>5 DEF Shaped, StagesOf
<1>. QED
  BY <1>1, <1>2, <1>3, <1>4, <1>5, <1>6

LEMMA LockSealOK ==
  ASSUME TypeInv, NEW p \in Procs, LockSeal(p)
  PROVE  TypeInv'
<1>1. PICK c, b :
        /\ cmd[p].doc \in Docs /\ Shaped(c, issued) /\ Step(p, c, {File(cmd[p].doc)})
        /\ b \in Contents \ {NoFile}
        /\ work' = [work EXCEPT ![cmd[p].doc] = b] \/ work' = work
  BY SealMoves
<1>2. /\ UNCHANGED <<repo, acl, ring, mykey, filter, issued, latest, named, muddled,
                     acts, faults>>
      /\ spilled' \subseteq spilled \cup {cmd[p].doc}
  BY DEF LockSeal
<1>3. GhostsOK'
  BY <1>1, <1>2 DEF TypeInv, GhostsOK
<1>4. FilesOK'
  <2>1. work' \in [Docs -> Contents]
    BY <1>1 DEF TypeInv, FilesOK
  <2>. QED
    BY <1>2, <2>1 DEF TypeInv, FilesOK, RealRing, RealTokens, Real
<1>. QED
  BY <1>1, <1>2, <1>3, <1>4, PathsOK, MoveOn

\* A command ends: with an error of lock, or of any kind.
LEMMA EndOK ==
  ASSUME TypeInv, NEW p \in Procs, cmd[p] # NoCmd, Step(p, NoCmd, {}), UNCHANGED files,
         UNCHANGED <<latest, named, acts>>, faults' \in 0..MaxFaults,
         \/ cmd[p].at = "seal" /\ spilled' = spilled \cup {cmd[p].doc}
         \/ spilled' = spilled,
         \/ cmd[p].doc # NoFile /\ muddled' = muddled \cup {cmd[p].doc}
         \/ muddled' = muddled
  PROVE  TypeInv'
<1>1. Shaped(cmd[p], issued) /\ cmd[p].doc \in Docs \cup {NoFile}
  BY ActiveShape DEF TypeInv, Shaped, Cmds
<1>2. cmd[p].at = "seal" => cmd[p].doc \in Docs
  BY <1>1 DEF Shaped, StagesOf, Cmds, Ops
<1>3. GhostsOK'
  BY <1>1, <1>2 DEF TypeInv, GhostsOK
<1>4. FilesOK' /\ issued' = issued
  BY SameFiles DEF TypeInv
<1>. QED
  BY <1>3, <1>4, MoveOn

LEMMA LockSpillsOK ==
  ASSUME TypeInv, NEW p \in Procs, LockSpills(p)
  PROVE  TypeInv'
<1>1. /\ cmd[p] # NoCmd /\ cmd[p].at = "seal" /\ Step(p, NoCmd, {})
      /\ spilled' = spilled \cup {cmd[p].doc} /\ UNCHANGED files
      /\ UNCHANGED <<latest, named, acts, muddled, faults>>
  BY DEF LockSpills, At
<1>2. faults' \in 0..MaxFaults
  BY <1>1 DEF TypeInv, GhostsOK
<1>. QED
  BY <1>1, <1>2, EndOK

LEMMA CommandFailsOK ==
  ASSUME TypeInv, NEW p \in Procs, CommandFails(p)
  PROVE  TypeInv'
<1>1. /\ cmd[p] # NoCmd /\ Step(p, NoCmd, {}) /\ faults' \in 0..MaxFaults
      /\ \/ cmd[p].at = "seal" /\ spilled' = spilled \cup {cmd[p].doc}
         \/ spilled' = spilled
      /\ \/ cmd[p].doc # NoFile /\ muddled' = muddled \cup {cmd[p].doc}
         \/ muddled' = muddled
      /\ UNCHANGED files /\ UNCHANGED <<latest, named, acts>>
  BY VaultAssumption DEF CommandFails, TypeInv, GhostsOK
<1>. QED
  BY <1>1, EndOK

LEMMA LockDoneOK ==
  ASSUME TypeInv, NEW p \in Procs, LockDone(p)
  PROVE  TypeInv'
<1>1. Step(p, NoCmd, {}) /\ Internal
  BY DEF LockDone
<1>. QED
  BY <1>1, InternalOK

\* The steps of editors and of git.
LEMMA TouchOK ==
  ASSUME TypeInv, NEW fs \in SUBSET Paths, Touch(fs), issued' = issued,
         FilesOK', GhostsOK'
  PROVE  TypeInv'
<1>. SUFFICES ASSUME NEW q \in Procs
              PROVE  cmd'[q] = NoCmd \/ Shaped(cmd'[q], issued')
  BY DEF TypeInv, CmdsOK
<1>1. issued' \in [Persons -> 0..MaxGen] /\ Grown(issued, issued')
  BY SameGrown DEF TypeInv, FilesOK
<1>2. \/ cmd[q] = NoCmd /\ cmd'[q] = NoCmd
      \/ cmd[q] # NoCmd /\ IsTold(cmd[q], cmd'[q], fs)
  BY AllTold DEF TypeInv
<1>. QED
  BY <1>1, <1>2, ActiveShape, ToldShaped DEF TypeInv, FilesOK

LEMMA EditOK ==
  ASSUME TypeInv, NEW d \in Docs, NEW t \in Texts \cup {NoFile}, Edit(d, t)
  PROVE  TypeInv'
<1>1. /\ latest' = [latest EXCEPT ![d] = t] /\ Touch({File(d)}) /\ Act
      /\ work' = [work EXCEPT ![d] = IF t = NoFile THEN NoFile ELSE Plain(t)]
      /\ spilled' = spilled \ {d}
      /\ UNCHANGED <<repo, acl, ring, mykey, filter, issued, named, muddled, faults>>
  BY DEF Edit
<1>2. GhostsOK'
  <2>1. acts' \in 0..MaxActs
    BY <1>1, Activity DEF TypeInv
  <2>. QED
    BY <1>1, <2>1 DEF TypeInv, GhostsOK
<1>3. FilesOK'
  <2>1. (IF t = NoFile THEN NoFile ELSE Plain(t)) \in Contents
    BY PlainOK DEF Contents
  <2>2. work' \in [Docs -> Contents]
    BY <1>1, <2>1 DEF TypeInv, FilesOK
  <2>. QED
    BY <1>1, <2>2 DEF TypeInv, FilesOK, RealRing, RealTokens, Real
<1>. QED
  BY <1>1, <1>2, <1>3, PathsOK, TouchOK

LEMMA AddMoves ==
  ASSUME TypeInv, NEW d \in Docs, Add(d)
  PROVE  /\ work[d] \in Contents \ {NoFile} /\ (Active => ~CleanFails(d, work[d]))
         /\ repo' = [repo EXCEPT ![d] = IF Active THEN Clean(d, work[d]) ELSE work[d]]
         /\ UNCHANGED <<work, acl, ring, mykey, filter, issued, cmd, faults>>
         /\ UNCHANGED Ghosts
BY DEF Add, TypeInv, FilesOK

LEMMA AddOK ==
  ASSUME TypeInv, NEW d \in Docs, Add(d)
  PROVE  TypeInv'
<1>1. Act
  BY DEF Add
<1>2. GhostsOK'
  <2>1. acts' \in 0..MaxActs /\ faults' \in 0..MaxFaults
    BY <1>1, AddMoves, Activity DEF TypeInv, GhostsOK
  <2>. QED
    BY <2>1, AddMoves, SameGhosts DEF TypeInv
<1>3. FilesOK'
  <2>1. (IF Active THEN Clean(d, work[d]) ELSE work[d]) \in Contents \ {NoFile}
    BY AddMoves, CleanOK DEF TypeInv
  <2>2. repo' \in [Docs -> Contents \ {NoFile}]
    BY <2>1, AddMoves DEF TypeInv, FilesOK
  <2>. QED
    BY <2>2, AddMoves DEF TypeInv, FilesOK, RealRing, RealTokens, Real
<1>4. CmdsOK'
  <2>1. UNCHANGED <<cmd, issued>>
    BY AddMoves
  <2>. QED
    BY <2>1 DEF TypeInv, CmdsOK, Shaped, RealRing, RealTokens, Real
<1>. QED
  BY <1>2, <1>3, <1>4 DEF TypeInv

LEMMA CheckoutMoves ==
  ASSUME TypeInv, NEW d \in Docs, Checkout(d)
  PROVE  \E b \in Contents \ {NoFile} :
           /\ b.text = latest[d] /\ work' = [work EXCEPT ![d] = b] /\ Touch({File(d)})
           /\ UNCHANGED <<repo, acl, ring, mykey, filter, issued, faults>>
           /\ UNCHANGED Ghosts
<1>. DEFINE b == IF Active THEN Smudge(repo[d]) ELSE repo[d]
<1>1. repo[d] \in Contents \ {NoFile} /\ repo[d].text = latest[d]
  BY DEF Checkout, TypeInv, FilesOK
<1>2. b \in Contents \ {NoFile} /\ b.text = latest[d]
  BY <1>1, SmudgeOK
<1>3. /\ work' = [work EXCEPT ![d] = b] /\ Touch({File(d)})
      /\ UNCHANGED <<repo, acl, ring, mykey, filter, issued, faults>>
      /\ UNCHANGED Ghosts
  BY DEF Checkout
<1>. HIDE DEF b
<1>. QED
  BY <1>2, <1>3

LEMMA CheckoutOK ==
  ASSUME TypeInv, NEW d \in Docs, Checkout(d)
  PROVE  TypeInv'
<1>1. PICK b \in Contents \ {NoFile} :
        /\ work' = [work EXCEPT ![d] = b] /\ Touch({File(d)})
        /\ UNCHANGED <<repo, acl, ring, mykey, filter, issued, faults>>
        /\ UNCHANGED Ghosts
  BY CheckoutMoves
<1>2. GhostsOK'
  <2>1. acts' \in 0..MaxActs /\ faults' \in 0..MaxFaults
    BY <1>1, Activity DEF TypeInv, GhostsOK, Checkout
  <2>. QED
    BY <1>1, <2>1, SameGhosts DEF TypeInv
<1>3. FilesOK'
  BY <1>1 DEF TypeInv, FilesOK, RealRing, RealTokens, Real
<1>. QED
  BY <1>1, <1>2, <1>3, PathsOK, TouchOK

LEMMA PeerRotatesOK ==
  ASSUME TypeInv, NEW q \in Persons, PeerRotates(q)
  PROVE  TypeInv'
<1>1. /\ issued[q] < MaxGen /\ issued' = [issued EXCEPT ![q] = @ + 1]
      /\ UNCHANGED <<work, repo, acl, ring, mykey, filter, cmd, faults>>
      /\ UNCHANGED Ghosts /\ Act
  BY DEF PeerRotates
<1>2. /\ issued' \in [Persons -> 0..MaxGen] /\ Grown(issued, issued') /\ FilesOK'
  BY <1>1, IssueGrows DEF TypeInv, FilesOK
<1>3. GhostsOK'
  <2>1. acts' \in 0..MaxActs /\ faults' \in 0..MaxFaults
    BY <1>1, Activity DEF TypeInv, GhostsOK
  <2>. QED
    BY <1>1, <2>1, SameGhosts DEF TypeInv
<1>4. CmdsOK'
  <2>. SUFFICES ASSUME NEW p \in Procs, cmd[p] # NoCmd
                PROVE  Shaped(cmd[p], issued')
    BY <1>1 DEF CmdsOK
  <2>1. Shaped(cmd[p], issued)
    BY ActiveShape DEF TypeInv
  <2>2. RealRing(cmd[p].ring, issued') /\ RealTokens(cmd[p].out, issued')
    BY <1>2, <2>1, GrownReal DEF TypeInv, FilesOK, Shaped, Cmds
  <2>3. (cmd[p].entry \in Entries /\ Real(cmd[p].entry, issued)) => Real(cmd[p].entry, issued')
    BY <1>2, GrownReal DEF TypeInv, FilesOK
  <2>. QED
    BY <2>1, <2>2, <2>3 DEF Shaped
<1>. QED
  BY <1>2, <1>3, <1>4 DEF TypeInv

LEMMA StutterOK ==
  ASSUME TypeInv, UNCHANGED vaultVars
  PROVE  TypeInv'
<1>1. UNCHANGED files /\ UNCHANGED Ghosts /\ UNCHANGED <<cmd, acts, faults>>
  BY DEF vaultVars, Ghosts
<1>2. FilesOK' /\ issued' = issued
  BY <1>1, SameFiles DEF TypeInv
<1>3. GhostsOK'
  <2>1. acts' \in 0..MaxActs /\ faults' \in 0..MaxFaults
    BY <1>1 DEF TypeInv, GhostsOK
  <2>. QED
    BY <1>1, <2>1, SameGhosts DEF TypeInv
<1>4. CmdsOK'
  BY <1>1, <1>2 DEF TypeInv, CmdsOK, Shaped, RealRing, RealTokens, Real
<1>. QED
  BY <1>2, <1>3, <1>4 DEF TypeInv

LEMMA TypeStarts ==
  ASSUME VaultInit
  PROVE  TypeInv
<1>1. PICK readers \in [Docs -> SUBSET {q \in Persons : issued[q] > 0}] :
        /\ acl = [d \in Docs |-> IF readers[d] = {} THEN NoACL
                                 ELSE {<<q, 1>> : q \in readers[d]}]
        /\ repo = [d \in Docs |-> [text |-> latest[d], keys |-> {<<q, 1>> : q \in readers[d]}]]
        /\ named = readers
  BY DEF VaultInit
<1>2. issued \in [Persons -> 0..MaxGen] /\ \A q \in Persons : issued[q] \in Nat
  BY VaultAssumption DEF VaultInit
<1>3. \A d \in Docs : /\ {<<q, 1>> : q \in readers[d]} \in SUBSET Keys
                      /\ RealTokens({<<q, 1>> : q \in readers[d]}, issued)
  <2>. SUFFICES ASSUME NEW d \in Docs, NEW q \in readers[d]
                PROVE  <<q, 1>> \in Keys /\ 1 <= issued[q]
    BY DEF RealTokens
  <2>. QED
    BY <1>2, VaultAssumption DEF Keys
<1>4. acl \in [Docs -> (SUBSET Tokens) \cup {NoACL}]
      /\ \A d \in Docs : acl[d] # NoACL => RealTokens(acl[d], issued)
  BY <1>1, <1>3 DEF Tokens
<1>5. repo \in [Docs -> Contents \ {NoFile}]
  <2>. SUFFICES ASSUME NEW d \in Docs PROVE repo[d] \in Contents \ {NoFile}
    BY <1>1
  <2>1. latest[d] \in Texts
    BY DEF VaultInit
  <2>2. repo[d] \in [text : Texts, keys : SUBSET Keys]
    BY <1>1, <1>3, <2>1
  <2>. QED
    BY <2>2, VaultAssumption DEF Contents, Keys
<1>6. work \in [Docs -> Contents]
  BY <1>5, SmudgeOK DEF VaultInit
<1>7. ring \in Seq(Entries) /\ RealRing(ring, issued) /\ mykey \in Keys \cup {NoKey, Torn}
  <2>1. CASE ring = <<>> /\ mykey = NoKey
    BY <2>1, EmptyRing
  <2>2. CASE ring = Established /\ mykey = <<Me, 1>> /\ issued[Me] = 1
    <3>1. \A q \in Persons : 1 <= issued[q]
      BY <1>2, <2>2 DEF VaultInit
    <3>2. RealRing(ring, issued)
      <4>. SUFFICES ASSUME NEW i \in 1..Len(ring) PROVE Real(ring[i], issued)
        BY DEF RealRing
      <4>1. PICK q \in Persons : ring[i] = [token |-> <<q, 1>>, key |-> <<q, 1>>]
        BY <2>2, EstablishedRing
      <4>. QED
        BY <3>1, <4>1 DEF Real
    <3>. QED
      BY <2>2, <3>2, EstablishedRing, VaultAssumption DEF Keys
  <2>. QED
    BY <2>1, <2>2 DEF VaultInit
<1>8. filter \subseteq Hooks
  BY DEF VaultInit, Hooks
<1>9. GhostsOK
  BY <1>1, VaultAssumption DEF VaultInit, GhostsOK
<1>10. CmdsOK
  BY DEF VaultInit, CmdsOK
<1>. QED
  BY <1>2, <1>4, <1>5, <1>6, <1>7, <1>8, <1>9, <1>10 DEF TypeInv, FilesOK

LEMMA TypeKeeps ==
  ASSUME TypeInv, [VaultNext]_vaultVars
  PROVE  TypeInv'
<1>1. ASSUME NEW p \in Procs, NEW r \in Requests, Start(p, r) PROVE TypeInv'
  BY <1>1, StartOK
<1>2. ASSUME NEW p \in Procs, CommandStep(p) PROVE TypeInv'
  <2>1. CASE Load(p)
    BY <2>1, LoadMoves, InternalOK
  <2>2. CASE ReadACL(p)
    BY <2>2, ReadMoves, InternalOK
  <2>. QED
    BY <1>2, <2>1, <2>2, TruncateOK, WriteACLOK, SaveKeyringOK, ForgeOK, ForgedOK,
       UnlockOK, LockOpenOK, LockSealOK, LockSpillsOK, LockDoneOK DEF CommandStep
<1>3. ASSUME NEW p \in Procs, CommandFails(p) PROVE TypeInv'
  BY <1>3, CommandFailsOK
<1>4. ASSUME NEW d \in Docs, Add(d) \/ Checkout(d) \/ \E t \in Texts \cup {NoFile} : Edit(d, t)
      PROVE  TypeInv'
  BY <1>4, AddOK, CheckoutOK, EditOK
<1>5. ASSUME NEW q \in Persons, PeerRotates(q) PROVE TypeInv'
  BY <1>5, PeerRotatesOK
<1>6. CASE UNCHANGED vaultVars
  BY <1>6, StutterOK
<1>. QED
  BY <1>1, <1>2, <1>3, <1>4, <1>5, <1>6 DEF VaultNext

\* Every variable holds what the code can put there, keyring entries and the tokens
\* of ACLs name key pairs that were generated, and a command is at one of its stages.
THEOREM VaultTyped ==
  VaultSpec => []TypeInv
<1>1. VaultInit => TypeInv
  BY TypeStarts
<1>2. TypeInv /\ [VaultNext]_vaultVars => TypeInv'
  BY TypeKeeps
<1>. QED
  BY <1>1, <1>2, PTL DEF VaultSpec

\* In the words of the model.
THEOREM VaultTypes ==
  VaultSpec => []VaultTypeOK
<1>1. TypeInv => VaultTypeOK
  <2>. SUFFICES ASSUME TypeInv PROVE VaultTypeOK
    OBVIOUS
  <2>1. \A p \in Procs : cmd[p] = NoCmd \/ (cmd[p].op \in Ops /\ cmd[p].at \in Stages)
    BY ActiveShape DEF TypeInv, Cmds
  <2>. QED
    BY <2>1 DEF VaultTypeOK, TypeInv, FilesOK, GhostsOK
<1>. QED
  BY <1>1, VaultTyped, PTL

-----------------------------------------------------------------------------
\* What an editor wrote survives: while a lock that nobody disturbed has the file
\* open, the lock holds the text; otherwise the file does.

Sealing(p, d) == At(p, "seal") /\ cmd[p].doc = d
Disturbed(d) == \E p \in Procs : Sealing(p, d) /\ File(d) \in cmd[p].touched
Kept(d) == /\ \A p \in Procs : Sealing(p, d) => cmd[p].text = latest[d]
           /\ (\A p \in Procs : ~Sealing(p, d)) =>
                work[d] # NoFile /\ work[d].text = latest[d]
TextOf(d) == d \in spilled \/ latest[d] = NoFile \/ Disturbed(d) \/ Kept(d)
TextInv == \A d \in Docs : TextOf(d)

\* To the others a step changes nothing but what they are told.
LEMMA OthersSeal ==
  ASSUME CmdsOK, NEW p \in Procs, NEW c, NEW fs \in SUBSET Paths, Step(p, c, fs),
         NEW q \in Procs, q # p, NEW d
  PROVE  /\ Sealing(q, d)' <=> Sealing(q, d)
         /\ Sealing(q, d) => /\ cmd'[q].text = cmd[q].text
                             /\ cmd'[q].touched = cmd[q].touched \cup fs
<1>1. \/ cmd[q] = NoCmd /\ cmd'[q] = NoCmd
      \/ cmd[q] # NoCmd /\ IsTold(cmd[q], cmd'[q], fs)
  BY OthersTold
<1>. QED
  BY <1>1 DEF Sealing, At, IsTold

LEMMA AllSeal ==
  ASSUME CmdsOK, NEW fs \in SUBSET Paths, Touch(fs), NEW q \in Procs, NEW d
  PROVE  /\ Sealing(q, d)' <=> Sealing(q, d)
         /\ Sealing(q, d) => /\ cmd'[q].text = cmd[q].text
                             /\ cmd'[q].touched = cmd[q].touched \cup fs
<1>1. \/ cmd[q] = NoCmd /\ cmd'[q] = NoCmd
      \/ cmd[q] # NoCmd /\ IsTold(cmd[q], cmd'[q], fs)
  BY AllTold
<1>. QED
  BY <1>1 DEF Sealing, At, IsTold

\* A step that leaves the document alone, and the locks that have it open.
LEMMA TextFrame ==
  ASSUME NEW d, TextOf(d), work'[d] = work[d], latest'[d] = latest[d],
         d \in spilled => d \in spilled',
         \A q \in Procs : Sealing(q, d)' <=> Sealing(q, d),
         \A q \in Procs : Sealing(q, d) => /\ cmd'[q].text = cmd[q].text
                                          /\ cmd[q].touched \subseteq cmd'[q].touched
  PROVE  TextOf(d)'
<1>1. CASE Disturbed(d)
  BY <1>1 DEF TextOf, Disturbed
<1>2. CASE Kept(d)
  BY <1>2 DEF TextOf, Kept
<1>. QED
  BY <1>1, <1>2 DEF TextOf

\* A step of a command that neither has d open nor opens it.
LEMMA TextApart ==
  ASSUME TypeInv, NEW d, TextOf(d), NEW p \in Procs, NEW c, NEW fs \in SUBSET Paths,
         Step(p, c, fs), ~Sealing(p, d), c = NoCmd \/ c.at # "seal" \/ c.doc # d,
         work'[d] = work[d], latest'[d] = latest[d], d \in spilled => d \in spilled'
  PROVE  TextOf(d)'
<1>1. cmd'[p] = c
  BY DEF Step
<1>2. ~Sealing(p, d)'
  BY <1>1 DEF Sealing, At
<1>3. \A q \in Procs : Sealing(q, d)' <=> Sealing(q, d)
  BY <1>2, OthersSeal DEF TypeInv
<1>4. \A q \in Procs : Sealing(q, d) => /\ cmd'[q].text = cmd[q].text
                                       /\ cmd[q].touched \subseteq cmd'[q].touched
  <2>. SUFFICES ASSUME NEW q \in Procs, Sealing(q, d)
                PROVE  /\ cmd'[q].text = cmd[q].text
                       /\ cmd[q].touched \subseteq cmd'[q].touched
    OBVIOUS
  <2>1. q # p
    OBVIOUS
  <2>. QED
    BY <2>1, OthersSeal DEF TypeInv
<1>. QED
  BY <1>3, <1>4, TextFrame

\* The commands that are not lock, and lock where it begins and where it ends.
LEMMA QuietMoves ==
  ASSUME TypeInv, NEW p \in Procs,
         \/ \E r \in Requests : Start(p, r)
         \/ Load(p) \/ ReadACL(p) \/ Truncate(p) \/ WriteACL(p) \/ SaveKeyring(p)
         \/ Forge(p) \/ Forged(p) \/ Unlock(p) \/ LockDone(p)
  PROVE  \E c : \E fs \in SUBSET Paths :
           /\ Step(p, c, fs) /\ UNCHANGED <<work, latest, spilled>>
           /\ \A d : ~Sealing(p, d)
           /\ c = NoCmd \/ c.at # "seal"
<1>. DEFINE Quiet(c, fs) == /\ Step(p, c, fs) /\ UNCHANGED <<work, latest, spilled>>
                            /\ \A d : ~Sealing(p, d)
                            /\ c = NoCmd \/ c.at # "seal"
<1>. SUFFICES \E c : \E fs \in SUBSET Paths : Quiet(c, fs)
  OBVIOUS
<1>0. {} \in SUBSET Paths
  OBVIOUS
<1>1. ASSUME NEW r \in Requests, Start(p, r) PROVE \E c : \E fs \in SUBSET Paths : Quiet(c, fs)
  <2>. DEFINE docs == IF r[1] = "lock" THEN WithACL ELSE {}
              c == StartOf(r, docs)
  <2>1. Step(p, c, {}) /\ UNCHANGED <<work, latest, spilled>> /\ cmd[p] = NoCmd
    BY <1>1 DEF Start, StartOf, files, Ghosts
  <2>2. c.at = FirstStage(r[1])
    BY DEF StartOf
  <2>. HIDE DEF c
  <2>3. c.at # "seal"
    BY <2>2, RequestOK, FirstStageOK DEF TypeInv
  <2>. QED
    BY <1>0, <2>1, <2>3 DEF Sealing, At
<1>2. CASE Load(p)
  <2>1. PICK c : /\ Step(p, c, {}) /\ Internal
                 /\ c = NoCmd \/ (Shaped(c, issued) /\ c.op \in Ops \ {"lock"})
    BY <1>2, LoadMoves DEF Ops
  <2>2. c = NoCmd \/ c.at # "seal"
    BY <2>1 DEF Shaped, StagesOf, Ops
  <2>3. UNCHANGED <<work, latest, spilled>> /\ \A d : ~Sealing(p, d)
    BY <1>2, <2>1 DEF Load, Sealing, At, Internal, files, Ghosts
  <2>. QED
    BY <1>0, <2>1, <2>2, <2>3
<1>3. CASE ReadACL(p)
  <2>1. PICK c : Step(p, c, {}) /\ Internal /\ (c = NoCmd \/ c.at = "truncate")
    BY <1>3, ReadMoves
  <2>2. UNCHANGED <<work, latest, spilled>> /\ \A d : ~Sealing(p, d)
    BY <1>3, <2>1 DEF ReadACL, Sealing, At, Internal, files, Ghosts
  <2>. QED
    BY <1>0, <2>1, <2>2
<1>4. CASE Truncate(p)
  <2>1. PICK c : /\ c.at = "write" /\ cmd[p].at = "truncate"
                 /\ \/ c.doc \in Docs /\ Step(p, c, {ACLFile(c.doc)})
                    \/ Step(p, c, {})
    BY <1>4, TruncateMoves
  <2>2. \E fs \in SUBSET Paths : Step(p, c, fs)
    BY <1>0, <2>1, PathsOK
  <2>3. UNCHANGED <<work, latest, spilled>> /\ \A d : ~Sealing(p, d)
    BY <1>4, <2>1 DEF Truncate, Sealing, At, Ghosts
  <2>. QED
    BY <2>1, <2>2, <2>3
<1>5. CASE WriteACL(p)
  <2>1. cmd[p] # NoCmd /\ cmd[p].at = "write" /\ cmd[p].doc # NoFile
    BY <1>5 DEF WriteACL, At
  <2>2. cmd[p].doc \in Docs
    BY <2>1, ActiveShape DEF TypeInv, Cmds
  <2>3. /\ Step(p, NoCmd, {ACLFile(cmd[p].doc)}) /\ UNCHANGED <<work, latest, spilled>>
        /\ \A d : ~Sealing(p, d)
    BY <1>5, <2>1 DEF WriteACL, Sealing, At
  <2>. QED
    BY <2>2, <2>3, PathsOK
<1>6. CASE SaveKeyring(p)
  BY <1>0, <1>6 DEF SaveKeyring, Sealing, At, Ghosts
<1>7. CASE Forge(p)
  <2>. DEFINE c == [cmd[p] EXCEPT !.at = "forged"]
  <2>1. /\ Step(p, c, {}) /\ UNCHANGED <<work, latest, spilled>> /\ cmd[p] # NoCmd
        /\ cmd[p].at = "forge"
    BY <1>7 DEF Forge, Go, At, Ghosts
  <2>2. c.at = "forged"
    BY <2>1, ActiveShape DEF TypeInv, Cmds
  <2>. HIDE DEF c
  <2>. QED
    BY <1>0, <2>1, <2>2 DEF Sealing, At
<1>8. CASE Forged(p)
  <2>1. PICK c : Step(p, c, {}) /\ c.at = "load" /\ UNCHANGED work /\ UNCHANGED Ghosts
    BY <1>8, ForgedMoves
  <2>. QED
    BY <1>0, <1>8, <2>1 DEF Forged, Sealing, At, Ghosts
<1>9. CASE Unlock(p)
  <2>. DEFINE c == [cmd[p] EXCEPT !.at = "attributes"]
  <2>1. /\ Step(p, c, {}) \/ Step(p, NoCmd, {})
        /\ UNCHANGED <<work, latest, spilled>> /\ cmd[p] # NoCmd /\ cmd[p].at \in Hooks
    BY <1>9 DEF Unlock, Ghosts
  <2>2. c.at = "attributes"
    BY <2>1, ActiveShape DEF TypeInv, Cmds
  <2>. HIDE DEF c
  <2>. QED
    BY <1>0, <2>1, <2>2 DEF Sealing, At, Hooks
<1>10. CASE LockDone(p)
  BY <1>0, <1>10 DEF LockDone, Internal, Sealing, At, files, Ghosts
<1>. HIDE DEF Quiet
<1>. QED
  BY <1>1, <1>2, <1>3, <1>4, <1>5, <1>6, <1>7, <1>8, <1>9, <1>10

LEMMA OpenKeepsText ==
  ASSUME TypeInv, NEW d \in Docs, TextOf(d), NEW p \in Procs, LockOpen(p)
  PROVE  TextOf(d)'
<1>1. PICK e, c :
        /\ e \in Docs /\ cmd[p] # NoCmd /\ cmd[p].at = "open" /\ Shaped(c, issued)
        /\ \/ Step(p, c, {}) /\ work' = work /\ c.at = "open"
           \/ /\ work[e] # NoFile /\ work' = [work EXCEPT ![e] = Plain(Blank)]
              /\ Step(p, c, {File(e)})
              /\ c.at = "seal" /\ c.doc = e /\ c.text = work[e].text
  BY OpenMoves
<1>2. latest' = latest /\ spilled' = spilled /\ ~Sealing(p, d)
  BY <1>1 DEF LockOpen, Ghosts, Sealing, At
<1>3. CASE Step(p, c, {}) /\ work' = work /\ c.at = "open"
  <2>1. {} \in SUBSET Paths
    OBVIOUS
  <2>. QED
    BY <1>2, <1>3, <2>1, TextApart
<1>4. CASE /\ work[e] # NoFile /\ work' = [work EXCEPT ![e] = Plain(Blank)]
           /\ Step(p, c, {File(e)})
           /\ c.at = "seal" /\ c.doc = e /\ c.text = work[e].text
  <2>0. {File(e)} \in SUBSET Paths
    BY <1>1, PathsOK
  <2>1. CASE e # d
    <3>1. work'[d] = work[d]
      BY <1>4, <2>1 DEF TypeInv, FilesOK
    <3>. QED
      BY <1>2, <1>4, <2>0, <2>1, <3>1, TextApart
  <2>2. CASE e = d /\ \E q \in Procs : Sealing(q, d)
    <3>1. PICK q \in Procs : Sealing(q, d)
      BY <2>2
    <3>2. q # p
      BY <1>2, <3>1
    <3>3. Sealing(q, d)' /\ cmd'[q].touched = cmd[q].touched \cup {File(e)}
      BY <1>4, <2>0, <3>1, <3>2, OthersSeal DEF TypeInv
    <3>4. Disturbed(d)'
      BY <2>2, <3>3 DEF Disturbed
    <3>. QED
      BY <3>4 DEF TextOf
  <2>3. CASE e = d /\ \A q \in Procs : ~Sealing(q, d)
    <3>1. d \in spilled \/ latest[d] = NoFile \/ work[d].text = latest[d]
      BY <2>3 DEF TextOf, Disturbed, Kept
    <3>2. \A q \in Procs : Sealing(q, d)' => q = p
      BY <1>4, <2>0, <2>3, OthersSeal DEF TypeInv
    <3>3. cmd'[p] = c
      BY <1>4 DEF Step
    <3>4. Sealing(p, d)' /\ cmd'[p].text = work[d].text
      <4>1. c # NoCmd
        BY <1>1 DEF Shaped, Cmds, NoCmd, Ops
      <4>. QED
        BY <1>4, <2>3, <3>3, <4>1 DEF Sealing, At
    <3>5. d \in spilled' \/ latest'[d] = NoFile \/ Kept(d)'
      BY <1>2, <3>1, <3>2, <3>4 DEF Kept
    <3>. QED
      BY <3>5 DEF TextOf
  <2>. QED
    BY <2>1, <2>2, <2>3
<1>. QED
  BY <1>1, <1>3, <1>4

LEMMA SealKeepsText ==
  ASSUME TypeInv, NEW d \in Docs, TextOf(d), NEW p \in Procs, LockSeal(p)
  PROVE  TextOf(d)'
<1>. DEFINE e == cmd[p].doc
<1>1. PICK c, b :
        /\ cmd[p] # NoCmd /\ cmd[p].at = "seal" /\ e \in Docs /\ c.at = "open"
        /\ Step(p, c, {File(e)}) /\ b \in Contents \ {NoFile} /\ b.text = cmd[p].text
        /\ \/ work' = [work EXCEPT ![e] = b]
           \/ File(e) \in cmd[p].touched /\ work' = work
  BY SealMoves
<1>2. /\ latest' = latest
      /\ spilled' = IF File(e) \in cmd[p].touched THEN spilled \cup {e} ELSE spilled
  BY DEF LockSeal
<1>. HIDE DEF e
<1>0. {File(e)} \in SUBSET Paths
  BY <1>1, PathsOK
<1>3. CASE e # d
  <2>1. work'[d] = work[d] /\ (d \in spilled => d \in spilled') /\ ~Sealing(p, d)
    BY <1>1, <1>2, <1>3 DEF TypeInv, FilesOK, Sealing, e
  <2>. QED
    BY <1>0, <1>1, <1>2, <2>1, TextApart
<1>4. CASE e = d /\ File(d) \in cmd[p].touched
  <2>1. d \in spilled'
    BY <1>2, <1>4
  <2>. QED
    BY <2>1 DEF TextOf
<1>5. CASE e = d /\ File(d) \notin cmd[p].touched /\ \E q \in Procs \ {p} : Sealing(q, d)
  <2>1. PICK q \in Procs \ {p} : Sealing(q, d)
    BY <1>5
  <2>2. Sealing(q, d)' /\ cmd'[q].touched = cmd[q].touched \cup {File(e)}
    BY <1>0, <1>1, <2>1, OthersSeal DEF TypeInv
  <2>3. Disturbed(d)'
    BY <1>5, <2>2 DEF Disturbed
  <2>. QED
    BY <2>3 DEF TextOf
<1>6. CASE e = d /\ File(d) \notin cmd[p].touched /\ \A q \in Procs \ {p} : ~Sealing(q, d)
  <2>1. Sealing(p, d)
    BY <1>1, <1>6 DEF Sealing, At, e
  <2>2. d \in spilled \/ latest[d] = NoFile \/ cmd[p].text = latest[d]
    BY <1>6, <2>1 DEF TextOf, Disturbed, Kept
  <2>3. work'[d] # NoFile /\ work'[d].text = cmd[p].text
    BY <1>1, <1>6 DEF TypeInv, FilesOK
  <2>4. cmd'[p] = c /\ ~Sealing(p, d)'
    BY <1>1 DEF Step, Sealing, At
  <2>5. \A q \in Procs : ~Sealing(q, d)'
    BY <1>0, <1>1, <1>6, <2>4, OthersSeal DEF TypeInv
  <2>6. d \in spilled' \/ latest'[d] = NoFile \/ Kept(d)'
    BY <1>2, <1>6, <2>2, <2>3, <2>5 DEF Kept
  <2>. QED
    BY <2>6 DEF TextOf
<1>. QED
  BY <1>3, <1>4, <1>5, <1>6

\* A lock that ends with the document open gives it up as spilled.
LEMMA EndKeepsText ==
  ASSUME TypeInv, NEW d \in Docs, TextOf(d), NEW p \in Procs,
         LockSpills(p) \/ CommandFails(p)
  PROVE  TextOf(d)'
<1>1. /\ Step(p, NoCmd, {}) /\ work' = work /\ latest' = latest
      /\ spilled' = IF cmd[p].at = "seal" THEN spilled \cup {cmd[p].doc} ELSE spilled
  BY DEF LockSpills, CommandFails, At, files
<1>2. CASE Sealing(p, d)
  <2>1. d \in spilled'
    BY <1>1, <1>2 DEF Sealing, At
  <2>. QED
    BY <2>1 DEF TextOf
<1>3. CASE ~Sealing(p, d)
  <2>1. {} \in SUBSET Paths /\ work'[d] = work[d] /\ (d \in spilled => d \in spilled')
    BY <1>1
  <2>. QED
    BY <1>1, <1>3, <2>1, TextApart
<1>. QED
  BY <1>2, <1>3

\* An editor's text, or git's copy of it, in the document e.
LEMMA WrittenText ==
  ASSUME TypeInv, NEW d \in Docs, NEW e \in Docs, TextOf(d), Touch({File(e)}),
         work' = [work EXCEPT ![e] = work'[e]], latest' = [latest EXCEPT ![e] = latest'[e]],
         (work'[e] # NoFile /\ work'[e].text = latest'[e]) \/ latest'[e] = NoFile,
         d # e => (d \in spilled <=> d \in spilled')
  PROVE  TextOf(d)'
<1>0. {File(e)} \in SUBSET Paths
  BY PathsOK
<1>1. \A q \in Procs : /\ Sealing(q, d)' <=> Sealing(q, d)
                       /\ Sealing(q, d) => /\ cmd'[q].text = cmd[q].text
                                           /\ cmd'[q].touched = cmd[q].touched \cup {File(e)}
  BY <1>0, AllSeal DEF TypeInv
<1>2. CASE d # e
  <2>1. work'[d] = work[d] /\ latest'[d] = latest[d]
    BY <1>2 DEF TypeInv, FilesOK, GhostsOK
  <2>. QED
    BY <1>1, <1>2, <2>1, TextFrame
<1>3. CASE d = e /\ \E q \in Procs : Sealing(q, d)
  <2>1. Disturbed(d)'
    BY <1>1, <1>3 DEF Disturbed
  <2>. QED
    BY <2>1 DEF TextOf
<1>4. CASE d = e /\ \A q \in Procs : ~Sealing(q, d)
  <2>1. \A q \in Procs : ~Sealing(q, d)'
    BY <1>1, <1>4
  <2>2. latest'[d] = NoFile \/ Kept(d)'
    BY <1>4, <2>1 DEF Kept
  <2>. QED
    BY <2>2 DEF TextOf
<1>. QED
  BY <1>2, <1>3, <1>4

LEMMA TextKeeps ==
  ASSUME TypeInv, TextInv, [VaultNext]_vaultVars
  PROVE  TextInv'
<1>. SUFFICES ASSUME NEW d \in Docs PROVE TextOf(d)'
  BY DEF TextInv
<1>0. TextOf(d)
  BY DEF TextInv
<1>1. ASSUME NEW p \in Procs,
             \/ \E r \in Requests : Start(p, r)
             \/ Load(p) \/ ReadACL(p) \/ Truncate(p) \/ WriteACL(p) \/ SaveKeyring(p)
             \/ Forge(p) \/ Forged(p) \/ Unlock(p) \/ LockDone(p)
      PROVE  TextOf(d)'
  <2>1. PICK c, fs :
           /\ fs \in SUBSET Paths /\ Step(p, c, fs) /\ UNCHANGED <<work, latest, spilled>>
           /\ \A x : ~Sealing(p, x)
           /\ c = NoCmd \/ c.at # "seal"
    BY <1>1, QuietMoves
  <2>2. ~Sealing(p, d) /\ work'[d] = work[d] /\ latest'[d] = latest[d]
        /\ (d \in spilled => d \in spilled')
    BY <2>1
  <2>. QED
    BY <1>0, <2>1, <2>2, TextApart
<1>2. ASSUME NEW p \in Procs, LockOpen(p) PROVE TextOf(d)'
  BY <1>0, <1>2, OpenKeepsText
<1>3. ASSUME NEW p \in Procs, LockSeal(p) PROVE TextOf(d)'
  BY <1>0, <1>3, SealKeepsText
<1>4. ASSUME NEW p \in Procs, LockSpills(p) \/ CommandFails(p) PROVE TextOf(d)'
  BY <1>0, <1>4, EndKeepsText
<1>5. ASSUME NEW e \in Docs, NEW t \in Texts \cup {NoFile}, Edit(e, t) PROVE TextOf(d)'
  <2>1. /\ latest' = [latest EXCEPT ![e] = t] /\ Touch({File(e)})
        /\ work' = [work EXCEPT ![e] = IF t = NoFile THEN NoFile ELSE Plain(t)]
        /\ spilled' = spilled \ {e}
    BY <1>5 DEF Edit
  <2>2. latest'[e] = t /\ work'[e] = IF t = NoFile THEN NoFile ELSE Plain(t)
    BY <2>1 DEF TypeInv, FilesOK, GhostsOK
  <2>3. t = NoFile \/ (Plain(t) # NoFile /\ Plain(t).text = t)
    BY PlainOK
  <2>4. (work'[e] # NoFile /\ work'[e].text = latest'[e]) \/ latest'[e] = NoFile
    BY <2>2, <2>3
  <2>5. /\ work' = [work EXCEPT ![e] = work'[e]]
        /\ latest' = [latest EXCEPT ![e] = latest'[e]]
    BY <2>1, <2>2
  <2>. QED
    BY <1>0, <2>1, <2>4, <2>5, WrittenText
<1>6. ASSUME NEW e \in Docs, Checkout(e) PROVE TextOf(d)'
  <2>1. PICK b \in Contents \ {NoFile} :
          /\ b.text = latest[e] /\ work' = [work EXCEPT ![e] = b] /\ Touch({File(e)})
          /\ UNCHANGED Ghosts
    BY <1>6, CheckoutMoves
  <2>2. work'[e] = b /\ latest' = latest /\ spilled' = spilled
    BY <2>1 DEF TypeInv, FilesOK, Ghosts
  <2>3. latest' = [latest EXCEPT ![e] = latest'[e]]
    BY <2>2 DEF TypeInv, GhostsOK
  <2>4. work' = [work EXCEPT ![e] = work'[e]]
    BY <2>1, <2>2
  <2>5. work'[e] # NoFile /\ work'[e].text = latest'[e]
    BY <2>1, <2>2
  <2>. QED
    BY <1>0, <2>1, <2>2, <2>3, <2>4, <2>5, WrittenText
<1>7. ASSUME UNCHANGED <<work, latest, spilled, cmd>> PROVE TextOf(d)'
  BY <1>0, <1>7 DEF TextOf, Disturbed, Kept, Sealing, At
<1>8. ASSUME NEW e \in Docs, Add(e) PROVE TextOf(d)'
  <2>1. UNCHANGED <<work, latest, spilled, cmd>>
    BY <1>8, AddMoves DEF Ghosts
  <2>. QED
    BY <2>1, <1>7
<1>9. ASSUME NEW q \in Persons, PeerRotates(q) PROVE TextOf(d)'
  BY <1>7, <1>9 DEF PeerRotates, Ghosts
<1>10. CASE UNCHANGED vaultVars
  BY <1>7, <1>10 DEF vaultVars, files
<1>. QED
  BY <1>1, <1>2, <1>3, <1>4, <1>5, <1>6, <1>8, <1>9, <1>10 DEF VaultNext, CommandStep

LEMMA TextStarts ==
  ASSUME VaultInit
  PROVE  TextInv
<1>. SUFFICES ASSUME NEW d \in Docs PROVE Kept(d)
  BY DEF TextInv, TextOf
<1>1. \A p \in Procs : ~Sealing(p, d)
  BY DEF VaultInit, Sealing, At
<1>2. repo[d].text = latest[d]
  BY DEF VaultInit
<1>3. repo[d] \in Contents \ {NoFile}
  BY TypeStarts DEF TypeInv, FilesOK
<1>4. work[d] # NoFile /\ work[d].text = latest[d]
  BY <1>2, <1>3, SmudgeOK DEF VaultInit
<1>. QED
  BY <1>1, <1>4 DEF Kept

LEMMA TextImplies ==
  ASSUME TextInv
  PROVE  TextSurvives
<1>. SUFFICES ASSUME NEW d \in Docs \ spilled, ~Locking(d), latest[d] # NoFile
              PROVE  work[d] # NoFile /\ work[d].text = latest[d]
  BY DEF TextSurvives
<1>1. \A p \in Procs : ~Sealing(p, d)
  BY DEF Locking, Sealing
<1>2. Kept(d)
  BY <1>1 DEF TextInv, TextOf, Disturbed
<1>. QED
  BY <1>1, <1>2 DEF Kept

\* Encryption loses no text: what an editor last wrote is in the working tree, plain
\* or as an envelope, unless a lock has the document open, or one failed on it or ran
\* beside another writer of it.
THEOREM EncryptionKeepsText ==
  VaultSpec => []TextSurvives
<1>1. VaultInit => TextInv
  BY TextStarts
<1>2. TypeInv /\ TextInv /\ [VaultNext]_vaultVars => TextInv'
  BY TextKeeps
<1>3. TextInv => TextSurvives
  BY TextImplies
<1>. QED
  BY <1>1, <1>2, <1>3, VaultTyped, PTL DEF VaultSpec

-----------------------------------------------------------------------------
\* lock leaves no plain text: of the documents it has visited, those that nobody wrote
\* meanwhile are envelopes, for an ACL, once there, does not go away.

Visited(c, d) == d \in c.docs /\ d \notin c.todo /\ d \notin Altered(c)
                   /\ ~(c.at = "seal" /\ c.doc = d)
Scrubbed(b) == b = NoFile \/ IsEnvelope(b)
ScrubOf(c, w, a) == /\ \A d \in c.docs : a[d] # NoACL
                    /\ \A d \in Docs : Visited(c, d) => Scrubbed(w[d])
ScrubInv == \A p \in Procs : (cmd[p] # NoCmd /\ cmd[p].op = "lock") => ScrubOf(cmd[p], work, acl)

\* ACL files are rewritten and never removed.
ACLsStay == \A d \in Docs : acl[d] # NoACL => acl'[d] # NoACL

LEMMA AltersMore ==
  ASSUME NEW c \in Cmds, NEW e \in Cmds, c.touched \subseteq e.touched
  PROVE  Altered(c) \subseteq Altered(e)
BY DEF Altered

\* Whoever writes a document tells the locks that run.
LEMMA ScrubFrame ==
  ASSUME NEW c \in Cmds, ScrubOf(c, work, acl), ACLsStay, NEW e, NEW fs \in SUBSET Paths,
         IsTold(c, e, fs),
         \A d \in Docs : work'[d] = work[d] \/ File(d) \in fs
  PROVE  ScrubOf(e, work', acl')
<1>1. /\ e \in Cmds /\ e.docs = c.docs /\ e.todo = c.todo /\ e.at = c.at /\ e.doc = c.doc
      /\ e.touched = c.touched \cup fs
  BY DEF IsTold
<1>2. Altered(c) \subseteq Altered(e)
  BY <1>1, AltersMore
<1>3. \A d \in Docs : File(d) \in fs => d \in Altered(e)
  BY <1>1 DEF Altered
<1>4. \A d \in Docs : Visited(e, d) => Visited(c, d) /\ work'[d] = work[d]
  BY <1>1, <1>2, <1>3 DEF Visited
<1>5. \A d \in e.docs : acl'[d] # NoACL
  BY <1>1 DEF ScrubOf, ACLsStay, Cmds
<1>6. \A d \in Docs : Visited(e, d) => Scrubbed(work'[d])
  BY <1>4 DEF ScrubOf
<1>. QED
  BY <1>5, <1>6 DEF ScrubOf

\* A command moves on, the locks of the others are told.
LEMMA ScrubStep ==
  ASSUME TypeInv, ScrubInv, ACLsStay, NEW p \in Procs, NEW c, NEW fs \in SUBSET Paths,
         Step(p, c, fs), \A d \in Docs : work'[d] = work[d] \/ File(d) \in fs,
         (c # NoCmd /\ c.op = "lock") => ScrubOf(c, work', acl')
  PROVE  ScrubInv'
<1>. SUFFICES ASSUME NEW q \in Procs, cmd'[q] # NoCmd, cmd'[q].op = "lock"
              PROVE  ScrubOf(cmd'[q], work', acl')
  BY DEF ScrubInv
<1>1. CASE q = p
  BY <1>1 DEF Step
<1>2. CASE q # p
  <2>1. cmd[q] # NoCmd /\ IsTold(cmd[q], cmd'[q], fs)
    BY <1>2, OthersTold DEF TypeInv
  <2>2. cmd[q] \in Cmds
    BY <2>1, ActiveShape DEF TypeInv
  <2>3. ScrubOf(cmd[q], work, acl)
    BY <2>1 DEF ScrubInv, IsTold
  <2>. QED
    BY <2>1, <2>2, <2>3, ScrubFrame
<1>. QED
  BY <1>1, <1>2

LEMMA ACLsStayStep ==
  ASSUME TypeInv, [VaultNext]_vaultVars
  PROVE  ACLsStay
<1>0. \A ts \in SUBSET Tokens : ts # NoACL
  BY VaultAssumption DEF Tokens, Keys
<1>1. CASE acl' = acl
  BY <1>1 DEF ACLsStay
<1>2. ASSUME NEW p \in Procs, Truncate(p) PROVE ACLsStay
  <2>1. {} \in SUBSET Tokens
    OBVIOUS
  <2>2. acl' = acl \/ acl' = [acl EXCEPT ![cmd[p].doc] = {}]
    BY <1>2 DEF Truncate
  <2>. QED
    BY <1>0, <2>1, <2>2 DEF ACLsStay, TypeInv, FilesOK
<1>3. ASSUME NEW p \in Procs, WriteACL(p) PROVE ACLsStay
  <2>1. cmd[p].out \in SUBSET Tokens
    BY <1>3, ActiveShape DEF WriteACL, At, TypeInv, Cmds
  <2>2. acl' = [acl EXCEPT ![cmd[p].doc] = cmd[p].out]
    BY <1>3 DEF WriteACL
  <2>. QED
    BY <1>0, <2>1, <2>2 DEF ACLsStay, TypeInv, FilesOK
<1>4. ASSUME NEW p \in Procs, CommandStep(p), ~Truncate(p), ~WriteACL(p) PROVE acl' = acl
  BY <1>4 DEF CommandStep, Load, ReadACL, SaveKeyring, Forge, Forged, Unlock, LockOpen,
     LockSeal, LockSpills, LockDone, Internal, files
<1>5. ASSUME NEW p \in Procs, (\E r \in Requests : Start(p, r)) \/ CommandFails(p)
      PROVE  acl' = acl
  BY <1>5 DEF Start, CommandFails, files
<1>6. ASSUME \/ \E d \in Docs : Add(d) \/ Checkout(d) \/ \E t \in Texts \cup {NoFile} : Edit(d, t)
             \/ \E q \in Persons \ {Me} : PeerRotates(q)
      PROVE  acl' = acl
  BY <1>6 DEF Add, Checkout, Edit, PeerRotates
<1>7. CASE UNCHANGED vaultVars
  BY <1>1, <1>7 DEF vaultVars, files
<1>. QED
  BY <1>1, <1>2, <1>3, <1>4, <1>5, <1>6, <1>7 DEF VaultNext

\* The commands other than lock stay what they are.
LEMMA OtherCommands ==
  ASSUME TypeInv, NEW p \in Procs,
         \/ Load(p) \/ ReadACL(p) \/ Truncate(p) \/ WriteACL(p) \/ SaveKeyring(p)
         \/ Forge(p) \/ Forged(p) \/ Unlock(p)
  PROVE  cmd'[p] = NoCmd \/ cmd'[p].op # "lock"
<1>1. CASE Load(p)
  <2>1. PICK c : Step(p, c, {}) /\ (c = NoCmd \/ c.op \in Ops \ {"lock"})
    BY <1>1, LoadMoves DEF Ops
  <2>. QED
    BY <2>1 DEF Step
<1>2. CASE ReadACL(p)
  <2>1. PICK c : Step(p, c, {}) /\ (c = NoCmd \/ c.op \in {"add", "rm"})
    BY <1>2, ReadMoves
  <2>. QED
    BY <2>1 DEF Step
<1>3. CASE Truncate(p)
  <2>1. PICK c : /\ c.op = cmd[p].op /\ cmd[p] # NoCmd /\ cmd[p].at = "truncate"
                 /\ \E fs : Step(p, c, fs)
    BY <1>3, TruncateMoves
  <2>2. cmd[p].op # "lock"
    BY <2>1, ActiveShape DEF TypeInv, Shaped, StagesOf
  <2>. QED
    BY <2>1, <2>2 DEF Step
<1>4. CASE WriteACL(p) \/ SaveKeyring(p)
  BY <1>4 DEF WriteACL, SaveKeyring, Step
<1>5. CASE Forge(p)
  <2>. DEFINE c == [cmd[p] EXCEPT !.at = "forged"]
  <2>1. Step(p, c, {}) /\ cmd[p] # NoCmd /\ cmd[p].at = "forge"
    BY <1>5 DEF Forge, Go, At
  <2>2. c.op = cmd[p].op /\ cmd[p].op # "lock"
    BY <2>1, ActiveShape DEF TypeInv, Shaped, StagesOf, Cmds
  <2>. HIDE DEF c
  <2>. QED
    BY <2>1, <2>2 DEF Step
<1>6. CASE Forged(p)
  <2>1. PICK c : Step(p, c, {}) /\ c.op = "self_init"
    BY <1>6, ForgedMoves
  <2>. QED
    BY <2>1 DEF Step
<1>7. CASE Unlock(p)
  <2>. DEFINE c == [cmd[p] EXCEPT !.at = "attributes"]
  <2>1. /\ Step(p, c, {}) \/ Step(p, NoCmd, {})
        /\ cmd[p] # NoCmd /\ cmd[p].at \in Hooks
    BY <1>7 DEF Unlock
  <2>2. c.op = cmd[p].op /\ cmd[p].op # "lock"
    BY <2>1, ActiveShape DEF TypeInv, Shaped, StagesOf, Cmds, Hooks
  <2>. HIDE DEF c
  <2>. QED
    BY <2>1, <2>2 DEF Step
<1>. QED
  BY <1>1, <1>2, <1>3, <1>4, <1>5, <1>6, <1>7

\* lock begins with every document that has an ACL before it.
LEMMA StartScrubs ==
  ASSUME TypeInv, ScrubInv, ACLsStay, NEW p \in Procs, NEW r \in Requests, Start(p, r)
  PROVE  ScrubInv'
<1>. DEFINE docs == IF r[1] = "lock" THEN WithACL ELSE {}
            c == StartOf(r, docs)
<1>1. Step(p, c, {}) /\ work' = work /\ acl' = acl
  BY DEF Start, StartOf, files
<1>2. c.todo = docs /\ c.docs = docs
  BY DEF StartOf
<1>3. \A d \in docs : acl[d] # NoACL
  BY DEF WithACL
<1>. HIDE DEF c, docs
<1>4. ScrubOf(c, work', acl')
  BY <1>1, <1>2, <1>3 DEF ScrubOf, Visited
<1>5. {} \in SUBSET Paths /\ \A d \in Docs : work'[d] = work[d]
  BY <1>1
<1>. QED
  BY <1>1, <1>4, <1>5, ScrubStep

LEMMA OpenScrubs ==
  ASSUME TypeInv, ScrubInv, ACLsStay, NEW p \in Procs, LockOpen(p)
  PROVE  ScrubInv'
<1>1. PICK d, c :
        /\ d \in Docs /\ cmd[p] # NoCmd /\ cmd[p].at = "open" /\ cmd[p].op = "lock"
        /\ Shaped(c, issued) /\ c.op = "lock" /\ c.todo = cmd[p].todo \ {d}
        /\ \/ /\ work[d] = NoFile \/ IsEnvelope(work[d])
              /\ Step(p, c, {}) /\ work' = work
              /\ c.at = "open" /\ c.docs = cmd[p].docs /\ c.touched = cmd[p].touched
           \/ /\ work' = [work EXCEPT ![d] = Plain(Blank)]
              /\ Step(p, c, {File(d)})
              /\ c.at = "seal" /\ c.doc = d
              /\ c.docs = cmd[p].docs \ Altered(cmd[p]) /\ c.touched = {}
  BY OpenMoves
<1>2. ScrubOf(cmd[p], work, acl) /\ cmd[p] \in Cmds
  BY <1>1, ActiveShape DEF ScrubInv, TypeInv
<1>3. acl' = acl
  BY DEF LockOpen
<1>4. CASE /\ work[d] = NoFile \/ IsEnvelope(work[d])
           /\ Step(p, c, {}) /\ work' = work
           /\ c.at = "open" /\ c.docs = cmd[p].docs /\ c.touched = cmd[p].touched
  <2>1. \A e \in Docs : Visited(c, e) => (e = d \/ Visited(cmd[p], e))
    BY <1>1, <1>4 DEF Visited, Altered
  <2>2. ScrubOf(c, work', acl')
    BY <1>2, <1>3, <1>4, <2>1 DEF ScrubOf, Scrubbed
  <2>3. {} \in SUBSET Paths /\ \A e \in Docs : work'[e] = work[e]
    BY <1>4
  <2>. QED
    BY <1>4, <2>2, <2>3, ScrubStep
<1>5. CASE /\ work' = [work EXCEPT ![d] = Plain(Blank)]
           /\ Step(p, c, {File(d)})
           /\ c.at = "seal" /\ c.doc = d
           /\ c.docs = cmd[p].docs \ Altered(cmd[p]) /\ c.touched = {}
  <2>1. \A e \in Docs : Visited(c, e) => (e # d /\ Visited(cmd[p], e))
    BY <1>1, <1>5 DEF Visited
  <2>2. \A e \in Docs : e # d => work'[e] = work[e]
    BY <1>5 DEF TypeInv, FilesOK
  <2>3. ScrubOf(c, work', acl')
    BY <1>2, <1>3, <1>5, <2>1, <2>2 DEF ScrubOf
  <2>4. {File(d)} \in SUBSET Paths /\ \A e \in Docs : work'[e] = work[e] \/ File(e) \in {File(d)}
    BY <1>1, <2>2, PathsOK
  <2>. QED
    BY <1>5, <2>3, <2>4, ScrubStep
<1>. QED
  BY <1>1, <1>4, <1>5

LEMMA SealScrubs ==
  ASSUME TypeInv, ScrubInv, ACLsStay, NEW p \in Procs, LockSeal(p)
  PROVE  ScrubInv'
<1>. DEFINE e == cmd[p].doc
<1>1. PICK c, b :
        /\ cmd[p] # NoCmd /\ cmd[p].at = "seal" /\ cmd[p].op = "lock" /\ e \in Docs
        /\ c.op = "lock" /\ c.at = "open" /\ c.todo = cmd[p].todo
        /\ c.docs = cmd[p].docs /\ c.touched = cmd[p].touched /\ Step(p, c, {File(e)})
        /\ acl[e] # NoACL => IsEnvelope(b)
        /\ \/ work' = [work EXCEPT ![e] = b]
           \/ File(e) \in cmd[p].touched /\ work' = work
  BY SealMoves
<1>2. ScrubOf(cmd[p], work, acl) /\ acl' = acl
  BY <1>1 DEF ScrubInv, LockSeal
<1>3. \A d \in Docs : d # e => work'[d] = work[d]
  BY <1>1 DEF TypeInv, FilesOK
<1>4. Visited(c, e) => Scrubbed(work'[e])
  <2>. SUFFICES ASSUME Visited(c, e) PROVE Scrubbed(work'[e])
    OBVIOUS
  <2>1. File(e) \notin cmd[p].touched /\ acl[e] # NoACL
    BY <1>1, <1>2 DEF Visited, Altered, ScrubOf
  <2>2. work'[e] = b
    BY <1>1, <2>1 DEF TypeInv, FilesOK
  <2>. QED
    BY <1>1, <2>1, <2>2 DEF Scrubbed
<1>. HIDE DEF e
<1>5. \A d \in Docs : (Visited(c, d) /\ d # e) => Visited(cmd[p], d)
  BY <1>1 DEF Visited, Altered, e
<1>6. ScrubOf(c, work', acl')
  BY <1>1, <1>2, <1>3, <1>4, <1>5 DEF ScrubOf
<1>7. {File(e)} \in SUBSET Paths /\ \A d \in Docs : work'[d] = work[d] \/ File(d) \in {File(e)}
  BY <1>1, <1>3, PathsOK
<1>. QED
  BY <1>1, <1>6, <1>7, ScrubStep

\* Editors and git tell the locks what they write.
LEMMA WrittenScrubs ==
  ASSUME TypeInv, ScrubInv, ACLsStay, NEW e \in Docs, NEW b, Touch({File(e)}),
         work' = [work EXCEPT ![e] = b]
  PROVE  ScrubInv'
<1>. SUFFICES ASSUME NEW q \in Procs, cmd'[q] # NoCmd, cmd'[q].op = "lock"
              PROVE  ScrubOf(cmd'[q], work', acl')
  BY DEF ScrubInv
<1>1. {File(e)} \in SUBSET Paths
  BY PathsOK
<1>2. cmd[q] # NoCmd /\ IsTold(cmd[q], cmd'[q], {File(e)})
  BY <1>1, AllTold DEF TypeInv
<1>3. cmd[q] \in Cmds
  BY <1>2, ActiveShape DEF TypeInv
<1>4. ScrubOf(cmd[q], work, acl)
  BY <1>2 DEF ScrubInv, IsTold
<1>5. \A d \in Docs : work'[d] = work[d] \/ File(d) \in {File(e)}
  BY DEF TypeInv, FilesOK
<1>. QED
  BY <1>1, <1>2, <1>3, <1>4, <1>5, ScrubFrame

LEMMA ScrubKeeps ==
  ASSUME TypeInv, ScrubInv, [VaultNext]_vaultVars
  PROVE  ScrubInv'
<1>0. ACLsStay
  BY ACLsStayStep
<1>1. ASSUME NEW p \in Procs, NEW r \in Requests, Start(p, r) PROVE ScrubInv'
  BY <1>0, <1>1, StartScrubs
<1>2. ASSUME NEW p \in Procs,
             \/ Load(p) \/ ReadACL(p) \/ Truncate(p) \/ WriteACL(p) \/ SaveKeyring(p)
             \/ Forge(p) \/ Forged(p) \/ Unlock(p)
      PROVE  ScrubInv'
  <2>1. PICK c, fs : fs \in SUBSET Paths /\ Step(p, c, fs) /\ UNCHANGED <<work, latest, spilled>>
    BY <1>2, QuietMoves
  <2>2. c = NoCmd \/ c.op # "lock"
    <3>1. c = cmd'[p]
      BY <2>1 DEF Step
    <3>. QED
      BY <1>2, <3>1, OtherCommands
  <2>3. \A d \in Docs : work'[d] = work[d] \/ File(d) \in fs
    BY <2>1
  <2>. QED
    BY <1>0, <2>1, <2>2, <2>3, ScrubStep
<1>3. ASSUME NEW p \in Procs, LockOpen(p) \/ LockSeal(p) PROVE ScrubInv'
  BY <1>0, <1>3, OpenScrubs, SealScrubs
<1>4. ASSUME NEW p \in Procs, LockSpills(p) \/ LockDone(p) \/ CommandFails(p) PROVE ScrubInv'
  <2>1. Step(p, NoCmd, {}) /\ work' = work
    BY <1>4 DEF LockSpills, LockDone, CommandFails, Internal, files
  <2>2. {} \in SUBSET Paths /\ \A d \in Docs : work'[d] = work[d]
    BY <2>1
  <2>. QED
    BY <1>0, <2>1, <2>2, ScrubStep
<1>5. ASSUME NEW d \in Docs, Checkout(d) \/ \E t \in Texts \cup {NoFile} : Edit(d, t)
      PROVE  ScrubInv'
  <2>1. Touch({File(d)}) /\ \E b : work' = [work EXCEPT ![d] = b]
    BY <1>5 DEF Checkout, Edit
  <2>. QED
    BY <1>0, <2>1, WrittenScrubs
<1>6. ASSUME UNCHANGED <<work, acl, cmd>> PROVE ScrubInv'
  BY <1>6 DEF ScrubInv, ScrubOf
<1>7. ASSUME NEW d \in Docs, Add(d) PROVE ScrubInv'
  BY <1>6, <1>7 DEF Add
<1>8. ASSUME NEW q \in Persons, PeerRotates(q) PROVE ScrubInv'
  BY <1>6, <1>8 DEF PeerRotates
<1>9. CASE UNCHANGED vaultVars
  BY <1>6, <1>9 DEF vaultVars, files
<1>. QED
  BY <1>1, <1>2, <1>3, <1>4, <1>5, <1>7, <1>8, <1>9 DEF VaultNext, CommandStep

\* When lock has ended without error every document that had an ACL when it began, and
\* that nobody wrote or gave another ACL meanwhile, is missing or an envelope.
THEOREM LockLeavesNoPlainText ==
  VaultSpec => LockScrubs
<1>1. VaultInit => ScrubInv
  BY DEF VaultInit, ScrubInv
<1>2. TypeInv /\ ScrubInv /\ [VaultNext]_vaultVars => ScrubInv'
  BY ScrubKeeps
<1>3. ASSUME TypeInv, ScrubInv
      PROVE  \A p \in Procs : LockDone(p) =>
               \A d \in cmd[p].docs \ Altered(cmd[p]) : work[d] = NoFile \/ IsEnvelope(work[d])
  <2>. SUFFICES ASSUME NEW p \in Procs, LockDone(p), NEW d \in cmd[p].docs \ Altered(cmd[p])
                PROVE  work[d] = NoFile \/ IsEnvelope(work[d])
    OBVIOUS
  <2>1. cmd[p] # NoCmd /\ cmd[p].at = "open" /\ cmd[p].todo = {}
    BY DEF LockDone, At
  <2>2. cmd[p] \in Cmds /\ cmd[p].op = "lock"
    BY <1>3, <2>1, ActiveShape DEF TypeInv, Shaped, StagesOf, Cmds, Ops
  <2>3. d \in Docs /\ Visited(cmd[p], d)
    BY <2>1, <2>2 DEF Visited, Cmds
  <2>. QED
    BY <1>3, <2>1, <2>2, <2>3 DEF ScrubInv, ScrubOf, Scrubbed
<1>4. TypeInv /\ ScrubInv /\ [VaultNext]_vaultVars =>
        [\A p \in Procs : LockDone(p) =>
           \A d \in cmd[p].docs \ Altered(cmd[p]) : work[d] = NoFile \/ IsEnvelope(work[d])
        ]_vaultVars
  BY <1>3
<1>. QED
  BY <1>1, <1>2, <1>4, VaultTyped, PTL DEF VaultSpec, LockScrubs

-----------------------------------------------------------------------------
\* ACLs name the persons meant.  Of an acl command that nobody disturbed, the tokens it
\* will write are right already, or another command is just writing that ACL and will
\* disturb it.

Names(ts, ns, is) == \A q \in Persons : is[q] <= 1 => ((\E t \in ts : t[1] = q) <=> q \in ns)
Writing(p, d) == At(p, "write") /\ cmd[p].doc = d
ACLOf(d) == (d \notin muddled /\ \A p \in Procs : ~Writing(p, d)) =>
              acl[d] = NoACL \/ Names(acl[d], named[d], issued)
Decided(c) == c # NoCmd /\ c.op \in {"set", "add", "rm"} /\ c.at \in {"truncate", "write"}
OutOf(p) ==
  Decided(cmd[p]) =>
    /\ cmd[p].op = "set" => Names(cmd[p].out, cmd[p].nicks, [q \in Persons |-> 0])
    /\ (/\ cmd[p].op # "set" /\ cmd[p].doc \notin muddled
        /\ ACLFile(cmd[p].doc) \notin cmd[p].touched) =>
         \/ Names(cmd[p].out, Meant(cmd[p]), issued)
         \/ \E q \in Procs \ {p} : Writing(q, cmd[p].doc)
ACLInv == (\A d \in Docs : ACLOf(d)) /\ \A p \in Procs : OutOf(p)

LEMMA NamesGrow ==
  ASSUME NEW ts, NEW ns, NEW is \in [Persons -> 0..MaxGen], NEW js \in [Persons -> 0..MaxGen],
         Grown(is, js), Names(ts, ns, is)
  PROVE  Names(ts, ns, js)
<1>. SUFFICES ASSUME NEW q \in Persons, js[q] <= 1
              PROVE  (\E t \in ts : t[1] = q) <=> q \in ns
  BY DEF Names
<1>1. is[q] <= 1
  BY VaultAssumption DEF Grown
<1>. QED
  BY <1>1 DEF Names

\* One token and more for each of the persons.
TokensFor(qs, ts) == \A q \in Persons : q \in qs <=> \E t \in ts : t[1] = q

\* Who generated one key pair has one token, which acl rm finds.
ChangeOf(c, readers, toks, ns, qs, is) ==
  /\ c.op \in {"add", "rm"} /\ is \in [Persons -> 0..MaxGen]
  /\ readers \in SUBSET Tokens /\ RealTokens(readers, is)
  /\ toks \in SUBSET Tokens /\ RealTokens(toks, is)
  /\ Names(readers, ns, is) /\ TokensFor(qs, toks)
LEMMA ChangedNames ==
  ASSUME NEW c, NEW readers, NEW toks, NEW ns, NEW qs, NEW is,
         ChangeOf(c, readers, toks, ns, qs, is)
  PROVE  /\ c.op = "add" => Names(Changed(c, readers, toks), ns \cup qs, is)
         /\ c.op = "rm" => Names(Changed(c, readers, toks), ns \ qs, is)
<1>. SUFFICES ASSUME NEW q \in Persons, is[q] <= 1
              PROVE  /\ c.op = "add" => ((\E t \in Changed(c, readers, toks) : t[1] = q)
                                           <=> q \in ns \cup qs)
                     /\ c.op = "rm" => ((\E t \in Changed(c, readers, toks) : t[1] = q)
                                          <=> q \in ns \ qs)
  BY DEF Names
<1>0. /\ c.op \in {"add", "rm"} /\ is \in [Persons -> 0..MaxGen]
      /\ readers \in SUBSET Tokens /\ RealTokens(readers, is)
      /\ toks \in SUBSET Tokens /\ RealTokens(toks, is)
      /\ Names(readers, ns, is) /\ TokensFor(qs, toks)
  BY DEF ChangeOf
<1>1. (\E t \in readers : t[1] = q) <=> q \in ns
  BY <1>0 DEF Names
<1>2. (\E t \in toks : t[1] = q) <=> q \in qs
  BY <1>0 DEF TokensFor
<1>3. \A t \in readers \cup toks : t[1] = q => t = <<q, 1>>
  <2>. SUFFICES ASSUME NEW t \in readers \cup toks, t[1] = q PROVE t = <<q, 1>>
    OBVIOUS
  <2>1. t \in Persons \X (1..MaxGen) /\ t[2] <= is[q]
    BY <1>0 DEF RealTokens, Tokens, Keys
  <2>2. t[2] \in 1..MaxGen /\ is[q] \in 0..MaxGen
    BY <1>0, <2>1
  <2>3. t[2] = 1
    BY <2>1, <2>2, VaultAssumption
  <2>. QED
    BY <2>1, <2>3
<1>4. CASE c.op = "add"
  BY <1>1, <1>2, <1>4 DEF Changed
<1>5. CASE c.op = "rm"
  BY <1>1, <1>2, <1>3, <1>5 DEF Changed
<1>. QED
  BY <1>4, <1>5

\* A step leaves d's ACL to those who write it: nobody stops writing it unless the others
\* are told, or d is muddled.
LeavesACL(d, fs) ==
  \/ ACLFile(d) \in fs \/ d \in muddled'
  \/ d \notin muddled /\ named'[d] = named[d] /\ \A r \in Procs : Writing(r, d) => Writing(r, d)'

LEMMA OutFrame ==
  ASSUME TypeInv, TypeInv', NEW q \in Procs, OutOf(q), NEW fs \in SUBSET Paths,
         \/ cmd[q] = NoCmd /\ cmd'[q] = NoCmd
         \/ cmd[q] # NoCmd /\ IsTold(cmd[q], cmd'[q], fs),
         Grown(issued, issued'), \A d \in Docs : LeavesACL(d, fs)
  PROVE  OutOf(q)'
<1>. SUFFICES ASSUME Decided(cmd'[q])
              PROVE  OutOf(q)'
  BY DEF OutOf
<1>1. cmd[q] # NoCmd /\ IsTold(cmd[q], cmd'[q], fs)
  BY DEF Decided
<1>2. Decided(cmd[q])
  BY <1>1 DEF Decided, IsTold
<1>3. cmd[q].doc \in Docs
  BY <1>1, <1>2, ActiveShape DEF TypeInv, Shaped, Decided
<1>4. cmd'[q].op = "set" => Names(cmd'[q].out, cmd'[q].nicks, [r \in Persons |-> 0])
  BY <1>1, <1>2 DEF OutOf, IsTold
<1>5. ASSUME cmd'[q].op # "set", cmd'[q].doc \notin muddled',
             ACLFile(cmd'[q].doc) \notin cmd'[q].touched
      PROVE  \/ Names(cmd'[q].out, Meant(cmd[q])', issued')
             \/ \E r \in Procs \ {q} : Writing(r, cmd[q].doc)'
  <2>. DEFINE d == cmd[q].doc
  <2>1. /\ cmd[q].op # "set" /\ ACLFile(d) \notin cmd[q].touched /\ ACLFile(d) \notin fs
        /\ d \notin muddled'
    BY <1>1, <1>5 DEF IsTold
  <2>2. /\ d \notin muddled /\ named'[d] = named[d]
        /\ \A r \in Procs : Writing(r, d) => Writing(r, d)'
    <3>1. LeavesACL(d, fs)
      BY <1>3
    <3>. HIDE DEF d
    <3>. QED
      BY <2>1, <3>1 DEF LeavesACL
  <2>3. \/ Names(cmd[q].out, Meant(cmd[q]), issued)
        \/ \E r \in Procs \ {q} : Writing(r, d)
    BY <1>2, <2>1, <2>2 DEF OutOf
  <2>4. CASE Names(cmd[q].out, Meant(cmd[q]), issued)
    <3>1. Meant(cmd[q])' = Meant(cmd[q])
      BY <1>1, <2>2 DEF Meant, IsTold
    <3>2. Names(cmd[q].out, Meant(cmd[q]), issued')
      BY <2>4, NamesGrow DEF TypeInv, FilesOK
    <3>. QED
      BY <1>1, <3>1, <3>2 DEF IsTold
  <2>. QED
    BY <2>2, <2>3, <2>4
<1>6. cmd'[q].doc = cmd[q].doc
  BY <1>1 DEF IsTold
<1>. QED
  BY <1>4, <1>5, <1>6 DEF OutOf, Writing, At

LEMMA ACLFrame ==
  ASSUME TypeInv, TypeInv', NEW d \in Docs, ACLOf(d), acl'[d] = acl[d],
         Grown(issued, issued'), LeavesACL(d, {})
  PROVE  ACLOf(d)'
<1>. SUFFICES ASSUME d \notin muddled', \A q \in Procs : ~Writing(q, d)', acl'[d] # NoACL
              PROVE  Names(acl'[d], named'[d], issued')
  BY DEF ACLOf
<1>1. d \notin muddled /\ named'[d] = named[d] /\ \A q \in Procs : ~Writing(q, d)
  BY DEF LeavesACL
<1>2. Names(acl[d], named[d], issued)
  BY <1>1 DEF ACLOf
<1>. QED
  BY <1>1, <1>2, NamesGrow DEF TypeInv, FilesOK

LEMMA OthersWrite ==
  ASSUME CmdsOK, NEW p \in Procs, NEW c, NEW fs \in SUBSET Paths, Step(p, c, fs),
         NEW q \in Procs, q # p, NEW d
  PROVE  Writing(q, d)' <=> Writing(q, d)
<1>1. \/ cmd[q] = NoCmd /\ cmd'[q] = NoCmd
      \/ cmd[q] # NoCmd /\ IsTold(cmd[q], cmd'[q], fs)
  BY OthersTold
<1>. QED
  BY <1>1 DEF Writing, At, IsTold

\* The other commands' tokens stay right.
LEMMA OthersOut ==
  ASSUME TypeInv, TypeInv', ACLInv, NEW p \in Procs, NEW c, NEW fs \in SUBSET Paths,
         Step(p, c, fs), Grown(issued, issued'), \A d \in Docs : LeavesACL(d, fs),
         NEW q \in Procs, q # p
  PROVE  OutOf(q)'
<1>1. \/ cmd[q] = NoCmd /\ cmd'[q] = NoCmd
      \/ cmd[q] # NoCmd /\ IsTold(cmd[q], cmd'[q], fs)
  BY OthersTold DEF TypeInv
<1>. QED
  BY <1>1, OutFrame DEF ACLInv

\* A command that has nothing to do with ACLs, or not yet, or ends early.
LEMMA ACLApart ==
  ASSUME TypeInv, TypeInv', ACLInv, NEW p \in Procs, NEW c, NEW fs \in SUBSET Paths,
         Step(p, c, fs), UNCHANGED <<acl, named>>, muddled \subseteq muddled',
         Grown(issued, issued'), \A d \in Docs : Writing(p, d) => d \in muddled', OutOf(p)'
  PROVE  ACLInv'
<1>1. ASSUME NEW d \in Docs PROVE LeavesACL(d, {})
  <2>1. \A q \in Procs \ {p} : Writing(q, d)' <=> Writing(q, d)
    BY OthersWrite DEF TypeInv
  <2>. QED
    BY <2>1 DEF LeavesACL
<1>2. \A d \in Docs : LeavesACL(d, fs)
  BY <1>1 DEF LeavesACL
<1>3. \A q \in Procs : OutOf(q)'
  BY <1>2, OthersOut
<1>4. \A d \in Docs : ACLOf(d)'
  BY <1>1, ACLFrame DEF ACLInv
<1>. QED
  BY <1>3, <1>4 DEF ACLInv

\* acl set: the tokens of the nicknames given.
LEMMA LoadNames ==
  ASSUME TypeInv, TypeInv', ACLInv, NEW p \in Procs, Load(p)
  PROVE  ACLInv'
<1>1. PICK c : /\ Step(p, c, {}) /\ Internal
               /\ \/ c = NoCmd
                  \/ /\ c.op \in {"set", "add", "rm", "import", "self_init"}
                     /\ c.op = "set" => \A q \in Persons :
                                          q \in c.nicks <=> \E t \in c.out : t[1] = q
                     /\ c.op \in {"add", "rm"} => c.at = "read"
  BY LoadMoves
<1>2. cmd'[p] = c /\ UNCHANGED <<acl, named, muddled, issued>>
  BY <1>1 DEF Step, Internal, files, Ghosts
<1>3. \A d \in Docs : ~Writing(p, d)
  BY DEF Load, At, Writing
<1>4. OutOf(p)'
  <2>1. c = NoCmd \/ ~Decided(c) \/ (c.op = "set" /\ Names(c.out, c.nicks, [q \in Persons |-> 0]))
    BY <1>1 DEF Decided, Names
  <2>. QED
    BY <1>2, <2>1 DEF OutOf, Decided
<1>5. {} \in SUBSET Paths /\ muddled \subseteq muddled' /\ Grown(issued, issued')
  BY <1>2, SameGrown DEF TypeInv
<1>. QED
  BY <1>1, <1>2, <1>3, <1>4, <1>5, ACLApart

\* acl add and acl rm: the readers there are were those meant, or are being written.
LEMMA ReadNames ==
  ASSUME TypeInv, TypeInv', ACLInv, NEW p \in Procs, ReadACL(p)
  PROVE  ACLInv'
<1>1. PICK c : /\ Step(p, c, {}) /\ Internal
               /\ \/ c = NoCmd
                  \/ /\ Shaped(c, issued) /\ c.op = cmd[p].op /\ c.doc = cmd[p].doc
                     /\ c.op \in {"add", "rm"}
                     /\ c.nicks = cmd[p].nicks
                     /\ c.at = "truncate" /\ acl[c.doc] # NoACL
                     /\ Resolves(cmd[p].ring, c.nicks)
                     /\ c.out = Changed(cmd[p], acl[c.doc], TokensOf(cmd[p].ring, c.nicks))
  BY ReadMoves
<1>2. cmd'[p] = c /\ UNCHANGED <<acl, named, muddled, issued>>
  BY <1>1 DEF Step, Internal, files, Ghosts
<1>3. \A d \in Docs : ~Writing(p, d)
  BY DEF ReadACL, At, Writing
<1>0. {} \in SUBSET Paths
  OBVIOUS
<1>4. OutOf(p)'
  <2>1. CASE c = NoCmd
    BY <1>2, <2>1 DEF OutOf, Decided
  <2>2. CASE c # NoCmd /\ \E q \in Procs \ {p} : Writing(q, c.doc)
    <3>1. PICK q \in Procs \ {p} : Writing(q, c.doc)
      BY <2>2
    <3>2. Writing(q, c.doc)'
      BY <1>0, <1>1, <3>1, OthersWrite DEF TypeInv
    <3>3. Writing(q, cmd[p].doc)'
      BY <1>2, <3>2 DEF Writing, At
    <3>4. cmd'[p].op # "set"
      BY <1>1, <1>2, <2>2
    <3>. QED
      BY <3>3, <3>4 DEF OutOf
  <2>3. CASE c # NoCmd /\ \A q \in Procs \ {p} : ~Writing(q, c.doc)
    <3>. DEFINE toks == TokensOf(cmd[p].ring, c.nicks)
    <3>1. c.doc \in Docs /\ c.nicks \in SUBSET Persons
      BY <1>1, <2>3 DEF Shaped, Cmds
    <3>2. cmd[p].ring \in Seq(Entries) /\ RealRing(cmd[p].ring, issued)
      BY ActiveShape DEF TypeInv, ReadACL, At, Shaped, Cmds
    <3>3. /\ toks \in SUBSET Tokens /\ RealTokens(toks, issued)
          /\ \A q \in Persons : q \in c.nicks <=> \E t \in toks : t[1] = q
      BY <1>1, <2>3, <3>1, <3>2, ResolvedTokens
    <3>4. acl[c.doc] \in SUBSET Tokens /\ RealTokens(acl[c.doc], issued)
      BY <1>1, <2>3, <3>1 DEF TypeInv, FilesOK
    <3>5. named[c.doc] \in SUBSET Persons /\ issued \in [Persons -> 0..MaxGen]
      BY <3>1 DEF TypeInv, FilesOK, GhostsOK
    <3>6. c.doc \notin muddled => Names(acl[c.doc], named[c.doc], issued)
      BY <1>1, <1>3, <2>3, <3>1 DEF ACLInv, ACLOf
    <3>. HIDE DEF toks
    <3>0. /\ cmd[p].op \in {"add", "rm"} /\ c.op = cmd[p].op
          /\ c.out = Changed(cmd[p], acl[c.doc], toks)
      BY <1>1, <2>3 DEF toks
    <3>7. c.doc \notin muddled =>
            Names(c.out, IF c.op = "add" THEN named[c.doc] \cup c.nicks
                         ELSE named[c.doc] \ c.nicks, issued)
      <4>. SUFFICES ASSUME c.doc \notin muddled
                    PROVE  Names(c.out, IF c.op = "add" THEN named[c.doc] \cup c.nicks
                                        ELSE named[c.doc] \ c.nicks, issued)
        OBVIOUS
      <4>1. Names(acl[c.doc], named[c.doc], issued)
        BY <3>6
      <4>2. Names(Changed(cmd[p], acl[c.doc], toks),
                  IF cmd[p].op = "add" THEN named[c.doc] \cup c.nicks
                  ELSE named[c.doc] \ c.nicks, issued)
        <5>1. ChangeOf(cmd[p], acl[c.doc], toks, named[c.doc], c.nicks, issued)
          BY <3>0, <3>1, <3>3, <3>4, <3>5, <4>1 DEF ChangeOf, TokensFor
        <5>2. /\ cmd[p].op = "add" => Names(Changed(cmd[p], acl[c.doc], toks),
                                            named[c.doc] \cup c.nicks, issued)
              /\ cmd[p].op = "rm" => Names(Changed(cmd[p], acl[c.doc], toks),
                                           named[c.doc] \ c.nicks, issued)
          BY <5>1, ChangedNames
        <5>. QED
          BY <3>0, <5>2
      <4>. QED
        BY <3>0, <4>2
    <3>8. Meant(cmd[p])' = IF c.op = "add" THEN named[c.doc] \cup c.nicks
                           ELSE named[c.doc] \ c.nicks
      BY <1>1, <1>2, <2>3 DEF Meant
    <3>. QED
      BY <1>1, <1>2, <2>3, <3>7, <3>8 DEF OutOf
  <2>. QED
    BY <2>1, <2>2, <2>3
<1>5. muddled \subseteq muddled' /\ Grown(issued, issued')
  BY <1>2, SameGrown DEF TypeInv
<1>. QED
  BY <1>0, <1>1, <1>2, <1>3, <1>4, <1>5, ACLApart

\* The ACL is emptied; who does so is now writing it, and the others are told.
LEMMA TruncateNames ==
  ASSUME TypeInv, TypeInv', ACLInv, NEW p \in Procs, Truncate(p)
  PROVE  ACLInv'
<1>1. PICK c : /\ Shaped(c, issued) /\ c.op = cmd[p].op /\ c.doc = cmd[p].doc
               /\ c.out = cmd[p].out /\ c.nicks = cmd[p].nicks
               /\ c.touched = cmd[p].touched /\ c.at = "write"
               /\ cmd[p].at = "truncate" /\ cmd[p] # NoCmd
               /\ \/ /\ c.doc \in Docs /\ acl' = [acl EXCEPT ![c.doc] = {}]
                     /\ Step(p, c, {ACLFile(c.doc)})
                  \/ c.doc = NoFile /\ acl' = acl /\ Step(p, c, {})
  BY TruncateMoves
<1>2. UNCHANGED <<named, muddled, issued>> /\ cmd'[p] = c
  BY <1>1 DEF Truncate, Ghosts, Step
<1>3. \A d \in Docs : ~Writing(p, d)
  BY <1>1 DEF At, Writing
<1>4. Grown(issued, issued') /\ c # NoCmd
  BY <1>1, <1>2, SameGrown DEF TypeInv, Shaped, Cmds, NoCmd, Ops
<1>5. CASE c.doc = NoFile /\ acl' = acl /\ Step(p, c, {})
  <2>1. c.op \notin {"set", "add", "rm"}
    BY <1>1, <1>5, VaultAssumption DEF Shaped
  <2>2. OutOf(p)'
    BY <1>2, <2>1 DEF OutOf, Decided
  <2>3. {} \in SUBSET Paths
    OBVIOUS
  <2>. QED
    BY <1>2, <1>3, <1>4, <1>5, <2>2, <2>3, ACLApart
<1>6. CASE /\ c.doc \in Docs /\ acl' = [acl EXCEPT ![c.doc] = {}]
           /\ Step(p, c, {ACLFile(c.doc)})
  <2>0. {ACLFile(c.doc)} \in SUBSET Paths
    BY <1>6, PathsOK
  <2>1. \A d \in Docs, q \in Procs \ {p} : Writing(q, d)' <=> Writing(q, d)
    BY <1>6, <2>0, OthersWrite DEF TypeInv
  <2>2. \A d \in Docs : LeavesACL(d, {})
    BY <1>2, <1>3, <2>1 DEF LeavesACL
  <2>3. \A d \in Docs : LeavesACL(d, {ACLFile(c.doc)})
    BY <2>2 DEF LeavesACL
  <2>4. \A q \in Procs \ {p} : OutOf(q)'
    BY <1>4, <1>6, <2>0, <2>3, OthersOut
  <2>5. OutOf(p)'
    <3>. SUFFICES ASSUME Decided(cmd'[p]) PROVE OutOf(p)'
      BY DEF OutOf
    <3>1. Decided(cmd[p])
      BY <1>1, <1>2 DEF Decided
    <3>2. OutOf(p)
      BY DEF ACLInv
    <3>3. Meant(cmd[p])' = Meant(cmd[p])
      BY <1>1, <1>2 DEF Meant
    <3>4. \A q \in Procs \ {p} : Writing(q, c.doc) => Writing(q, c.doc)'
      BY <1>6, <2>1
    <3>5. \A q \in Procs : Writing(q, c.doc)' => Writing(q, cmd[p].doc)'
      BY <1>2 DEF Writing, At
    <3>6. cmd[p].op = "set" => Names(cmd[p].out, cmd[p].nicks, [q \in Persons |-> 0])
      BY <3>1, <3>2 DEF OutOf
    <3>7. (/\ cmd[p].op # "set" /\ cmd[p].doc \notin muddled
           /\ ACLFile(cmd[p].doc) \notin cmd[p].touched) =>
             \/ Names(cmd[p].out, Meant(cmd[p]), issued)
             \/ \E q \in Procs \ {p} : Writing(q, cmd[p].doc)
      BY <3>1, <3>2 DEF OutOf
    <3>. QED
      BY <1>1, <1>2, <3>3, <3>4, <3>5, <3>6, <3>7 DEF OutOf
  <2>6. \A d \in Docs : ACLOf(d)'
    <3>. SUFFICES ASSUME NEW d \in Docs PROVE ACLOf(d)'
      OBVIOUS
    <3>1. CASE d = c.doc
      <4>1. Writing(p, d)'
        BY <1>1, <1>2, <1>4, <3>1 DEF Writing, At
      <4>. QED
        BY <4>1 DEF ACLOf
    <3>2. CASE d # c.doc
      <4>1. acl'[d] = acl[d]
        BY <1>6, <3>2 DEF TypeInv, FilesOK
      <4>. QED
        BY <1>4, <2>2, <4>1, ACLFrame DEF ACLInv
    <3>. QED
      BY <3>1, <3>2
  <2>. QED
    BY <2>4, <2>5, <2>6 DEF ACLInv
<1>. QED
  BY <1>1, <1>5, <1>6

\* The tokens are written: they are right, or somebody else still writes this ACL, or it
\* is muddled.
LEMMA WriteNames ==
  ASSUME TypeInv, TypeInv', ACLInv, NEW p \in Procs, WriteACL(p)
  PROVE  ACLInv'
<1>0. PICK e : e = cmd[p].doc
  OBVIOUS
<1>1. /\ cmd[p] # NoCmd /\ cmd[p].at = "write" /\ e # NoFile
      /\ acl' = [acl EXCEPT ![e] = cmd[p].out]
      /\ named' = [named EXCEPT ![e] = Meant(cmd[p])]
      /\ muddled' = IF ACLFile(e) \in cmd[p].touched THEN muddled \cup {e}
                    ELSE IF cmd[p].op = "set" THEN muddled \ {e} ELSE muddled
      /\ Step(p, NoCmd, {ACLFile(e)}) /\ issued' = issued
  BY <1>0 DEF WriteACL, At
<1>2. Shaped(cmd[p], issued) /\ cmd[p] \in Cmds
  BY <1>1, ActiveShape DEF TypeInv
<1>3. e \in Docs /\ cmd[p].op \in {"set", "add", "rm"}
  BY <1>0, <1>1, <1>2 DEF Shaped, Cmds, StagesOf, Ops
<1>4. OutOf(p) /\ Decided(cmd[p])
  BY <1>1, <1>3 DEF ACLInv, Decided
<1>5. /\ cmd[p].op = "set" => Names(cmd[p].out, cmd[p].nicks, [q \in Persons |-> 0])
      /\ (cmd[p].op # "set" /\ e \notin muddled /\ ACLFile(e) \notin cmd[p].touched) =>
           \/ Names(cmd[p].out, Meant(cmd[p]), issued)
           \/ \E q \in Procs \ {p} : Writing(q, e)
  BY <1>0, <1>4 DEF OutOf
<1>6. cmd[p].op = "set" => Names(cmd[p].out, Meant(cmd[p]), issued)
  BY <1>5, VaultAssumption DEF Names, Meant
<1>7. acl'[e] = cmd[p].out /\ named'[e] = Meant(cmd[p])
  BY <1>1, <1>3 DEF TypeInv, FilesOK, GhostsOK
<1>8. \A d \in Docs : d # e => /\ acl'[d] = acl[d] /\ named'[d] = named[d]
                               /\ d \in muddled' <=> d \in muddled
  BY <1>1 DEF TypeInv, FilesOK, GhostsOK
<1>9. {ACLFile(e)} \in SUBSET Paths
  BY <1>3, PathsOK
<1>10. Grown(issued, issued')
  BY <1>1, SameGrown DEF TypeInv
<1>11. \A d \in Docs : d # e => ~Writing(p, d)
  BY <1>0 DEF Writing
<1>12. \A d \in Docs, q \in Procs \ {p} : Writing(q, d)' <=> Writing(q, d)
  BY <1>1, <1>9, OthersWrite DEF TypeInv
<1>13. \A d \in Docs : d # e => LeavesACL(d, {})
  BY <1>8, <1>11, <1>12 DEF LeavesACL
<1>14. \A d \in Docs : LeavesACL(d, {ACLFile(e)})
  BY <1>13 DEF LeavesACL
<1>15. \A q \in Procs \ {p} : OutOf(q)'
  BY <1>1, <1>9, <1>10, <1>14, OthersOut
<1>16. OutOf(p)'
  BY <1>1 DEF OutOf, Decided, Step
<1>17. \A d \in Docs : d # e => ACLOf(d)'
  BY <1>8, <1>10, <1>13, ACLFrame DEF ACLInv
<1>18. ACLOf(e)'
  <2>. SUFFICES ASSUME e \notin muddled', \A q \in Procs : ~Writing(q, e)'
                PROVE  Names(acl'[e], named'[e], issued')
    BY DEF ACLOf
  <2>1. ACLFile(e) \notin cmd[p].touched /\ (cmd[p].op # "set" => e \notin muddled)
    BY <1>1
  <2>2. \A q \in Procs \ {p} : ~Writing(q, e)
    BY <1>3, <1>12
  <2>3. Names(cmd[p].out, Meant(cmd[p]), issued)
    BY <1>5, <1>6, <2>1, <2>2
  <2>4. acl'[e] = cmd[p].out /\ named'[e] = Meant(cmd[p]) /\ issued' = issued
    BY <1>1, <1>3, <1>7
  <2>. QED
    BY <2>3, <2>4
<1>. QED
  BY <1>15, <1>16, <1>17, <1>18 DEF ACLInv

\* The commands that do not change ACLs, and those that end early.
LEMMA OtherNames ==
  ASSUME TypeInv, TypeInv', ACLInv, Grown(issued, issued'), NEW p \in Procs,
         \/ \E r \in Requests : Start(p, r)
         \/ SaveKeyring(p) \/ Forge(p) \/ Forged(p) \/ Unlock(p)
         \/ LockOpen(p) \/ LockSeal(p) \/ LockSpills(p) \/ LockDone(p) \/ CommandFails(p)
  PROVE  ACLInv'
<1>. DEFINE Apart(c, fs) ==
       /\ fs \in SUBSET Paths /\ Step(p, c, fs) /\ ~Decided(c) /\ UNCHANGED <<acl, named>>
       /\ muddled \subseteq muddled' /\ \A d \in Docs : Writing(p, d) => d \in muddled'
<1>0. {} \in SUBSET Paths /\ ~Decided(NoCmd)
  BY DEF Decided
<1>1. ASSUME NEW r \in Requests, Start(p, r) PROVE \E c, fs : Apart(c, fs)
  <2>. DEFINE docs == IF r[1] = "lock" THEN WithACL ELSE {}
              c == StartOf(r, docs)
  <2>1. /\ Step(p, c, {}) /\ UNCHANGED <<acl, named, muddled>> /\ cmd[p] = NoCmd
    BY <1>1 DEF Start, StartOf, files, Ghosts
  <2>2. c.at = FirstStage(r[1])
    BY DEF StartOf
  <2>. HIDE DEF c
  <2>3. ~Decided(c)
    BY <2>2, RequestOK, FirstStageOK DEF TypeInv, Decided
  <2>. QED
    BY <1>0, <2>1, <2>3 DEF Writing, At
<1>2. ASSUME SaveKeyring(p) PROVE \E c, fs : Apart(c, fs)
  <2>1. Step(p, NoCmd, {}) /\ UNCHANGED <<acl, named, muddled>> /\ cmd[p].doc = NoFile
    BY <1>2 DEF SaveKeyring, Ghosts
  <2>2. \A d \in Docs : ~Writing(p, d)
    BY <2>1, VaultAssumption DEF Writing
  <2>. QED
    BY <1>0, <2>1, <2>2
<1>3. ASSUME Forge(p) \/ Forged(p) \/ Unlock(p) PROVE \E c, fs : Apart(c, fs)
  <2>1. cmd[p] # NoCmd /\ cmd[p].at \in {"forge", "forged", "config", "attributes"}
    BY <1>3 DEF Forge, Forged, Unlock, At, Hooks
  <2>2. cmd[p].op \in {"self_init", "unlock"} /\ cmd[p] \in Cmds
    BY <2>1, ActiveShape DEF TypeInv, Shaped, StagesOf, Cmds, Ops
  <2>3. \E c : Step(p, c, {}) /\ (c = NoCmd \/ c.op \in {"self_init", "unlock"})
    <3>1. CASE Forge(p)
      <4>. DEFINE c == [cmd[p] EXCEPT !.at = "forged"]
      <4>1. Step(p, c, {})
        BY <3>1 DEF Forge, Go
      <4>2. c.op = cmd[p].op
        BY <2>2 DEF Cmds
      <4>. HIDE DEF c
      <4>. QED
        BY <2>2, <4>1, <4>2
    <3>2. CASE Forged(p)
      BY <3>2, ForgedMoves
    <3>3. CASE Unlock(p)
      <4>. DEFINE c == [cmd[p] EXCEPT !.at = "attributes"]
      <4>1. Step(p, c, {}) \/ Step(p, NoCmd, {})
        BY <3>3 DEF Unlock
      <4>2. c.op = cmd[p].op
        BY <2>2 DEF Cmds
      <4>. HIDE DEF c
      <4>. QED
        BY <2>2, <4>1, <4>2
    <3>. QED
      BY <1>3, <3>1, <3>2, <3>3
  <2>4. PICK c : Step(p, c, {}) /\ (c = NoCmd \/ c.op \in {"self_init", "unlock"})
    BY <2>3
  <2>5. ~Decided(c)
    BY <2>4 DEF Decided
  <2>6. UNCHANGED <<acl, named, muddled>> /\ \A d \in Docs : ~Writing(p, d)
    BY <1>3, <2>1 DEF Forge, Forged, Unlock, Ghosts, Writing, At
  <2>. QED
    BY <1>0, <2>4, <2>5, <2>6
<1>4. ASSUME LockOpen(p) PROVE \E c, fs : Apart(c, fs)
  <2>1. PICK d, c : /\ d \in Docs /\ cmd[p].at = "open" /\ c.op = "lock"
                    /\ Step(p, c, {}) \/ Step(p, c, {File(d)})
    BY <1>4, OpenMoves
  <2>2. UNCHANGED <<acl, named, muddled>> /\ \A e \in Docs : ~Writing(p, e)
    BY <1>4, <2>1 DEF LockOpen, Ghosts, Writing, At
  <2>3. ~Decided(c) /\ {File(d)} \in SUBSET Paths
    BY <2>1, PathsOK DEF Decided
  <2>. QED
    BY <1>0, <2>1, <2>2, <2>3
<1>5. ASSUME LockSeal(p) PROVE \E c, fs : Apart(c, fs)
  <2>1. PICK c, b : /\ cmd[p].doc \in Docs /\ cmd[p].at = "seal" /\ c.op = "lock"
                    /\ Step(p, c, {File(cmd[p].doc)})
    BY <1>5, SealMoves
  <2>2. UNCHANGED <<acl, named, muddled>> /\ \A e \in Docs : ~Writing(p, e)
    BY <1>5, <2>1 DEF LockSeal, Writing, At
  <2>3. ~Decided(c) /\ {File(cmd[p].doc)} \in SUBSET Paths
    BY <2>1, PathsOK DEF Decided
  <2>. QED
    BY <2>1, <2>2, <2>3
<1>6. ASSUME LockSpills(p) \/ LockDone(p) PROVE \E c, fs : Apart(c, fs)
  <2>1. Step(p, NoCmd, {}) /\ UNCHANGED <<acl, named, muddled>> /\ \A e \in Docs : ~Writing(p, e)
    BY <1>6 DEF LockSpills, LockDone, Internal, files, Ghosts, Writing, At
  <2>. QED
    BY <1>0, <2>1
<1>7. ASSUME CommandFails(p) PROVE \E c, fs : Apart(c, fs)
  <2>1. /\ Step(p, NoCmd, {}) /\ UNCHANGED <<acl, named>> /\ muddled \subseteq muddled'
        /\ \A d \in Docs : Writing(p, d) => d \in muddled'
    BY <1>7, VaultAssumption DEF CommandFails, files, Writing, At
  <2>. QED
    BY <1>0, <2>1
<1>8. \E c, fs : Apart(c, fs)
  <2>. HIDE DEF Apart
  <2>. QED
    BY <1>1, <1>2, <1>3, <1>4, <1>5, <1>6, <1>7
<1>9. PICK c, fs : Apart(c, fs)
  BY <1>8
<1>10. OutOf(p)'
  BY <1>9 DEF Step, OutOf, Decided
<1>. QED
  BY <1>9, <1>10, ACLApart

\* Editors and git leave the ACLs alone.
LEMMA NamesFrame ==
  ASSUME TypeInv, TypeInv', ACLInv, Grown(issued, issued'), UNCHANGED <<acl, named, muddled>>,
         UNCHANGED cmd \/ \E d \in Docs : Touch({File(d)})
  PROVE  ACLInv'
<1>1. PICK fs \in SUBSET Paths : UNCHANGED cmd \/ Touch(fs)
  <2>1. {} \in SUBSET Paths
    OBVIOUS
  <2>. QED
    BY <2>1, PathsOK
<1>2. ASSUME NEW q \in Procs
      PROVE  \/ cmd[q] = NoCmd /\ cmd'[q] = NoCmd
             \/ cmd[q] # NoCmd /\ (IsTold(cmd[q], cmd'[q], fs) \/ IsTold(cmd[q], cmd'[q], {}))
  <2>1. CASE Touch(fs)
    BY <2>1, AllTold DEF TypeInv
  <2>2. CASE UNCHANGED cmd
    <3>1. cmd[q] # NoCmd => cmd[q] \in Cmds
      BY ActiveShape DEF TypeInv
    <3>. QED
      BY <2>2, <3>1 DEF IsTold
  <2>. QED
    BY <1>1, <2>1, <2>2
<1>3. \A q \in Procs, d \in Docs : Writing(q, d)' <=> Writing(q, d)
  BY <1>2 DEF Writing, At, IsTold
<1>4. \A d \in Docs : LeavesACL(d, {}) /\ LeavesACL(d, fs)
  BY <1>3 DEF LeavesACL
<1>5. \A d \in Docs : ACLOf(d)'
  BY <1>4, ACLFrame DEF ACLInv
<1>6. ASSUME NEW q \in Procs PROVE OutOf(q)'
  <2>1. {} \in SUBSET Paths /\ OutOf(q)
    BY DEF ACLInv
  <2>. QED
    BY <1>2, <1>4, <2>1, OutFrame
<1>. QED
  BY <1>5, <1>6 DEF ACLInv

\* Key pairs are generated and never taken back.
LEMMA KeysStay ==
  ASSUME TypeInv, [VaultNext]_vaultVars
  PROVE  Grown(issued, issued')
<1>1. CASE issued' = issued
  BY <1>1, SameGrown DEF TypeInv
<1>2. ASSUME NEW p \in Procs, Forged(p) PROVE Grown(issued, issued')
  BY <1>2, ForgedMoves
<1>3. ASSUME NEW q \in Persons, PeerRotates(q) PROVE Grown(issued, issued')
  <2>1. issued[q] < MaxGen /\ issued' = [issued EXCEPT ![q] = @ + 1]
    BY <1>3 DEF PeerRotates
  <2>. QED
    BY <2>1, IssueGrows DEF TypeInv
<1>4. ASSUME NEW p \in Procs, CommandStep(p), ~Forged(p) PROVE issued' = issued
  BY <1>4 DEF CommandStep, Load, ReadACL, Truncate, WriteACL, SaveKeyring, Forge, Unlock,
     LockOpen, LockSeal, LockSpills, LockDone, Internal, files
<1>5. ASSUME NEW p \in Procs, (\E r \in Requests : Start(p, r)) \/ CommandFails(p)
      PROVE  issued' = issued
  BY <1>5 DEF Start, CommandFails, files
<1>6. ASSUME \E d \in Docs : Add(d) \/ Checkout(d) \/ \E t \in Texts \cup {NoFile} : Edit(d, t)
      PROVE  issued' = issued
  BY <1>6 DEF Add, Checkout, Edit
<1>7. CASE UNCHANGED vaultVars
  BY <1>1, <1>7 DEF vaultVars, files
<1>. QED
  BY <1>1, <1>2, <1>3, <1>4, <1>5, <1>6, <1>7 DEF VaultNext

LEMMA NamesKeep ==
  ASSUME TypeInv, TypeInv', ACLInv, [VaultNext]_vaultVars
  PROVE  ACLInv'
<1>0. Grown(issued, issued')
  BY KeysStay
<1>1. ASSUME NEW p \in Procs, Load(p) \/ ReadACL(p) \/ Truncate(p) \/ WriteACL(p)
      PROVE  ACLInv'
  BY <1>1, LoadNames, ReadNames, TruncateNames, WriteNames
<1>2. ASSUME NEW p \in Procs,
             \/ \E r \in Requests : Start(p, r)
             \/ SaveKeyring(p) \/ Forge(p) \/ Forged(p) \/ Unlock(p)
             \/ LockOpen(p) \/ LockSeal(p) \/ LockSpills(p) \/ LockDone(p) \/ CommandFails(p)
      PROVE  ACLInv'
  BY <1>0, <1>2, OtherNames
<1>3. ASSUME NEW d \in Docs, Add(d) PROVE ACLInv'
  BY <1>0, <1>3, AddMoves, NamesFrame DEF Ghosts
<1>4. ASSUME NEW d \in Docs, Checkout(d) PROVE ACLInv'
  <2>1. UNCHANGED <<acl, named, muddled>> /\ Touch({File(d)})
    BY <1>4 DEF Checkout, Ghosts
  <2>. QED
    BY <1>0, <2>1, NamesFrame
<1>5. ASSUME NEW d \in Docs, NEW t \in Texts \cup {NoFile}, Edit(d, t) PROVE ACLInv'
  <2>1. UNCHANGED <<acl, named, muddled>> /\ Touch({File(d)})
    BY <1>5 DEF Edit
  <2>. QED
    BY <1>0, <2>1, NamesFrame
<1>6. ASSUME NEW q \in Persons, PeerRotates(q) PROVE ACLInv'
  BY <1>0, <1>6, NamesFrame DEF PeerRotates, Ghosts
<1>7. CASE UNCHANGED vaultVars
  BY <1>0, <1>7, NamesFrame DEF vaultVars, files
<1>. QED
  BY <1>1, <1>2, <1>3, <1>4, <1>5, <1>6, <1>7 DEF VaultNext, CommandStep

LEMMA NamesStart ==
  ASSUME VaultInit
  PROVE  ACLInv
<1>1. PICK readers \in [Docs -> SUBSET {q \in Persons : issued[q] > 0}] :
        /\ acl = [d \in Docs |-> IF readers[d] = {} THEN NoACL
                                 ELSE {<<q, 1>> : q \in readers[d]}]
        /\ named = readers
  BY DEF VaultInit
<1>2. \A d \in Docs : acl[d] = NoACL \/ Names(acl[d], named[d], issued)
  <2>. SUFFICES ASSUME NEW d \in Docs, acl[d] # NoACL
                PROVE  Names(acl[d], named[d], issued)
    OBVIOUS
  <2>1. acl[d] = {<<q, 1>> : q \in named[d]}
    BY <1>1
  <2>2. ASSUME NEW q PROVE (\E t \in acl[d] : t[1] = q) <=> q \in named[d]
    <3>1. q \in named[d] => <<q, 1>> \in acl[d] /\ <<q, 1>>[1] = q
      BY <2>1
    <3>2. \A t \in acl[d] : \E r \in named[d] : t = <<r, 1>>
      BY <2>1
    <3>3. \A t \in acl[d] : t[1] \in named[d]
      BY <3>2
    <3>. QED
      BY <3>1, <3>3
  <2>. QED
    BY <2>2 DEF Names
<1>3. \A p \in Procs : cmd[p] = NoCmd
  BY DEF VaultInit
<1>. QED
  BY <1>2, <1>3 DEF ACLInv, ACLOf, OutOf, Decided

\* The tokens of an ACL belong to the persons meant by the commands on it, whatever happens
\* to the keyring, as far as they generated one key pair only; ACLs on which commands
\* overlapped or were cut short are excepted until they are set again.
THEOREM ReadersAreThoseMeant ==
  VaultSpec => []ACLNamesReaders
<1>1. VaultInit => ACLInv
  BY NamesStart
<1>2. TypeInv /\ TypeInv' /\ ACLInv /\ [VaultNext]_vaultVars => ACLInv'
  BY NamesKeep
<1>3. ACLInv => ACLNamesReaders
  <2>. SUFFICES ASSUME ACLInv, NEW d \in Docs \ muddled, acl[d] # NoACL, ~Rewriting(d),
                       NEW q \in Persons, issued[q] <= 1
                PROVE  q \in {t[1] : t \in acl[d]} <=> q \in named[d]
    BY DEF ACLNamesReaders, AsMeant
  <2>1. \A p \in Procs : ~Writing(p, d)
    BY DEF Rewriting, Writing
  <2>2. Names(acl[d], named[d], issued)
    BY <2>1 DEF ACLInv, ACLOf
  <2>. QED
    BY <2>2 DEF Names
<1>. QED
  BY <1>1, <1>2, <1>3, VaultTyped, PTL DEF VaultSpec

\* What git takes of a document with an ACL, through the filter, is an envelope; one
\* encrypted there and then opens with the keys of the persons meant and of nobody else.
LEMMA AddTakesEnvelope ==
  ASSUME TypeInv, ACLInv, NEW d \in Docs, Add(d), Active, acl[d] # NoACL
  PROVE  /\ IsEnvelope(repo'[d])
         /\ (~IsEnvelope(work[d]) /\ d \notin muddled /\ ~Rewriting(d)) =>
              /\ AsMeant(d, {k[1] : k \in repo'[d].keys})
              /\ \A q \in named[d] : issued[q] = 1 => <<q, 1>> \in repo'[d].keys
<1>1. /\ work[d] \in Contents \ {NoFile} /\ ~CleanFails(d, work[d])
      /\ repo'[d] = Clean(d, work[d])
  BY AddMoves DEF TypeInv, FilesOK
<1>2. /\ repo'[d] \in Contents \ {NoFile} /\ IsEnvelope(repo'[d])
      /\ ~IsEnvelope(work[d]) =>
           /\ \A k \in repo'[d].keys : \E t \in acl[d] : t[1] = k[1] /\ k[2] <= issued[k[1]]
           /\ \A t \in acl[d] : \E k \in repo'[d].keys : t[1] = k[1] /\ k[2] <= issued[k[1]]
  BY <1>1, CleanOK DEF TypeInv
<1>3. ASSUME ~IsEnvelope(work[d]), d \notin muddled, ~Rewriting(d)
      PROVE  /\ AsMeant(d, {k[1] : k \in repo'[d].keys})
             /\ \A q \in named[d] : issued[q] = 1 => <<q, 1>> \in repo'[d].keys
  <2>1. \A p \in Procs : ~Writing(p, d)
    BY <1>3 DEF Rewriting, Writing
  <2>2. Names(acl[d], named[d], issued)
    BY <1>3, <2>1 DEF ACLInv, ACLOf
  <2>3. repo'[d].keys \in SUBSET Keys
    BY <1>2 DEF Contents
  <2>4. AsMeant(d, {k[1] : k \in repo'[d].keys})
    BY <1>2, <1>3, <2>2 DEF AsMeant, Names
  <2>5. ASSUME NEW q \in named[d], issued[q] = 1 PROVE <<q, 1>> \in repo'[d].keys
    <3>1. q \in Persons
      BY DEF TypeInv, GhostsOK
    <3>2. PICK t \in acl[d] : t[1] = q
      BY <2>2, <2>5, <3>1 DEF Names
    <3>3. PICK k \in repo'[d].keys : q = k[1] /\ k[2] <= issued[k[1]]
      BY <1>2, <1>3, <3>2
    <3>4. k \in Persons \X (1..MaxGen)
      BY <2>3 DEF Keys
    <3>5. k[2] = 1
      BY <2>5, <3>3, <3>4, VaultAssumption
    <3>. QED
      BY <3>3, <3>4, <3>5
  <2>. QED
    BY <2>4, <2>5
<1>. QED
  BY <1>2, <1>3

THEOREM GitGetsEnvelopes ==
  VaultSpec => GitTakesEnvelopes
<1>1. VaultInit => ACLInv
  BY NamesStart
<1>2. TypeInv /\ TypeInv' /\ ACLInv /\ [VaultNext]_vaultVars => ACLInv'
  BY NamesKeep
<1>. DEFINE Takes ==
       \A d \in Docs : (Add(d) /\ Active /\ acl[d] # NoACL) =>
         /\ IsEnvelope(repo'[d])
         /\ (~IsEnvelope(work[d]) /\ d \notin muddled /\ ~Rewriting(d)) =>
              /\ AsMeant(d, {k[1] : k \in repo'[d].keys})
              /\ \A q \in named[d] : issued[q] = 1 => <<q, 1>> \in repo'[d].keys
<1>3. TypeInv /\ ACLInv => Takes
  BY AddTakesEnvelope
<1>4. TypeInv /\ ACLInv /\ [VaultNext]_vaultVars => [Takes]_vaultVars
  BY <1>3
<1>. QED
  BY <1>1, <1>2, <1>4, VaultTyped, PTL DEF VaultSpec, GitTakesEnvelopes

=============================================================================
