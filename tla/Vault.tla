--------------------------------- MODULE Vault ---------------------------------
(***************************************************************************)
(* Per-document encryption (pkg/sbdb/acl, cmd/acl.go, keys.go, lock.go,     *)
(* filter.go) in one clone: the ACL files, which hold tokens; the keyring,  *)
(* which maps nicknames to tokens and tokens to public keys; the private    *)
(* key; the git filter; and lock, which encrypts the working tree in place. *)
(* Every file is rewritten without a lock, truncated first (os.WriteFile).  *)
(*                                                                          *)
(* An encrypted text is the text with the keys that open it; the plain text *)
(* is the text with no key.  Git itself is external: only what it asks of   *)
(* the filter is modelled.                                                  *)
(***************************************************************************)
EXTENDS Naturals, SequencesExt

CONSTANTS
  Docs,        \* documents under docs/
  Persons,     \* nicknames, this clone's owner among them
  Me,          \* the owner of this clone
  Texts,       \* what a document can say
  Blank,       \* the empty document
  NoFile, NoACL,
  Procs,       \* processes running commands
  MaxGen,      \* bound: key pairs a person generates
  MaxActs,     \* bound: commands, edits, git operations and rotations
  MaxFaults    \* bound: commands that fail or are killed

ASSUME VaultAssumption ==
  /\ Me \in Persons /\ Blank \in Texts
  /\ {NoFile, NoACL} \cap Docs = {}
  /\ NoFile \notin [text : Texts, keys : SUBSET (Persons \X (1..MaxGen))]
  /\ \A ts \in SUBSET (Persons \X (1..MaxGen)) : ts # NoACL
  /\ IsFiniteSet(Persons)
  /\ MaxGen \in Nat \ {0} /\ MaxActs \in Nat /\ MaxFaults \in Nat

VARIABLES
  work,      \* work[d]: the file in the working tree
  repo,      \* repo[d]: the blob git last took
  acl,       \* acl[d]: the tokens in docs/.sbdb/acl/<d>.yaml
  ring,      \* .sbdb/local-keys/recipients.yaml, in order
  mykey,     \* .sbdb/local-keys/private.asc
  filter,    \* where git knows of the filter
  issued,    \* issued[q]: how many key pairs q has generated
  cmd,       \* cmd[p]: the command p is in the middle of
  latest,    \* history: latest[d]: the text last written by an editor
  named,     \* history: named[d]: the persons the acl commands on d amount to
  spilled,   \* history: documents a lock emptied and could not fill again
  muddled,   \* history: documents whose ACL two commands rewrote at once, or one half
  acts, faults   \* counters, for the bounds

files == <<work, repo, acl, ring, mykey, filter, issued>>
vaultVars == <<files, cmd, latest, named, spilled, muddled, acts, faults>>

\* Generation n of q's keys comes with the key <<q, n>> and the token <<q, n>>.
\* A peer who generates a second pair in the same clone exports the new key under
\* the first token (ByNickname finds the first entry).
Keys    == Persons \X (1..MaxGen)
Tokens  == Keys
Entries == [token : Tokens, key : Keys]
Issued(q) == {[token |-> <<q, t>>, key |-> <<q, k>>] : t, k \in 1..issued[q]}
Bundles(q) == {e \in Issued(q) : e.token[2] \in {1, e.key[2]}}

Contents == [text : Texts, keys : SUBSET Keys] \cup {NoFile}
Plain(t) == [text |-> t, keys |-> {}]
IsEnvelope(b) == b # NoFile /\ b.keys # {}

\* The files a command can change under another.
File(d) == <<"file", d>>
ACLFile(d) == <<"acl", d>>

NoKey == <<>>
Torn  == <<"torn">>
Hooks == {"config", "attributes"}    \* .git/config and .gitattributes
Active == filter = Hooks

Ops == {"set", "add", "rm", "import", "self_init", "lock", "unlock"}
Stages == {"load", "read", "truncate", "write", "forge", "forged", "open", "seal",
           "config", "attributes"}

\* A command: ring is the keyring it loaded, out the tokens it will write, entry
\* the keyring entry it adds, text what lock read, todo the files lock has still
\* to visit.  History: docs are the files lock set out to visit, touched the files
\* others changed while it ran.
NoCmd == [op |-> "none"]

-----------------------------------------------------------------------------

At(p, stage) == cmd[p] # NoCmd /\ cmd[p].at = stage
Step(p, c, fs) ==
  cmd' = [q \in Procs |-> IF q = p THEN c
                          ELSE IF cmd[q] = NoCmd THEN NoCmd
                          ELSE [cmd[q] EXCEPT !.touched = @ \cup fs]]
Touch(fs) == cmd' = [q \in Procs |-> IF cmd[q] = NoCmd THEN NoCmd
                                     ELSE [cmd[q] EXCEPT !.touched = @ \cup fs]]
Go(p, stage, fs) == Step(p, [cmd[p] EXCEPT !.at = stage], fs)
Act == acts < MaxActs /\ acts' = acts + 1

Ghosts == <<latest, named, spilled, muddled>>

\* Keyring.ByNickname and ByToken: the first entry that fits.
ByNickname(r, q) == SelectInSeq(r, LAMBDA e : e.token[1] = q)
ByToken(r, t) == SelectInSeq(r, LAMBDA e : e.token = t)

\* Keyring.ResolveTokens: an error if some name is unknown.
Resolves(r, qs) == \A q \in qs : ByNickname(r, q) # 0
TokensOf(r, qs) == {r[ByNickname(r, q)].token : q \in qs}

\* Mutation of CleanFails: no reader is no error.
CleanFailsUnknown(d, b) ==
  ~IsEnvelope(b) /\ acl[d] # NoACL /\ \E t \in acl[d] : ByToken(ring, t) = 0

\* FilterClean: an envelope and a document without ACL pass as they are; no
\* reader or an unknown one is an error.
CleanFails(d, b) ==
  /\ ~IsEnvelope(b) /\ acl[d] # NoACL
  /\ acl[d] = {} \/ \E t \in acl[d] : ByToken(ring, t) = 0
Clean(d, b) ==
  IF IsEnvelope(b) \/ acl[d] = NoACL THEN b
  ELSE [text |-> b.text, keys |-> {ring[ByToken(ring, t)].key : t \in acl[d]}]

\* FilterSmudge: without a matching key the envelope passes as it is.
Smudge(b) == IF IsEnvelope(b) /\ mykey \in b.keys THEN Plain(b.text) ELSE b

\* A clone fresh from git, or after keys self-init and import.  Documents come out
\* of git; their ACL files are committed, with the tokens of some of the first
\* generation.
Established == SetToSeq({[token |-> <<q, 1>>, key |-> <<q, 1>>] : q \in Persons})
VaultInit ==
  /\ issued \in [Persons -> 0..MaxGen] /\ \A q \in Persons \ {Me} : issued[q] > 0
  /\ \/ ring = <<>> /\ mykey = NoKey /\ issued[Me] = 0
     \/ ring = Established /\ mykey = <<Me, 1>> /\ issued[Me] = 1
  /\ filter \in {{}, {"attributes"}, Hooks}
  /\ latest \in [Docs -> Texts \ {Blank}]
  /\ \E readers \in [Docs -> SUBSET {q \in Persons : issued[q] > 0}] :
       LET tokens(d) == {<<q, 1>> : q \in readers[d]} IN
       /\ acl = [d \in Docs |-> IF readers[d] = {} THEN NoACL ELSE tokens(d)]
       /\ repo = [d \in Docs |-> [text |-> latest[d], keys |-> tokens(d)]]
       /\ named = readers
  /\ work = [d \in Docs |-> IF Active THEN Smudge(repo[d]) ELSE repo[d]]
  /\ cmd = [p \in Procs |-> NoCmd]
  /\ spilled = {} /\ muddled = {} /\ acts = 0 /\ faults = 0

-----------------------------------------------------------------------------
\* Commands.

Requests == ({"set"} \X Docs \X (SUBSET Persons) \X {NoFile})
            \cup ({"add", "rm"} \X Docs \X (SUBSET Persons \ {{}}) \X {NoFile})
            \cup ({"import"} \X {NoFile} \X {{}}
                    \X UNION {Bundles(q) : q \in Persons \ {Me}})
            \cup ({"self_init", "lock", "unlock"} \X {NoFile} \X {{}} \X {NoFile})

FirstStage(op) == CASE op = "self_init" -> "forge" [] op = "lock" -> "open"
                    [] op = "unlock" -> "config"   [] OTHER -> "load"

\* The order in which walkACLs comes to the documents.
NextOf(ds) == CHOOSE d \in ds : TRUE
WithACL == {d \in Docs : acl[d] # NoACL}

\* Without an ACL lock has nothing to do.
Start(p, r) ==
  /\ cmd[p] = NoCmd /\ Act
  /\ r[1] = "self_init" => issued[Me] < MaxGen
  /\ r[1] = "lock" => WithACL # {}
  /\ LET docs == IF r[1] = "lock" THEN WithACL ELSE {} IN
     Step(p, [op |-> r[1], doc |-> r[2], nicks |-> r[3], entry |-> r[4],
              at |-> FirstStage(r[1]), ring |-> <<>>, out |-> {}, text |-> Blank,
              todo |-> docs, docs |-> docs, touched |-> {}], {})
  /\ UNCHANGED <<files, Ghosts, faults>>

Internal == UNCHANGED <<files, Ghosts, acts, faults>>

\* LoadKeyring; acl set resolves its nicknames next, a key command appends.
Load(p) ==
  LET c == cmd[p] IN
  /\ At(p, "load")
  /\ \/ /\ c.op = "set" /\ Resolves(ring, c.nicks)
        /\ Step(p, [c EXCEPT !.out = TokensOf(ring, c.nicks), !.at = "truncate"], {})
     \/ /\ c.op = "set" /\ ~Resolves(ring, c.nicks)
        /\ Step(p, NoCmd, {})
     \/ /\ c.op \in {"add", "rm"}
        /\ Step(p, [c EXCEPT !.ring = ring, !.at = "read"], {})
     \/ /\ c.op \in {"import", "self_init"}
        /\ Step(p, [c EXCEPT !.ring = Append(ring, c.entry), !.at = "truncate"], {})
  /\ Internal

\* Mutation of Changed: acl rm drops one reader too few when it drops several.
ChangedShort(c, readers, toks) ==
  IF c.op = "add" THEN readers \cup toks
  ELSE readers \ (IF Cardinality(toks) > 1 THEN {CHOOSE t \in toks : TRUE} ELSE toks)

\* What acl add and acl rm make of the readers there are.
Changed(c, readers, toks) ==
  IF c.op = "add" THEN readers \cup toks ELSE readers \ toks

\* mutateACL reads the ACL file, which must exist, then resolves.
ReadACL(p) ==
  LET c == cmd[p] IN
  /\ At(p, "read")
  /\ IF acl[c.doc] # NoACL /\ Resolves(c.ring, c.nicks)
       THEN Step(p, [c EXCEPT !.out = Changed(c, acl[c.doc], TokensOf(c.ring, c.nicks)),
                              !.ring = <<>>, !.at = "truncate"], {})
       ELSE Step(p, NoCmd, {})
  /\ Internal

\* WriteACL and Keyring.Save: an empty file, which reads as one without readers
\* or recipients...
Truncate(p) ==
  LET c == cmd[p] IN
  /\ At(p, "truncate")
  /\ IF c.doc # NoFile
       THEN /\ acl' = [acl EXCEPT ![c.doc] = {}]
            /\ ring' = ring
            /\ Go(p, "write", {ACLFile(c.doc)})
       ELSE /\ ring' = <<>>
            /\ acl' = acl
            /\ Go(p, "write", {})
  /\ UNCHANGED <<work, repo, mykey, filter, issued, Ghosts, acts, faults>>

\* The persons an ACL command on top of the ones before it amounts to.
Meant(c) == CASE c.op = "set" -> c.nicks
              [] c.op = "add" -> named[c.doc] \cup c.nicks
              [] c.op = "rm"  -> named[c.doc] \ c.nicks

\* ... then the content.
WriteACL(p) ==
  LET c == cmd[p] IN
  /\ At(p, "write") /\ c.doc # NoFile
  /\ acl' = [acl EXCEPT ![c.doc] = c.out]
  /\ named' = [named EXCEPT ![c.doc] = Meant(c)]
  /\ muddled' = IF ACLFile(c.doc) \in c.touched THEN muddled \cup {c.doc}
                ELSE IF c.op = "set" THEN muddled \ {c.doc} ELSE muddled
  /\ Step(p, NoCmd, {ACLFile(c.doc)})
  /\ UNCHANGED <<work, repo, ring, mykey, filter, issued, latest, spilled, acts, faults>>

SaveKeyring(p) ==
  LET c == cmd[p] IN
  /\ At(p, "write") /\ c.doc = NoFile
  /\ ring' = c.ring
  /\ Step(p, NoCmd, {})
  /\ UNCHANGED <<work, repo, acl, mykey, filter, issued, Ghosts, acts, faults>>

\* keys self-init: the private key file is truncated and written, whatever key
\* was there, before the keyring is read.
Forge(p) ==
  /\ At(p, "forge")
  /\ mykey' = Torn
  /\ Go(p, "forged", {})
  /\ UNCHANGED <<work, repo, acl, ring, filter, issued, Ghosts, acts, faults>>
Forged(p) ==
  LET key == <<Me, issued[Me] + 1>> IN
  /\ At(p, "forged") /\ issued[Me] < MaxGen
  /\ mykey' = key
  /\ issued' = [issued EXCEPT ![Me] = @ + 1]
  /\ Step(p, [cmd[p] EXCEPT !.at = "load", !.entry = [token |-> key, key |-> key]], {})
  /\ UNCHANGED <<work, repo, acl, ring, filter, Ghosts, acts, faults>>

\* unlock writes the two files git reads, and nothing else.
Unlock(p) ==
  LET c == cmd[p] IN
  /\ c # NoCmd /\ c.at \in Hooks
  /\ filter' = filter \cup {c.at}
  /\ Step(p, IF c.at = "config" THEN [c EXCEPT !.at = "attributes"] ELSE NoCmd, {})
  /\ UNCHANGED <<work, repo, acl, ring, mykey, issued, Ghosts, acts, faults>>

\* Mutation of LockOpen's text: what is read after the file was truncated.
TextReadLate(b) == Blank

\* What lock reads of a document.
TextRead(b) == b.text

\* The documents that others wrote, or gave another ACL, under c.
Altered(c) == {d \in Docs : {File(d), ACLFile(d)} \cap c.touched # {}}

\* lock comes to a document: a missing one or an envelope is passed over,
\* another one is read and truncated (os.Create).
LockOpen(p) ==
  LET c == cmd[p]
      d == NextOf(c.todo)
      b == work[d] IN
  /\ At(p, "open") /\ c.todo # {}
  /\ IF b = NoFile \/ IsEnvelope(b)
       THEN Step(p, [c EXCEPT !.todo = @ \ {d}], {}) /\ work' = work
       ELSE /\ work' = [work EXCEPT ![d] = Plain(Blank)]
            /\ Step(p, [c EXCEPT !.todo = @ \ {d}, !.text = TextRead(b),
                                 !.docs = @ \ Altered(c), !.touched = {},
                                 !.doc = d, !.at = "seal"], {File(d)})
  /\ UNCHANGED <<repo, acl, ring, mykey, filter, issued, Ghosts, acts, faults>>

\* ... and FilterClean fills it again.  Had another command or an editor replaced
\* the file, either one's bytes may stay.
LockSeal(p) ==
  LET c == cmd[p]
      b == Clean(c.doc, Plain(c.text)) IN
  /\ At(p, "seal") /\ ~CleanFails(c.doc, Plain(c.text))
  /\ work' \in {[work EXCEPT ![c.doc] = b]}
                 \cup IF File(c.doc) \in c.touched THEN {work} ELSE {}
  /\ spilled' = IF File(c.doc) \in c.touched THEN spilled \cup {c.doc} ELSE spilled
  /\ Step(p, [c EXCEPT !.doc = NoFile, !.at = "open"], {File(c.doc)})
  /\ UNCHANGED <<repo, acl, ring, mykey, filter, issued, latest, named, muddled,
                 acts, faults>>

\* Mutation of LockSpills: lock goes on with the next document.
LockSpillsOn(p) ==
  LET c == cmd[p] IN
  /\ At(p, "seal") /\ CleanFails(c.doc, Plain(c.text))
  /\ spilled' = spilled \cup {c.doc}
  /\ Step(p, [c EXCEPT !.doc = NoFile, !.at = "open"], {})
  /\ UNCHANGED <<files, latest, named, muddled, acts, faults>>

\* An error: lock stops there and leaves the document empty.
LockSpills(p) ==
  LET c == cmd[p] IN
  /\ At(p, "seal") /\ CleanFails(c.doc, Plain(c.text))
  /\ spilled' = spilled \cup {c.doc}
  /\ Step(p, NoCmd, {})
  /\ UNCHANGED <<files, latest, named, muddled, acts, faults>>

LockDone(p) == At(p, "open") /\ cmd[p].todo = {} /\ Step(p, NoCmd, {}) /\ Internal

\* A write fails or the process is killed.
CommandFails(p) ==
  LET c == cmd[p] IN
  /\ c # NoCmd /\ faults < MaxFaults
  /\ faults' = faults + 1
  /\ spilled' = IF c.at = "seal" THEN spilled \cup {c.doc} ELSE spilled
  /\ muddled' = IF c.at = "write" /\ c.doc # NoFile THEN muddled \cup {c.doc} ELSE muddled
  /\ Step(p, NoCmd, {})
  /\ UNCHANGED <<files, latest, named, acts>>

-----------------------------------------------------------------------------
\* Editors, git and the other clones.

\* An editor writes, replaces or removes the document, whatever it held.
Edit(d, t) ==
  /\ Act
  /\ latest' = [latest EXCEPT ![d] = t]
  /\ work' = [work EXCEPT ![d] = IF t = NoFile THEN NoFile ELSE Plain(t)]
  /\ spilled' = spilled \ {d}
  /\ Touch({File(d)})
  /\ UNCHANGED <<repo, acl, ring, mykey, filter, issued, named, muddled, faults>>

\* git add: an error of the filter, which is "required", stops it.
Add(d) ==
  /\ Act /\ work[d] # NoFile
  /\ ~(Active /\ CleanFails(d, work[d]))
  /\ repo' = [repo EXCEPT ![d] = IF Active THEN Clean(d, work[d]) ELSE work[d]]
  /\ UNCHANGED <<work, acl, ring, mykey, filter, issued, cmd, Ghosts, faults>>

\* git checkout of a document whose text git has; a torn private key stops it.
Checkout(d) ==
  /\ Act /\ repo[d].text = latest[d] /\ (Active => mykey # Torn)
  /\ work' = [work EXCEPT ![d] = IF Active THEN Smudge(repo[d]) ELSE repo[d]]
  /\ Touch({File(d)})
  /\ UNCHANGED <<repo, acl, ring, mykey, filter, issued, Ghosts, faults>>

\* Someone else generates a new key pair and sends a new bundle.
PeerRotates(q) ==
  /\ Act /\ issued[q] < MaxGen
  /\ issued' = [issued EXCEPT ![q] = @ + 1]
  /\ UNCHANGED <<work, repo, acl, ring, mykey, filter, cmd, Ghosts, faults>>

CommandStep(p) ==
  \/ Load(p) \/ ReadACL(p) \/ Truncate(p) \/ WriteACL(p) \/ SaveKeyring(p)
  \/ Forge(p) \/ Forged(p) \/ Unlock(p)
  \/ LockOpen(p) \/ LockSeal(p) \/ LockSpills(p) \/ LockDone(p)

VaultNext ==
  \/ \E p \in Procs : (\E r \in Requests : Start(p, r)) \/ CommandStep(p) \/ CommandFails(p)
  \/ \E d \in Docs : Add(d) \/ Checkout(d) \/ \E t \in Texts \cup {NoFile} : Edit(d, t)
  \/ \E q \in Persons \ {Me} : PeerRotates(q)

VaultSpec == VaultInit /\ [][VaultNext]_vaultVars

-----------------------------------------------------------------------------

\* Every variable holds what the code can put there.
VaultTypeOK ==
  /\ work \in [Docs -> Contents] /\ repo \in [Docs -> Contents]
  /\ acl \in [Docs -> (SUBSET Tokens) \cup {NoACL}]
  /\ ring \in Seq(Entries)
  /\ mykey \in Keys \cup {NoKey, Torn}
  /\ filter \subseteq Hooks
  /\ issued \in [Persons -> 0..MaxGen]
  /\ \A p \in Procs : cmd[p] = NoCmd \/ (cmd[p].op \in Ops /\ cmd[p].at \in Stages)
  /\ latest \in [Docs -> Texts \cup {NoFile}] /\ named \in [Docs -> SUBSET Persons]
  /\ spilled \subseteq Docs /\ muddled \subseteq Docs
  /\ acts \in 0..MaxActs /\ faults \in 0..MaxFaults

\* lock has emptied d and not yet filled it again.
Locking(d) == \E p \in Procs : At(p, "seal") /\ cmd[p].doc = d

\* What an editor last wrote is never lost to encryption: plain or as an envelope
\* it is in the working tree, except where a lock failed, was killed, or ran beside
\* another writer of that document.
TextSurvives ==
  \A d \in Docs \ spilled :
    Locking(d) \/ latest[d] = NoFile \/ (work[d] # NoFile /\ work[d].text = latest[d])

\* A command has emptied d's ACL and not yet filled it again.
Rewriting(d) == \E p \in Procs : At(p, "write") /\ cmd[p].doc = d

\* persons are those meant by the ACL commands on d, taken in order, as far as
\* each generated one key pair only (acl rm resolves the nickname to the first
\* token imported, which need not be the one in the ACL).
AsMeant(d, persons) == \A q \in Persons : issued[q] <= 1 => (q \in persons <=> q \in named[d])

\* The tokens of an ACL belong to the persons meant, whatever happens to the
\* keyring; ACLs on which commands overlapped or were cut short are excepted until
\* they are set again.
ACLNamesReaders ==
  \A d \in Docs \ muddled :
    (acl[d] # NoACL /\ ~Rewriting(d)) => AsMeant(d, {t[1] : t \in acl[d]})

\* A document with an ACL goes into git, through the filter, as an envelope, and
\* one encrypted there and then opens with the keys of the persons meant and of
\* nobody else.
GitTakesEnvelopes ==
  [][\A d \in Docs : (Add(d) /\ Active /\ acl[d] # NoACL) =>
       /\ IsEnvelope(repo'[d])
       /\ (~IsEnvelope(work[d]) /\ d \notin muddled /\ ~Rewriting(d)) =>
            /\ AsMeant(d, {k[1] : k \in repo'[d].keys})
            /\ \A q \in named[d] : issued[q] = 1 => <<q, 1>> \in repo'[d].keys
    ]_vaultVars

\* When lock has ended without error no document that had an ACL when it began
\* is left in plain text, unless someone wrote it, or its ACL, meanwhile.
LockScrubs ==
  [][\A p \in Procs : LockDone(p) =>
       \A d \in cmd[p].docs \ Altered(cmd[p]) : work[d] = NoFile \/ IsEnvelope(work[d])
    ]_vaultVars
=============================================================================
