------------------------------ MODULE Integrity ------------------------------
(***************************************************************************)
(* The integrity sidecar of a document: what Document.Save, doctor fix,     *)
(* doctor sign and doctor heal write next to <id>.md, and what doctor check *)
(* concludes from the two files (pkg/sbdb/integrity/sidecar.go,             *)
(* cmd/doctor.go).                                                          *)
(*                                                                          *)
(* A document version is the set of edits it carries; SHA-256 is taken to   *)
(* be injective, so the three hashes of a sidecar are the version they were *)
(* computed from, plus one bit: did the hashed record include the schema's  *)
(* scalar virtual fields?                                                   *)
(*                                                                          *)
(* A locked document, or one checked out without the git filter, is an      *)
(* envelope: text that begins with the sentinel of pkg/sbdb/acl.  It parses *)
(* as markdown without frontmatter, so everything but doctor check takes it *)
(* for a document.                                                          *)
(***************************************************************************)
CONSTANTS
  Docs,            \* document ids of one entity
  Edits,           \* the changes callers make to a document
  Keys,            \* well-formed HMAC keys
  NoFile,          \* the file does not exist
  Garbled,         \* the file exists and does not parse as YAML
  NoKey,           \* LoadKey returns nil, nil
  BadKey,          \* LoadKey returns an error (the key is not valid hex)
  ScalarVirtuals,  \* does the schema declare a scalar virtual field?
  Envelopes        \* the envelopes there may be: well-formed ones, malformed ones

\* The texts ParseMarkdown accepts: ordinary ones, and those that begin with the
\* envelope sentinel, of which some are no well-formed envelopes.
Forms == {"plain"} \cup Envelopes
Versions == [edits : SUBSET Edits, form : Forms]
Fresh(e) == [edits |-> {e}, form |-> "plain"]

\* The document v with one more edit.  What Save renders begins with the
\* frontmatter, so an envelope that is updated is none any more.
With(v, e) == [edits |-> v.edits \cup {e}, form |-> "plain"]

\* A parseable sidecar; sig = NoKey is a sidecar with hmac: false.
Sidecars == [of : Versions, virt : BOOLEAN, sig : Keys \cup {NoKey}]

ASSUME VirtualsAssumption == ScalarVirtuals \in BOOLEAN
ASSUME EnvelopesAssumption == Envelopes \subseteq {"envelope", "malformed"}
ASSUME FilesAssumption ==
  /\ NoFile # Garbled
  /\ {NoFile, Garbled} \cap Versions = {}
  /\ {NoFile, Garbled} \cap Sidecars = {}
ASSUME KeysAssumption == NoKey # BadKey /\ {NoKey, BadKey} \cap Keys = {}

-----------------------------------------------------------------------------

\* The record Save and heal hash holds the scalar virtuals they evaluated;
\* the one check, fix and sign hash is built with no virtual data at all.
NewSidecar(v, withVirtuals, k) ==
  [of |-> v, virt |-> withVirtuals /\ ScalarVirtuals, sig |-> k]

\* doctor check, fix and heal drop the error of LoadKey and go on unsigned.
KeyOrNil(k) == IF k = BadKey THEN NoKey ELSE k

BadSig(s, k) == s.sig # NoKey /\ k # NoKey /\ s.sig # k

\* Sidecar.Verify against the record checkOneDoc builds (without virtuals).
Drifted(s, v, k) == s.of # v \/ s.virt \/ BadSig(s, k)
Verified(s, v, k) == IF Drifted(s, v, k) THEN "tamper" ELSE "clean"

Kinds == {"clean", "absent", "encrypted", "envelope-malformed", "missing-md",
          "missing-sidecar", "sidecar-parse-error", "md-parse-error", "tamper"}

\* acl.IsEnvelopePrefix, and the report on what has that prefix: checkOneDoc
\* makes it before it looks at the sidecar.
IsEnvelopePrefix(m) == m \notin {NoFile, Garbled} /\ m.form # "plain"
EnvelopeReport(m) == IF m.form = "envelope" THEN "encrypted" ELSE "envelope-malformed"

\* checkOneDoc: "clean" and "absent" are its nil reports.
Verdict(m, s, k) ==
  IF IsEnvelopePrefix(m) THEN EnvelopeReport(m)
  ELSE CASE m = NoFile /\ s = NoFile                  -> "absent"
         [] s = Garbled                               -> "sidecar-parse-error"
         [] m = NoFile /\ s \notin {NoFile, Garbled}  -> "missing-md"
         [] m # NoFile /\ s = NoFile                  -> "missing-sidecar"
         [] m = Garbled /\ s \notin {NoFile, Garbled} -> "md-parse-error"
         [] OTHER                                     -> Verified(s, m, k)

\* Both files are gone, or the sidecar was computed from this markdown.
Paired(m, s) ==
  \/ m = NoFile /\ s = NoFile
  \/ m \in Versions /\ s \in Sidecars /\ s.of = m
=============================================================================
