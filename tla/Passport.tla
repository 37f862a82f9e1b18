-------------------------------- MODULE Passport --------------------------------
(***************************************************************************)
(* Evidence passports (lib/email/evidence-passport.js): a finished email    *)
(* report is signed, its passport is stored next to it, exported with it,   *)
(* and later verified by whoever holds a copy (lib/routes/email/v2.js and   *)
(* the page assets/js/pages/verify-evidence.js).  Signing keys are rotated  *)
(* and trusted keys configured in between, reports are rebuilt from rows,   *)
(* and files get mixed up.  Digests are taken to be injective: the digest   *)
(* of an evidence bundle is the bundle.                                     *)
(***************************************************************************)
EXTENDS Naturals, FiniteSets

CONSTANTS
  Reports,       \* email scans with a report
  Evidence,      \* the evidence bundles there may be
  SigningKeys,   \* keys this deployment signs with, one after the other
  ForeignKeys,   \* keys of other deployments of the same code
  MaxFiles       \* bound: exported packages that are around

CONSTANTS NoPassport, NoVerdict

ASSUME PassportAssumption == SigningKeys \cap ForeignKeys = {} /\ MaxFiles \in Nat

VARIABLES
  signingKey,    \* the key in use
  configuredIds, \* VERITRUST_EVIDENCE_TRUSTED_KEY_IDS
  storedReport,  \* the saved response of each scan: the evidence with its passport
  passportRow,   \* email_evidence_passports of this deployment
  issued,        \* history: what was signed, by which key
  files,         \* exported packages that people hold
  verdict        \* the last verification: the package, what it said, whom it trusted

passportVars == <<signingKey, configuredIds, storedReport, passportRow, issued, files, verdict>>

PassportInit ==
  /\ signingKey \in SigningKeys
  /\ configuredIds = {}
  /\ storedReport = [s \in Reports |-> NoPassport]
  /\ passportRow = [s \in Reports |-> NoPassport]
  /\ issued = {} /\ files = {} /\ verdict = NoVerdict

\* createEvidencePassport, with the digest of the evidence in the signed payload; the
\* key id is the fingerprint of the public key.
PassportFor(s, evidence, key) ==
  LET payload == [report |-> s, evidence |-> evidence]
  IN [payload |-> payload, keyId |-> key, publicKey |-> key, signature |-> [of |-> payload, by |-> key]]
Package(passport, evidence) == [passport |-> passport, evidence |-> evidence]

\* trustedEvidenceKeyIds
TrustedIds == {signingKey} \cup configuredIds

-------------------------------------------------------------------------------

\* The end of analyzeEmail: signed, then stored twice; either may fail and is let pass.
IssuePassport(s, evidence) ==
  LET passport == PassportFor(s, evidence, signingKey) IN
  /\ \A i \in issued : i.payload.report # s
  /\ issued' = issued \cup {passport}
  /\ passportRow' \in {passportRow, [passportRow EXCEPT ![s] = passport]}
  /\ storedReport' \in {storedReport, [storedReport EXCEPT ![s] = Package(passport, evidence)]}
  /\ UNCHANGED <<signingKey, configuredIds, files, verdict>>

\* emailEvidenceReport and exportEvidence: the stored evidence, else a report rebuilt
\* from the rows, which carries the passport only if it is what was signed
\* (matchPersistedPassport); without one the file cannot be verified.
ExportPassport(s) ==
  /\ Cardinality(files) < MaxFiles
  /\ \E i \in issued : i.payload.report = s
  /\ \E rebuilt \in Evidence :
       files' = files \cup
         (IF storedReport[s] # NoPassport THEN {storedReport[s]}
          ELSE IF passportRow[s] # NoPassport /\ passportRow[s].payload.evidence = rebuilt
            THEN {Package(passportRow[s], rebuilt)} ELSE {})
  /\ UNCHANGED <<signingKey, configuredIds, storedReport, passportRow, issued, verdict>>

\* Another deployment's report, exported there.
ExportElsewhere(s, evidence) ==
  /\ Cardinality(files) < MaxFiles
  /\ \E key \in ForeignKeys : files' = files \cup {Package(PassportFor(s, evidence, key), evidence)}
  /\ UNCHANGED <<signingKey, configuredIds, storedReport, passportRow, issued, verdict>>

\* signingKeyPair: the deployment gets another key.
RotateKey ==
  /\ signingKey' \in SigningKeys \ {signingKey}
  /\ UNCHANGED <<configuredIds, storedReport, passportRow, issued, files, verdict>>

ConfigureTrust ==
  /\ configuredIds' \in SUBSET SigningKeys
  /\ UNCHANGED <<signingKey, storedReport, passportRow, issued, files, verdict>>

\* A verification that looks at the signature and its key alone.
SignatureChecks(p) ==
  /\ p.passport.signature = [of |-> p.passport.payload, by |-> p.passport.publicKey]
  /\ p.passport.keyId = p.passport.publicKey
  /\ p.passport.keyId \in TrustedIds

\* verifyEvidencePackage with requireTrustedIssuer.
PackageChecks(p) ==
  /\ p.passport.signature = [of |-> p.passport.payload, by |-> p.passport.publicKey]
  /\ p.passport.keyId = p.passport.publicKey
  /\ p.passport.keyId \in TrustedIds
  /\ p.passport.payload.evidence = p.evidence

\* Packages put together from pieces of two files.
MixedPackages(a, b) ==
  {Package(a.passport, b.evidence),
   Package([a.passport EXCEPT !.payload = b.passport.payload], b.evidence),
   Package([a.passport EXCEPT !.keyId = b.passport.keyId], a.evidence),
   Package([a.passport EXCEPT !.signature = b.passport.signature], a.evidence),
   Package([b.passport EXCEPT !.payload = a.passport.payload, !.signature = a.passport.signature], a.evidence)}

\* What people send: a file, or one put together.
Packages == files \cup UNION {MixedPackages(a, b) : a, b \in files}

VerifyPackage(p) ==
  /\ verdict' = [package |-> p, valid |-> PackageChecks(p), trusted |-> TrustedIds]
  /\ UNCHANGED <<signingKey, configuredIds, storedReport, passportRow, issued, files>>

PassportNext ==
  \/ \E s \in Reports, e \in Evidence : IssuePassport(s, e) \/ ExportElsewhere(s, e)
  \/ \E s \in Reports : ExportPassport(s)
  \/ RotateKey \/ ConfigureTrust
  \/ \E p \in Packages : VerifyPackage(p)

PassportSpec == PassportInit /\ [][PassportNext]_passportVars

-------------------------------------------------------------------------------
(* Properties *)

PassportKeys == SigningKeys \cup ForeignKeys
SignedPayloads == [report : Reports, evidence : Evidence]
SignedPassports ==
  [payload : SignedPayloads, keyId : PassportKeys, publicKey : PassportKeys,
   signature : [of : SignedPayloads, by : PassportKeys]]
PackageFiles == [passport : SignedPassports, evidence : Evidence]

PassportTypeOK ==
  /\ signingKey \in SigningKeys /\ configuredIds \subseteq SigningKeys
  /\ storedReport \in [Reports -> PackageFiles \cup {NoPassport}]
  /\ passportRow \in [Reports -> SignedPassports \cup {NoPassport}]
  /\ issued \subseteq SignedPassports /\ files \subseteq PackageFiles
  /\ \/ verdict = NoVerdict
     \/ verdict \in [package : PackageFiles, valid : BOOLEAN, trusted : SUBSET SigningKeys]

\* A package is called valid exactly when this deployment signed that passport for that
\* very evidence, with a key that it trusts at the time: not when another deployment
\* signed it, and not when its parts come from different files; and every unmixed
\* export of its own stays valid while its key is the current or a configured one
\* (evidence-passport.js:164-229).
VerdictIsExact ==
  verdict # NoVerdict =>
    (verdict.valid <=> /\ verdict.package.passport \in issued
                       /\ verdict.package.passport.keyId \in verdict.trusted
                       /\ verdict.package.passport.payload.evidence = verdict.package.evidence)
===============================================================================
