----------------------------- MODULE RecordProofs -----------------------------
(***************************************************************************)
(* Proofs about the records people rely on, for any number of people,      *)
(* jobs, workers, reports, keys and faults: a passport is valid exactly    *)
(* when this deployment issued it (Passport); an edit of a case undoes no  *)
(* other one and management leaves nothing half done (Casework); receipts, *)
(* rows and results of the platform queue say what is so (PlatformJobs);   *)
(* the e-mail page shows the report of its own message (EmailPage); related *)
(* e-mails find each other (Campaign); what was sent to a webhook agrees   *)
(* with what is recorded about it (Webhooks); a list of scans shows of them *)
(* what is so (History).  And the components side by side: each of them    *)
(* runs as it does alone, and all stay well-typed (MCPlatform).            *)
(***************************************************************************)
EXTENDS AccessProofs, MCPlatform, WellFoundedInduction

\* The signature and the key id fit the passport.
Consistent(pp) ==
  /\ pp.signature = [of |-> pp.payload, by |-> pp.publicKey]
  /\ pp.keyId = pp.publicKey

\* A consistent passport of a key of this deployment was issued by it.
Genuine(pp) == Consistent(pp) /\ pp.keyId \in SigningKeys => pp \in issued

\* What PackageChecks found when the trusted keys were `trusted`.
Checked(p, trusted) ==
  Consistent(p.passport) /\ p.passport.keyId \in trusted /\ p.passport.payload.evidence = p.evidence

IssuedInv == \A i \in issued : Consistent(i) /\ i.keyId \in SigningKeys
FilesInv == \A f \in files : Consistent(f.passport) /\ Genuine(f.passport)
StoredInv ==
  \A s \in Reports :
    /\ storedReport[s] # NoPassport => storedReport[s].passport \in issued
    /\ passportRow[s] # NoPassport => passportRow[s] \in issued
VerdictInv ==
  verdict # NoVerdict =>
    /\ verdict.valid <=> Checked(verdict.package, verdict.trusted)
    /\ Genuine(verdict.package.passport)

PassportInv == PassportTypeOK /\ IssuedInv /\ FilesInv /\ StoredInv /\ VerdictInv

-------------------------------------------------------------------------------
(* Passports *)

\* A passport is its four fields.
LEMMA SamePassport ==
  ASSUME NEW a \in SignedPassports, NEW b \in SignedPassports,
         a.payload = b.payload, a.keyId = b.keyId, a.publicKey = b.publicKey, a.signature = b.signature
  PROVE  a = b
BY DEF SignedPassports

\* What a new passport looks like.
LEMMA NewPassport ==
  ASSUME NEW s \in Reports, NEW e \in Evidence, NEW key \in PassportKeys
  PROVE  /\ PassportFor(s, e, key) \in SignedPassports
         /\ Package(PassportFor(s, e, key), e) \in PackageFiles
         /\ Package(PassportFor(s, e, key), e).passport = PassportFor(s, e, key)
         /\ Consistent(PassportFor(s, e, key))
         /\ PassportFor(s, e, key).keyId = key
BY DEF PassportFor, Package, SignedPassports, SignedPayloads, PackageFiles, Consistent

\* The passports put together from two.
MixOf(a, b) ==
  {a, [a EXCEPT !.payload = b.payload], [a EXCEPT !.keyId = b.keyId],
   [a EXCEPT !.signature = b.signature], [b EXCEPT !.payload = a.payload, !.signature = a.signature]}

\* Whatever pieces of two passports are put together, the result is one of them or it
\* is inconsistent.
LEMMA MixedPassport ==
  ASSUME NEW a \in SignedPassports, NEW b \in SignedPassports, Consistent(a), Consistent(b),
         NEW m \in MixOf(a, b)
  PROVE  m \in SignedPassports /\ (Consistent(m) => m = a)
<1> USE DEF Consistent
<1>1. m \in SignedPassports
  BY DEF SignedPassports, MixOf
<1>2. CASE m = a
  BY <1>1, <1>2
<1>3. CASE m = [a EXCEPT !.payload = b.payload]
  <2>1. /\ m.payload = b.payload /\ m.keyId = a.keyId /\ m.publicKey = a.publicKey
        /\ m.signature = a.signature
    BY <1>3 DEF SignedPassports
  <2>2. Consistent(m) => m.payload = a.payload
    BY <2>1
  <2> QED
    BY <1>1, <2>1, <2>2, SamePassport
<1>4. CASE m = [a EXCEPT !.keyId = b.keyId]
  <2>1. /\ m.payload = a.payload /\ m.publicKey = a.publicKey /\ m.signature = a.signature
    BY <1>4 DEF SignedPassports
  <2> QED
    BY <1>1, <2>1, SamePassport
<1>5. CASE m = [a EXCEPT !.signature = b.signature]
  <2>1. m.payload = a.payload /\ m.publicKey = a.publicKey /\ m.keyId = a.keyId
    BY <1>5 DEF SignedPassports
  <2> QED
    BY <1>1, <2>1, SamePassport
<1>6. CASE m = [b EXCEPT !.payload = a.payload, !.signature = a.signature]
  <2>1. /\ m.payload = a.payload /\ m.signature = a.signature /\ m.keyId = b.keyId
        /\ m.publicKey = b.publicKey
    BY <1>6 DEF SignedPassports
  <2>2. Consistent(m) => m.publicKey = a.publicKey
    BY <2>1
  <2> QED
    BY <1>1, <2>1, <2>2, SamePassport
<1> QED
  BY <1>2, <1>3, <1>4, <1>5, <1>6 DEF MixOf

\* A package, mixed or not, is genuine: no mixture passes for a passport of this
\* deployment that it did not issue.
LEMMA PackagesGenuine ==
  ASSUME PassportTypeOK, FilesInv, NEW p \in Packages
  PROVE  p \in PackageFiles /\ Genuine(p.passport)
<1>1. CASE p \in files
  BY <1>1 DEF PassportTypeOK, FilesInv
<1>2. ASSUME NEW a \in files, NEW b \in files, NEW m \in MixOf(a.passport, b.passport),
             NEW e \in {a.evidence, b.evidence}, p = Package(m, e)
      PROVE  p \in PackageFiles /\ Genuine(p.passport)
  <2>1. /\ a.passport \in SignedPassports /\ b.passport \in SignedPassports
        /\ a.evidence \in Evidence /\ b.evidence \in Evidence
        /\ Consistent(a.passport) /\ Consistent(b.passport) /\ Genuine(a.passport)
    BY DEF PassportTypeOK, FilesInv, PackageFiles
  <2>2. m \in SignedPassports /\ (Consistent(m) => m = a.passport)
    BY <2>1, MixedPassport
  <2>3. p.passport = m /\ p \in PackageFiles
    BY <1>2, <2>1, <2>2 DEF Package, PackageFiles
  <2> QED
    BY <2>1, <2>2, <2>3 DEF Genuine
<1>3. p \in files \/ \E a, b \in files : \E m \in MixOf(a.passport, b.passport) :
                       \E e \in {a.evidence, b.evidence} : p = Package(m, e)
  <2>1. CASE p \in files
    BY <2>1
  <2>2. CASE p \notin files
    <3>1. PICK a \in files, b \in files : p \in MixedPackages(a, b)
      BY <2>2 DEF Packages
    <3>2. PICK m \in MixOf(a.passport, b.passport), e \in {a.evidence, b.evidence} : p = Package(m, e)
      BY <3>1 DEF MixOf, MixedPackages
    <3> QED
      BY <3>2
  <2> QED
    BY <2>1, <2>2
<1> QED
  BY <1>1, <1>2, <1>3

-------------------------------------------------------------------------------
(* Steps *)

LEMMA PassportInvInit == PassportInit => PassportInv
BY DEF PassportInit, PassportInv, PassportTypeOK, IssuedInv, FilesInv, StoredInv, VerdictInv

\* Signing adds a genuine passport; everything else stays what it was.
LEMMA IssueKeeps ==
  ASSUME PassportInv, NEW s \in Reports, NEW e \in Evidence, IssuePassport(s, e)
  PROVE  PassportInv'
<1> DEFINE pp == PassportFor(s, e, signingKey)
           file == Package(pp, e)
<1>1. /\ pp \in SignedPassports /\ Consistent(pp) /\ pp.keyId \in SigningKeys
      /\ file \in PackageFiles /\ file.passport = pp
  <2>1. signingKey \in SigningKeys /\ signingKey \in PassportKeys
    BY DEF PassportInv, PassportTypeOK, PassportKeys
  <2> QED
    BY <2>1, NewPassport
<1>2. /\ issued' = issued \cup {pp}
      /\ passportRow' \in {passportRow, [passportRow EXCEPT ![s] = pp]}
      /\ storedReport' \in {storedReport, [storedReport EXCEPT ![s] = file]}
      /\ UNCHANGED <<signingKey, configuredIds, files, verdict>>
  BY DEF IssuePassport
<1> HIDE DEF pp, file
<1>3. PassportTypeOK'
  BY <1>1, <1>2 DEF PassportInv, PassportTypeOK
<1>4. IssuedInv'
  BY <1>1, <1>2 DEF PassportInv, IssuedInv, Consistent
<1>5. FilesInv'
  BY <1>2 DEF PassportInv, FilesInv, Genuine, Consistent
<1>6. StoredInv'
  BY <1>1, <1>2 DEF PassportInv, PassportTypeOK, StoredInv
<1>7. VerdictInv'
  BY <1>2 DEF PassportInv, VerdictInv, Genuine, Checked, Consistent
<1> QED
  BY <1>3, <1>4, <1>5, <1>6, <1>7 DEF PassportInv

\* An export adds a copy of what is stored.
LEMMA ExportKeeps ==
  ASSUME PassportInv, NEW s \in Reports, ExportPassport(s)
  PROVE  PassportInv'
<1>1. /\ UNCHANGED <<signingKey, configuredIds, storedReport, passportRow, issued, verdict>>
  BY DEF ExportPassport
<1>2. ASSUME NEW f \in files' \ files PROVE f \in PackageFiles /\ f.passport \in issued
  <2>1. PICK rebuilt \in Evidence :
          files' = files \cup
            (IF storedReport[s] # NoPassport THEN {storedReport[s]}
             ELSE IF passportRow[s] # NoPassport /\ passportRow[s].payload.evidence = rebuilt
               THEN {Package(passportRow[s], rebuilt)} ELSE {})
    BY DEF ExportPassport
  <2>2. CASE storedReport[s] # NoPassport
    BY <2>1, <2>2, <1>2 DEF PassportInv, PassportTypeOK, StoredInv
  <2>3. CASE storedReport[s] = NoPassport /\ passportRow[s] # NoPassport
    <3>1. f = [passport |-> passportRow[s], evidence |-> rebuilt]
      BY <2>1, <2>3, <1>2 DEF Package
    <3>2. passportRow[s] \in SignedPassports /\ passportRow[s] \in issued
      BY <2>3 DEF PassportInv, PassportTypeOK, StoredInv
    <3> QED
      BY <3>1, <3>2 DEF PackageFiles
  <2> QED
    BY <2>1, <2>2, <2>3, <1>2
<1>3. PassportTypeOK'
  BY <1>1, <1>2 DEF PassportInv, PassportTypeOK
<1>4. FilesInv'
  BY <1>1, <1>2 DEF PassportInv, FilesInv, IssuedInv, Genuine, Consistent
<1>5. IssuedInv' /\ StoredInv'
  BY <1>1 DEF PassportInv, IssuedInv, StoredInv, Consistent
<1>6. VerdictInv'
  BY <1>1 DEF PassportInv, VerdictInv, Genuine, Checked, Consistent
<1> QED
  BY <1>3, <1>4, <1>5, <1>6 DEF PassportInv

\* A file of another deployment carries a key that is not one of this deployment's.
LEMMA ExportElsewhereKeeps ==
  ASSUME PassportInv, NEW s \in Reports, NEW e \in Evidence, ExportElsewhere(s, e)
  PROVE  PassportInv'
<1>1. PICK key \in ForeignKeys : files' = files \cup {Package(PassportFor(s, e, key), e)}
  BY DEF ExportElsewhere
<1>2. UNCHANGED <<signingKey, configuredIds, storedReport, passportRow, issued, verdict>>
  BY DEF ExportElsewhere
<1> DEFINE file == Package(PassportFor(s, e, key), e)
<1>3. file \in PackageFiles /\ Consistent(file.passport) /\ file.passport.keyId \notin SigningKeys
  BY NewPassport, PassportAssumption DEF PassportKeys
<1> HIDE DEF file
<1>4. files' = files \cup {file}
  BY <1>1 DEF file
<1>5. PassportTypeOK'
  BY <1>2, <1>3, <1>4 DEF PassportInv, PassportTypeOK
<1>6. FilesInv'
  BY <1>2, <1>3, <1>4 DEF PassportInv, FilesInv, Genuine, Consistent
<1>7. IssuedInv' /\ StoredInv'
  BY <1>2 DEF PassportInv, IssuedInv, StoredInv, Consistent
<1>8. VerdictInv'
  BY <1>2 DEF PassportInv, VerdictInv, Genuine, Checked, Consistent
<1> QED
  BY <1>5, <1>6, <1>7, <1>8 DEF PassportInv

\* A verification records what PackageChecks found, under the keys trusted then.
LEMMA VerifyKeeps ==
  ASSUME PassportInv, NEW p \in Packages, VerifyPackage(p)
  PROVE  PassportInv'
<1>1. /\ verdict' = [package |-> p, valid |-> PackageChecks(p), trusted |-> TrustedIds]
      /\ UNCHANGED <<signingKey, configuredIds, storedReport, passportRow, issued, files>>
  BY DEF VerifyPackage
<1>2. p \in PackageFiles /\ Genuine(p.passport)
  BY PackagesGenuine DEF PassportInv
<1>3. TrustedIds \in SUBSET SigningKeys
  BY DEF PassportInv, PassportTypeOK, TrustedIds
<1>4. PackageChecks(p) \in BOOLEAN /\ (PackageChecks(p) <=> Checked(p, TrustedIds))
  BY DEF PackageChecks, Checked, Consistent
<1>5. PassportTypeOK'
  BY <1>1, <1>2, <1>3, <1>4 DEF PassportInv, PassportTypeOK
<1>6. FilesInv' /\ IssuedInv' /\ StoredInv'
  BY <1>1 DEF PassportInv, FilesInv, IssuedInv, StoredInv, Genuine, Consistent
<1>7. VerdictInv'
  <2>1. verdict'.package = p /\ verdict'.valid = PackageChecks(p) /\ verdict'.trusted = TrustedIds
    BY <1>1
  <2>2. Genuine(p.passport)'
    BY <1>1, <1>2 DEF Genuine, Consistent
  <2> QED
    BY <1>4, <2>1, <2>2, <1>1 DEF VerdictInv, Genuine, Checked, Consistent
<1> QED
  BY <1>5, <1>6, <1>7 DEF PassportInv

LEMMA PassportInvNext == PassportInv /\ [PassportNext]_passportVars => PassportInv'
<1> SUFFICES ASSUME PassportInv, [PassportNext]_passportVars PROVE PassportInv'
  OBVIOUS
<1>1. CASE RotateKey \/ ConfigureTrust \/ UNCHANGED passportVars
  <2>1. UNCHANGED <<storedReport, passportRow, issued, files, verdict>>
    BY <1>1 DEF RotateKey, ConfigureTrust, passportVars
  <2>2. PassportTypeOK'
    BY <1>1 DEF RotateKey, ConfigureTrust, passportVars, PassportInv, PassportTypeOK
  <2>3. FilesInv' /\ IssuedInv' /\ StoredInv'
    BY <2>1 DEF PassportInv, FilesInv, IssuedInv, StoredInv, Genuine, Consistent
  <2>4. VerdictInv'
    BY <2>1 DEF PassportInv, VerdictInv, Genuine, Checked, Consistent
  <2> QED
    BY <2>2, <2>3, <2>4 DEF PassportInv
<1>2. CASE \E s \in Reports, e \in Evidence : IssuePassport(s, e) \/ ExportElsewhere(s, e)
  BY <1>2, IssueKeeps, ExportElsewhereKeeps
<1>3. CASE \E s \in Reports : ExportPassport(s)
  BY <1>3, ExportKeeps
<1>4. CASE \E p \in Packages : VerifyPackage(p)
  BY <1>4, VerifyKeeps
<1> QED
  BY <1>1, <1>2, <1>3, <1>4 DEF PassportNext

LEMMA PassportAlwaysInv == PassportSpec => []PassportInv
BY PassportInvInit, PassportInvNext, PTL DEF PassportSpec

-------------------------------------------------------------------------------
(* Theorems *)

\* Keys, stored reports, rows, files and verdicts keep their types.
THEOREM PassportTypeCorrect == PassportSpec => []PassportTypeOK
<1>1. PassportInv => PassportTypeOK
  BY DEF PassportInv
<1> QED
  BY <1>1, PassportAlwaysInv, PTL

\* The verification is exact: a package is called valid exactly when this deployment
\* issued its passport for its evidence, under a key that was trusted at the time.
THEOREM VerdictAlwaysExact == PassportSpec => []VerdictIsExact
<1>1. PassportInv => VerdictIsExact
  <2> SUFFICES ASSUME PassportInv, verdict # NoVerdict
               PROVE  verdict.valid <=>
                        /\ verdict.package.passport \in issued
                        /\ verdict.package.passport.keyId \in verdict.trusted
                        /\ verdict.package.passport.payload.evidence = verdict.package.evidence
    BY DEF VerdictIsExact
  <2>1. verdict.trusted \subseteq SigningKeys
    BY DEF PassportInv, PassportTypeOK
  <2>2. (verdict.valid <=> Checked(verdict.package, verdict.trusted)) /\ Genuine(verdict.package.passport)
    BY DEF PassportInv, VerdictInv
  <2>3. verdict.package.passport \in issued => Consistent(verdict.package.passport)
    BY DEF PassportInv, IssuedInv
  <2> QED
    BY <2>1, <2>2, <2>3 DEF Checked, Genuine
<1> QED
  BY <1>1, PassportAlwaysInv, PTL

-------------------------------------------------------------------------------
(* Casework: the edits of a case *)

PersonRecord ==
  [step : CaseworkSteps, draft : CaseRows, analysed : BOOLEAN, seen : Nat, means : SUBSET CaseFields,
   stale : BOOLEAN, recommendation : Recommendations \cup {"none"}]

\* What an edit of the page gives and means.
EditOK(edit) ==
  /\ edit.means \subseteq DOMAIN edit.given /\ DOMAIN edit.given \subseteq CaseFields
  /\ "status" \in DOMAIN edit.given => edit.given["status"] \in {"open", "in_review", "decided", "closed"}
  /\ "priority" \in DOMAIN edit.given => edit.given["priority"] \in Priorities \cup {"normal"}
  /\ "assigned_to" \in DOMAIN edit.given => edit.given["assigned_to"] \in People \cup {"nobody"}

\* A field that is sent and not meant is sent as the page shows it.
Repeats(edit, onPage) == \A f \in DOMAIN edit.given \ edit.means : edit.given[f] = onPage[f]

LEMMA EditsTyped ==
  ASSUME NEW p \in People, person[p].draft \in CaseRows, NEW edit \in PageEdits(p)
  PROVE  EditOK(edit) /\ Repeats(edit, person[p].draft)
<1> DEFINE onPage == person[p].draft
<1> DEFINE E(given, means) == [given |-> given, means |-> means]
<1> DEFINE A(to, from, next) ==
        E([assigned_to |-> to, status |-> IF onPage.status = from THEN next ELSE onPage.status],
             {"assigned_to"} \cup {f \in {"status"} : onPage.status = from})
<1> DEFINE S(next) == E([status |-> next], {"status"})
<1>0. onPage.status \in {"open", "in_review", "decided", "closed"}
  BY DEF CaseRows
<1>1. \A next \in {"open", "closed", "in_review"} : EditOK(S(next)) /\ Repeats(S(next), onPage)
  BY DEF EditOK, Repeats, CaseFields
<1>2. \A to \in People \cup {"nobody"}, from, next \in {"open", "in_review"} :
        EditOK(A(to, from, next)) /\ Repeats(A(to, from, next), onPage)
  <2> SUFFICES ASSUME NEW to \in People \cup {"nobody"}, NEW from \in {"open", "in_review"},
                      NEW next \in {"open", "in_review"}
               PROVE  EditOK(A(to, from, next)) /\ Repeats(A(to, from, next), onPage)
    OBVIOUS
  <2>1. CASE onPage.status = from
    BY <1>0, <2>1 DEF EditOK, Repeats, CaseFields
  <2>2. CASE onPage.status # from
    BY <1>0, <2>2 DEF EditOK, Repeats, CaseFields
  <2> QED
    BY <2>1, <2>2
<1>3. \A x \in Priorities : EditOK(E([priority |-> x], {"priority"})) /\ Repeats(E([priority |-> x], {"priority"}), onPage)
  BY DEF EditOK, Repeats, CaseFields
<1>4. \/ \E x \in Priorities : edit = E([priority |-> x], {"priority"})
      \/ edit = A("nobody", "in_review", "open")
      \/ edit = A(p, "open", "in_review")
      \/ \E next \in {"open", "closed", "in_review"} : edit = S(next)
  BY DEF PageEdits
<1> HIDE DEF E, A, S, onPage
<1> QED
  <2>1. EditOK(edit) /\ Repeats(edit, onPage)
    BY <1>1, <1>2, <1>3, <1>4
  <2> QED
    BY <2>1 DEF onPage

LEMMA MergedTyped ==
  ASSUME NEW current \in CaseRows, NEW edit, EditOK(edit)
  PROVE  /\ Merged(current, edit.given) \in CaseRows
         /\ \A f \in CaseFields : Merged(current, edit.given)[f] =
              IF f \in DOMAIN edit.given THEN edit.given[f] ELSE current[f]
BY DEF EditOK, Merged, CaseFields, CaseRows

LEMMA RestTyped == \A step \in CaseworkSteps : Rest(step) \in PersonRecord
BY DEF Rest, PersonRecord, CaseworkSteps, NewCase, CaseRows, CaseFields

\* A person after an edit was made of the page.
LEMMA EditedTyped ==
  ASSUME NEW draft \in CaseRows, NEW seen \in Nat, NEW means \in SUBSET CaseFields, NEW stale \in BOOLEAN
  PROVE  [Rest("edited") EXCEPT !.draft = draft, !.seen = seen, !.means = means, !.stale = stale]
           \in PersonRecord
BY DEF Rest, PersonRecord, CaseworkSteps, NewCase, CaseRows, CaseFields

LEMMA OpenedTyped ==
  ASSUME NEW draft \in CaseRows, NEW analysed \in BOOLEAN, NEW seen \in Nat
  PROVE  [Rest("viewing") EXCEPT !.draft = draft, !.analysed = analysed, !.seen = seen] \in PersonRecord
BY DEF Rest, PersonRecord, CaseworkSteps, NewCase, CaseRows, CaseFields

LEMMA ReadTyped ==
  ASSUME NEW r \in Recommendations
  PROVE  [Rest("read_review") EXCEPT !.recommendation = r] \in PersonRecord
BY DEF Rest, PersonRecord, CaseworkSteps, NewCase, CaseRows, CaseFields

LEMMA GoneTyped ==
  ASSUME NEW r \in PersonRecord, NEW step \in CaseworkSteps
  PROVE  [r EXCEPT !.step = step] \in PersonRecord
BY DEF PersonRecord

\* What the steps that are not about the case leave alone.
OtherSteps(p) ==
  \/ ReadReview(p) \/ PublishOverride(p) \/ PatchReview(p)
  \/ InsertPolicy(p) \/ CreateVersion(p) \/ ActivateVersion(p) \/ UndoPolicy(p)
  \/ \E o \in People \ {p} : ActivatePolicy(p, o)
  \/ RequestDies(p)

CaseTypes ==
  /\ case \in CaseRows /\ asked \in CaseRows /\ changes \in Nat /\ lostUpdate \in BOOLEAN
  /\ person \in [People -> PersonRecord]

LEMMA PersonOfOther ==
  ASSUME CaseTypes, NEW p \in People, OtherSteps(p)
  PROVE  /\ UNCHANGED caseVars
         /\ \E r \in PersonRecord : r.step \notin {"viewing", "edited"} /\ r.seen \in {0, person[p].seen}
            /\ person' = [person EXCEPT ![p] = r]
<1>1. UNCHANGED caseVars
  BY DEF OtherSteps, ReadReview, PublishOverride, PatchReview, InsertPolicy, CreateVersion,
         ActivateVersion, UndoPolicy, ActivatePolicy, RequestDies, caseVars
<1>2. ASSUME Ends(p) PROVE \E r \in PersonRecord : r.step \notin {"viewing", "edited"} /\ r.seen \in {0, person[p].seen}
            /\ person' = [person EXCEPT ![p] = r]
  <2>1. Rest("ended") \in PersonRecord /\ Rest("ended").step = "ended" /\ Rest("ended").seen = 0
    BY RestTyped DEF CaseworkSteps, Rest
  <2> QED
    BY <1>2, <2>1 DEF Ends
<1>3. ASSUME NEW step \in CaseworkSteps \ {"viewing", "edited"}, Goes(p, step)
      PROVE  \E r \in PersonRecord : r.step \notin {"viewing", "edited"} /\ r.seen \in {0, person[p].seen}
            /\ person' = [person EXCEPT ![p] = r]
  <2> DEFINE r == [person[p] EXCEPT !.step = step]
  <2>1. r \in PersonRecord
    BY GoneTyped DEF CaseTypes
  <2>2. r.step = step /\ r.seen = person[p].seen
    BY DEF CaseTypes, PersonRecord
  <2>3. person' = [person EXCEPT ![p] = r]
    BY <1>3 DEF Goes
  <2> HIDE DEF r
  <2> QED
    BY <2>1, <2>2, <2>3
<1>4. CASE ReadReview(p)
  <2>1. PICK r \in Recommendations :
          person' = [person EXCEPT ![p] = [Rest("read_review") EXCEPT !.recommendation = r]]
    BY <1>4 DEF ReadReview
  <2> DEFINE rest == [Rest("read_review") EXCEPT !.recommendation = r]
  <2>2. rest.step = "read_review"
    BY DEF Rest
  <2>3. rest \in PersonRecord
    BY ReadTyped
  <2>4. person' = [person EXCEPT ![p] = rest]
    BY <2>1
  <2>5. rest.seen = 0
    BY DEF Rest
  <2> HIDE DEF rest
  <2> QED
    BY <1>1, <2>2, <2>3, <2>4, <2>5
<1>5. Ends(p) \/ ReadReview(p) \/ \E step \in CaseworkSteps \ {"viewing", "edited"} : Goes(p, step)
  BY DEF OtherSteps, PublishOverride, PatchReview, InsertPolicy, CreateVersion,
         ActivateVersion, UndoPolicy, ActivatePolicy, RequestDies, CaseworkSteps
<1> QED
  BY <1>1, <1>2, <1>3, <1>4, <1>5

\* A page or an edit that nobody has overtaken is that of the row.
FreshPage(p) ==
  /\ person[p].seen <= changes
  /\ person[p].seen = changes /\ person[p].step = "viewing" => person[p].draft = case
  /\ person[p].seen = changes /\ person[p].step = "edited" /\ ~person[p].stale =>
       \A f \in CaseFields \ person[p].means : person[p].draft[f] = case[f]

EditsInv == CaseTypes /\ (~lostUpdate => case = asked) /\ \A p \in People : FreshPage(p)

LEMMA EditsInvInit == CaseworkInit => EditsInv
<1> SUFFICES ASSUME CaseworkInit PROVE EditsInv
  OBVIOUS
<1>1. NewCase \in CaseRows
  BY DEF NewCase, CaseRows
<1>2. Rest("idle") \in PersonRecord
  BY RestTyped DEF CaseworkSteps
<1>3. CaseTypes
  BY <1>1, <1>2 DEF CaseworkInit, CaseTypes
<1>4. \A p \in People : FreshPage(p)
  BY DEF CaseworkInit, FreshPage, Rest
<1> QED
  BY <1>3, <1>4 DEF CaseworkInit, EditsInv

LEMMA OnePersonMoves ==
  ASSUME EditsInv, NEW p \in People, NEW r \in PersonRecord, person' = [person EXCEPT ![p] = r],
         UNCHANGED caseVars, r.seen <= changes,
         r.step = "viewing" /\ r.seen = changes => r.draft = case,
         r.step = "edited" /\ r.seen = changes /\ ~r.stale =>
           \A f \in CaseFields \ r.means : r.draft[f] = case[f]
  PROVE  EditsInv'
<1>1. CaseTypes'
  BY DEF EditsInv, CaseTypes, caseVars
<1>2. ASSUME NEW q \in People PROVE FreshPage(q)'
  <2>1. CASE q = p
    <3>1. person'[q] = r
      BY <2>1 DEF EditsInv, CaseTypes
    <3> QED
      BY <3>1 DEF FreshPage, caseVars
  <2>2. CASE q # p
    <3>1. person'[q] = person[q]
      BY <2>2 DEF EditsInv, CaseTypes
    <3> QED
      BY <3>1 DEF EditsInv, FreshPage, caseVars
  <2> QED
    BY <2>1, <2>2
<1> QED
  BY <1>1, <1>2 DEF EditsInv, caseVars

LEMMA RestPerson ==
  ASSUME CaseTypes, NEW p \in People, Ends(p)
  PROVE  /\ person' = [person EXCEPT ![p] = Rest("ended")] /\ Rest("ended") \in PersonRecord
         /\ person'[p].step = "ended" /\ person'[p].seen = 0
         /\ \A q \in People \ {p} : person'[q] = person[q]
BY RestTyped DEF Ends, CaseTypes, CaseworkSteps, Rest

LEMMA EditsInvNext == EditsInv /\ [CaseworkNext]_caseworkVars => EditsInv'
<1> SUFFICES ASSUME EditsInv, [CaseworkNext]_caseworkVars PROVE EditsInv'
  OBVIOUS
<1>0. CaseTypes /\ \A p \in People : FreshPage(p)
  BY DEF EditsInv
<1>1. CASE UNCHANGED caseworkVars
  BY <1>1 DEF caseworkVars, caseVars, EditsInv, CaseTypes, FreshPage
<1>2. ASSUME NEW p \in People, OpenCase(p) PROVE EditsInv'
  <2> DEFINE r == [Rest("viewing") EXCEPT !.draft = case, !.analysed = decisions > 0, !.seen = changes]
  <2>1. r \in PersonRecord
    <3>1. (decisions > 0) \in BOOLEAN
      OBVIOUS
    <3> QED
      BY <1>0, <3>1, OpenedTyped DEF CaseTypes
  <2>2. r.step = "viewing" /\ r.seen = changes /\ r.draft = case
    BY DEF Rest
  <2>3. person' = [person EXCEPT ![p] = r] /\ UNCHANGED caseVars
    BY <1>2 DEF OpenCase
  <2>4. r.seen <= changes
    BY <1>0, <2>2 DEF CaseTypes
  <2> HIDE DEF r
  <2> QED
    BY <2>1, <2>2, <2>3, <2>4, OnePersonMoves
<1>3. ASSUME NEW p \in People, ReadCase(p) PROVE EditsInv'
  <2>1. PICK edit \in PageEdits(p) :
          person' = [person EXCEPT ![p] =
                    [Rest("edited") EXCEPT !.draft = Merged(case, edit.given), !.seen = changes,
                       !.means = edit.means,
                       !.stale = DOMAIN edit.given # edit.means /\ person[p].seen # changes]]
    BY <1>3 DEF ReadCase
  <2>2. EditOK(edit) /\ Repeats(edit, person[p].draft)
    <3>1. person[p].draft \in CaseRows
      BY <1>0 DEF CaseTypes, PersonRecord
    <3> QED
      BY <3>1, EditsTyped
  <2>3. /\ Merged(case, edit.given) \in CaseRows
        /\ \A f \in CaseFields : Merged(case, edit.given)[f] =
              IF f \in DOMAIN edit.given THEN edit.given[f] ELSE case[f]
    BY <1>0, <2>2, MergedTyped DEF CaseTypes
  <2> DEFINE draft == Merged(case, edit.given)
             stale == DOMAIN edit.given # edit.means /\ person[p].seen # changes
             r == [Rest("edited") EXCEPT !.draft = draft, !.seen = changes, !.means = edit.means, !.stale = stale]
  <2>4. r \in PersonRecord
    <3>1. edit.means \in SUBSET CaseFields /\ stale \in BOOLEAN /\ changes \in Nat
      BY <1>0, <2>2 DEF EditOK, CaseTypes
    <3> HIDE DEF stale
    <3> QED
      BY <2>3, <3>1, EditedTyped
  <2>5. r.step = "edited" /\ r.seen = changes /\ r.draft = draft /\ r.means = edit.means /\ r.stale = stale
    BY DEF Rest
  <2>6. ~stale => \A f \in CaseFields \ edit.means : draft[f] = case[f]
    <3> SUFFICES ASSUME ~stale, NEW f \in CaseFields \ edit.means PROVE draft[f] = case[f]
      OBVIOUS
    <3>1. CASE f \notin DOMAIN edit.given
      BY <2>3, <3>1
    <3>2. CASE f \in DOMAIN edit.given
      <4>1. person[p].seen = changes
        BY <3>2
      <4>2. person[p].draft = case
        BY <1>0, <1>3, <4>1 DEF FreshPage, ReadCase, In
      <4>3. edit.given[f] = case[f]
        BY <2>2, <3>2, <4>2 DEF Repeats
      <4> QED
        BY <2>3, <3>2, <4>3
    <3> QED
      BY <3>1, <3>2
  <2>7. person' = [person EXCEPT ![p] = r] /\ UNCHANGED caseVars /\ changes \in Nat
    BY <1>0, <1>3, <2>1 DEF ReadCase, CaseTypes
  <2>8. r.step # "viewing" /\ r.seen <= changes
    BY <2>5, <2>7
  <2>9. ~r.stale => \A f \in CaseFields \ r.means : r.draft[f] = case[f]
    BY <2>5, <2>6
  <2> HIDE DEF r, draft, stale
  <2> QED
    BY <2>4, <2>7, <2>8, <2>9, OnePersonMoves
<1>4. ASSUME NEW p \in People, Ends(p), changes' = changes + 1, case' \in CaseRows, asked' \in CaseRows,
             lostUpdate' \in BOOLEAN, ~lostUpdate' => case' = asked'
      PROVE  EditsInv'
  <2>1. CaseTypes'
    BY <1>0, <1>4, RestPerson DEF CaseTypes
  <2>2. ASSUME NEW q \in People PROVE FreshPage(q)'
    <3>1. changes \in Nat /\ person[q].seen \in Nat /\ person[q].seen <= changes
      BY <1>0 DEF CaseTypes, FreshPage, PersonRecord
    <3>2. person'[q].seen # changes' /\ person'[q].seen <= changes'
      BY <1>0, <1>4, <3>1, RestPerson
    <3> QED
      BY <3>2 DEF FreshPage
  <2> QED
    BY <1>4, <2>1, <2>2 DEF EditsInv
<1>5. ASSUME NEW p \in People, WriteCase(p) PROVE EditsInv'
  <2>1. person[p] \in PersonRecord /\ person[p].draft \in CaseRows
    BY <1>0 DEF CaseTypes, PersonRecord
  <2>2. /\ case' = person[p].draft /\ Ends(p) /\ changes' = changes + 1
        /\ asked' = [f \in CaseFields |-> IF f \in person[p].means THEN case'[f] ELSE asked[f]]
        /\ lostUpdate' = (lostUpdate \/ person[p].stale \/ person[p].seen # changes)
    BY <1>5 DEF WriteCase
  <2>3. asked' \in CaseRows
    BY <1>0, <2>1, <2>2 DEF CaseTypes, CaseRows, CaseFields
  <2>4. lostUpdate' \in BOOLEAN
    BY <2>2
  <2>5. ASSUME ~lostUpdate' PROVE case' = asked'
    <3>1. ~lostUpdate /\ ~person[p].stale /\ person[p].seen = changes
      BY <2>2, <2>5
    <3>2. \A f \in CaseFields \ person[p].means : person[p].draft[f] = case[f]
      BY <1>0, <1>5, <3>1 DEF FreshPage, WriteCase, In
    <3>3. \A f \in CaseFields : case'[f] = asked'[f]
      BY <2>2, <3>1, <3>2 DEF EditsInv
    <3> QED
      BY <2>1, <2>2, <2>3, <3>3 DEF CaseRows, CaseFields
  <2> QED
    BY <1>4, <2>1, <2>2, <2>3, <2>4, <2>5
<1>6. ASSUME NEW p \in People, RecordCaseDecision(p) PROVE EditsInv'
  <2>1. case' \in CaseRows /\ asked' \in CaseRows /\ lostUpdate' \in BOOLEAN
    BY <1>0, <1>6 DEF RecordCaseDecision, CaseTypes, CaseRows
  <2>2. ~lostUpdate' => case' = asked'
    BY <1>6 DEF RecordCaseDecision, EditsInv
  <2> QED
    BY <1>4, <1>6, <2>1, <2>2 DEF RecordCaseDecision
<1>7. ASSUME NEW p \in People, OtherSteps(p) PROVE EditsInv'
  <2>1. PICK r \in PersonRecord : r.step \notin {"viewing", "edited"} /\ r.seen \in {0, person[p].seen}
            /\ person' = [person EXCEPT ![p] = r]
    BY <1>0, <1>7, PersonOfOther
  <2>2. UNCHANGED caseVars
    BY <1>0, <1>7, PersonOfOther
  <2>3. r.seen <= changes
    BY <1>0, <2>1 DEF FreshPage, CaseTypes
  <2> QED
    BY <2>1, <2>2, <2>3, OnePersonMoves
<1> QED
  BY <1>1, <1>2, <1>3, <1>5, <1>6, <1>7 DEF CaseworkNext, OtherSteps

\* A case shows what people last meant each of its fields to be, unless a write rested
\* on a row or page that somebody had overtaken.
THEOREM EditsAlwaysSurvive == CaseworkSpec => []EditsSurvive
<1>1. EditsInv => EditsSurvive
  BY DEF EditsInv, EditsSurvive
<1> QED
  BY <1>1, EditsInvInit, EditsInvNext, PTL DEF CaseworkSpec

-------------------------------------------------------------------------------
(* Casework: reviews and policies *)

LEMMA GoesPerson ==
  ASSUME CaseTypes, NEW p \in People, NEW step, Goes(p, step)
  PROVE  /\ person'[p].step = step /\ person'[p].recommendation = person[p].recommendation
         /\ \A q \in People \ {p} : person'[q] = person[q]
BY DEF Goes, CaseTypes, PersonRecord

\* The steps of p that touch neither review nor override.
PlainSteps(p) ==
  \/ OpenCase(p) \/ ReadCase(p) \/ WriteCase(p) \/ RecordCaseDecision(p)
  \/ InsertPolicy(p) \/ CreateVersion(p) \/ ActivateVersion(p) \/ UndoPolicy(p)
  \/ \E o \in People \ {p} : ActivatePolicy(p, o)
  \/ RequestDies(p)

LEMMA PlainPerson ==
  ASSUME CaseTypes, NEW p \in People, PlainSteps(p)
  PROVE  /\ UNCHANGED reviewVars /\ ~Resolving(p)'
         /\ \A q \in People \ {p} : person'[q] = person[q]
<1>1. UNCHANGED reviewVars
  BY DEF PlainSteps, OpenCase, ReadCase, WriteCase, RecordCaseDecision, InsertPolicy, CreateVersion,
         ActivateVersion, UndoPolicy, ActivatePolicy, RequestDies, reviewVars
<1>2. CASE Ends(p)
  BY <1>1, <1>2, RestPerson DEF Resolving
<1>3. ASSUME NEW step \in {"inserted", "versioned", "undoing"}, Goes(p, step)
      PROVE  ~Resolving(p)' /\ \A q \in People \ {p} : person'[q] = person[q]
  BY <1>3, GoesPerson DEF Resolving
<1>4. CASE OpenCase(p)
  BY <1>1, <1>4 DEF OpenCase, Resolving, Rest, CaseTypes
<1>5. CASE ReadCase(p)
  BY <1>1, <1>5 DEF ReadCase, Resolving, Rest, CaseTypes
<1>6. \/ Ends(p) \/ OpenCase(p) \/ ReadCase(p)
      \/ \E step \in {"inserted", "versioned", "undoing"} : Goes(p, step)
  BY DEF PlainSteps, WriteCase, RecordCaseDecision, InsertPolicy, CreateVersion,
         ActivateVersion, UndoPolicy, ActivatePolicy, RequestDies
<1> QED
  BY <1>1, <1>2, <1>3, <1>4, <1>5, <1>6

Acts(p) ==
  PlainSteps(p) \/ ReadReview(p) \/ PublishOverride(p) \/ PatchReview(p)

\* While nobody raced, the one request that resolves the review found it open, and
\* what it published is the latest override.
LastIs(r) == overrides # <<>> /\ overrides[Len(overrides)] = r
ReviewInv ==
  /\ overrides \in Seq(Recommendations) /\ raced \in BOOLEAN
  /\ \A p \in People : Resolving(p) => person[p].recommendation \in Recommendations
  /\ ~raced =>
       /\ \A p, q \in People : Resolving(p) /\ Resolving(q) => p = q
       /\ \A p \in People : person[p].step = "read_review" => review = "open"
       /\ \A p \in People : person[p].step = "published" => LastIs(person[p].recommendation)
       /\ review # "open" => LastIs(review)

LEMMA ReviewInvNext == CaseTypes /\ ReviewInv /\ [CaseworkNext]_caseworkVars => ReviewInv'
<1> SUFFICES ASSUME CaseTypes, ReviewInv, [CaseworkNext]_caseworkVars PROVE ReviewInv'
  OBVIOUS
<1>1. CASE UNCHANGED caseworkVars
  BY <1>1 DEF caseworkVars, reviewVars, ReviewInv, LastIs, Resolving
<1>2. ASSUME NEW p \in People, PlainSteps(p) PROVE ReviewInv'
  BY <1>2, PlainPerson DEF reviewVars, ReviewInv, LastIs, Resolving
<1>3. ASSUME NEW p \in People, ReadReview(p) PROVE ReviewInv'
  <2>1. /\ person'[p].step = "read_review" /\ person'[p].recommendation \in Recommendations
        /\ \A q \in People \ {p} : person'[q] = person[q]
    BY <1>3 DEF ReadReview, Rest, CaseTypes
  <2>2. /\ review = "open" /\ review' = review /\ overrides' = overrides
        /\ raced' = (raced \/ \E o \in People \ {p} : Resolving(o))
    BY <1>3 DEF ReadReview
  <2> QED
    BY <2>1, <2>2 DEF ReviewInv, LastIs, Resolving
<1>4. ASSUME NEW p \in People, PublishOverride(p) PROVE ReviewInv'
  <2>1. /\ person[p].step = "read_review" /\ person[p].recommendation \in Recommendations
        /\ review' = review /\ raced' = raced
        /\ overrides' = Append(overrides, person[p].recommendation)
    BY <1>4 DEF PublishOverride, In, ReviewInv, Resolving
  <2>2. /\ person'[p].step = "published" => person'[p].recommendation = person[p].recommendation
        /\ person'[p].step \in {"published", "ended"}
        /\ \A q \in People \ {p} : person'[q] = person[q]
    BY <1>4, GoesPerson, RestPerson DEF PublishOverride
  <2> QED
    BY <2>1, <2>2 DEF ReviewInv, LastIs, Resolving
<1>5. ASSUME NEW p \in People, PatchReview(p) PROVE ReviewInv'
  <2>1. /\ person[p].step = "published" /\ review' \in {review, person[p].recommendation}
        /\ UNCHANGED <<overrides, raced>> /\ Ends(p)
    BY <1>5 DEF PatchReview, In
  <2>2. person'[p].step = "ended" /\ \A q \in People \ {p} : person'[q] = person[q]
    BY <2>1, RestPerson
  <2> QED
    BY <2>1, <2>2 DEF ReviewInv, LastIs, Resolving
<1>6. \A p \in People : Acts(p) => ReviewInv'
  BY <1>2, <1>3, <1>4, <1>5 DEF Acts
<1> QED
  BY <1>1, <1>6 DEF CaseworkNext, Acts, PlainSteps

LEMMA ReviewAlwaysInv == CaseworkSpec => []ReviewInv
<1>1. CaseworkInit => ReviewInv
  <2> SUFFICES ASSUME CaseworkInit PROVE ReviewInv
    OBVIOUS
  <2>1. \A p \in People : ~Resolving(p)
    BY DEF CaseworkInit, Resolving, Rest
  <2>2. overrides = <<>> /\ raced = FALSE /\ review = "open"
    BY DEF CaseworkInit
  <2>3. overrides \in Seq(Recommendations)
    BY <2>2
  <2>4. raced \in BOOLEAN /\ ~(review # "open")
    BY <2>2
  <2> QED
    BY <2>1, <2>3, <2>4 DEF ReviewInv, Resolving
<1>2. EditsInv => CaseTypes
  BY DEF EditsInv
<1> QED
  BY <1>1, <1>2, ReviewInvNext, EditsInvInit, EditsInvNext, PTL DEF CaseworkSpec

LEMMA ReviewAlways == CaseworkSpec => []ResolutionIsPublished
<1>1. ReviewInv => ResolutionIsPublished
  BY DEF ReviewInv, ResolutionIsPublished, LastIs
<1> QED
  BY <1>1, ReviewAlwaysInv, PTL

\* A request that is not about a policy has made none.
Uninvolved == {"idle", "viewing", "edited", "read_review", "published"}
PolicyInv ==
  /\ policy \in [People -> {"none", "bare", "versioned", "active"}]
  /\ policyAnswer \in [People -> {"none", "ok", "error"}]
  /\ caseFaults \in Nat
  /\ \A p \in People : person[p].step \in Uninvolved => policy[p] = "none"

\* A request leaves a half made policy of its own, and that by a fault.
LEMMA PolicyStep ==
  ASSUME CaseTypes, PolicyInv, NEW p \in People, Acts(p)
  PROVE  /\ PolicyInv'
         /\ caseFaults' \in {caseFaults, caseFaults + 1}
         /\ p \in HalfPolicies' => caseFaults' = caseFaults + 1
         /\ HalfPolicies' \subseteq HalfPolicies \cup {p}
<1> DEFINE Others ==
      \A q \in People \ {p} : /\ policy'[q] \in {policy[q], "active"} /\ person'[q] = person[q]
                              /\ policyAnswer'[q] = policyAnswer[q]
                              /\ policy[q] = "none" => policy'[q] = "none"
           Own ==
      /\ policy' \in [People -> {"none", "bare", "versioned", "active"}]
      /\ policyAnswer' \in [People -> {"none", "ok", "error"}]
      /\ person'[p].step \in Uninvolved => policy'[p] = "none"
      /\ \/ caseFaults' = caseFaults + 1
         \/ /\ caseFaults' = caseFaults
            /\ \/ policy'[p] \in {"none", "active"} \/ person'[p].step \notin {"idle", "ended"}
               \/ policyAnswer'[p] = "ok"
<1>1. ASSUME Others, Own
      PROVE  /\ PolicyInv'
             /\ caseFaults' \in {caseFaults, caseFaults + 1}
             /\ p \in HalfPolicies' => caseFaults' = caseFaults + 1
             /\ HalfPolicies' \subseteq HalfPolicies \cup {p}
  <2>1. PolicyInv'
    BY <1>1 DEF PolicyInv
  <2>2. caseFaults' \in {caseFaults, caseFaults + 1}
    BY <1>1
  <2>3. p \in HalfPolicies' => caseFaults' = caseFaults + 1
    BY <1>1 DEF HalfPolicies
  <2>4. HalfPolicies' \subseteq HalfPolicies \cup {p}
    BY <1>1 DEF HalfPolicies
  <2> QED
    BY <2>1, <2>2, <2>3, <2>4
<1>2. ASSUME UNCHANGED policyVars, caseFaults' \in {caseFaults, caseFaults + 1},
             person[p].step \in Uninvolved, \A q \in People \ {p} : person'[q] = person[q]
      PROVE  Others /\ Own
  BY <1>2 DEF PolicyInv, policyVars
<1>3. CASE OpenCase(p) \/ ReadCase(p) \/ WriteCase(p) \/ RecordCaseDecision(p)
  <2>1. person[p].step \in Uninvolved /\ UNCHANGED <<policyVars, caseFaults>>
    BY <1>3 DEF OpenCase, ReadCase, WriteCase, RecordCaseDecision, In, Uninvolved
  <2>2. \A q \in People \ {p} : person'[q] = person[q]
    BY <1>3, PlainPerson DEF PlainSteps
  <2> QED
    BY <1>1, <1>2, <2>1, <2>2
<1>4. CASE ReadReview(p)
  <2>1. person[p].step \in Uninvolved /\ UNCHANGED <<policyVars, caseFaults>>
    BY <1>4 DEF ReadReview, In, Uninvolved
  <2>2. \A q \in People \ {p} : person'[q] = person[q]
    BY <1>4 DEF ReadReview, CaseTypes
  <2> QED
    BY <1>1, <1>2, <2>1, <2>2
<1>5. CASE PublishOverride(p) \/ PatchReview(p)
  <2>1. person[p].step \in Uninvolved /\ UNCHANGED policyVars /\ caseFaults' \in {caseFaults, caseFaults + 1}
    BY <1>5 DEF PublishOverride, PatchReview, In, Uninvolved, CaseFault, NoCaseFault
  <2>2. \A q \in People \ {p} : person'[q] = person[q]
    BY <1>5, GoesPerson, RestPerson DEF PublishOverride, PatchReview
  <2> QED
    BY <1>1, <1>2, <2>1, <2>2
<1>6. CASE InsertPolicy(p)
  <2>1. Others
    BY <1>6, GoesPerson, RestPerson DEF InsertPolicy, PolicyIs, Told, PolicyInv
  <2>2. Own
    BY <1>6, GoesPerson, RestPerson
       DEF InsertPolicy, PolicyIs, Told, PolicyInv, CaseFault, NoCaseFault, Uninvolved
  <2> QED
    BY <1>1, <2>1, <2>2
<1>7. CASE CreateVersion(p)
  <2>1. Others
    BY <1>7, GoesPerson DEF CreateVersion, PolicyIs, PolicyInv
  <2>2. Own
    BY <1>7, GoesPerson DEF CreateVersion, PolicyIs, PolicyInv, CaseFault, NoCaseFault, Uninvolved
  <2> QED
    BY <1>1, <2>1, <2>2
<1>8. CASE ActivateVersion(p)
  <2>1. Others
    BY <1>8, GoesPerson, RestPerson DEF ActivateVersion, PolicyIs, Told, PolicyInv
  <2>2. Own
    BY <1>8, GoesPerson, RestPerson
       DEF ActivateVersion, PolicyIs, Told, PolicyInv, CaseFault, NoCaseFault, Uninvolved
  <2> QED
    BY <1>1, <2>1, <2>2
<1>9. CASE UndoPolicy(p)
  <2>1. Others
    BY <1>9, RestPerson DEF UndoPolicy, Told, PolicyInv
  <2>2. Own
    BY <1>9, RestPerson DEF UndoPolicy, Told, PolicyInv, CaseFault, NoCaseFault, Uninvolved
  <2> QED
    BY <1>1, <2>1, <2>2
<1>10. ASSUME NEW o \in People \ {p}, ActivatePolicy(p, o) PROVE Others /\ Own
  <2>1. Others
    BY <1>10, RestPerson DEF ActivatePolicy, PolicyIs, PolicyInv
  <2>2. Own
    BY <1>10, RestPerson DEF ActivatePolicy, PolicyIs, PolicyInv, In, Uninvolved
  <2> QED
    BY <2>1, <2>2
<1>11. CASE RequestDies(p)
  <2>1. Others /\ Own
    BY <1>11, RestPerson DEF RequestDies, PolicyInv, policyVars, CaseFault, Uninvolved
  <2> QED
    BY <1>1, <2>1
<1> HIDE DEF Others, Own
<1> QED
  BY <1>1, <1>3, <1>4, <1>5, <1>6, <1>7, <1>8, <1>9, <1>10, <1>11 DEF Acts, PlainSteps

HalfPoliciesInv == IsFiniteSet(HalfPolicies) /\ LeftoversAreFaults

LEMMA LeftoversNext ==
  CaseTypes /\ PolicyInv /\ HalfPoliciesInv /\ [CaseworkNext]_caseworkVars => PolicyInv' /\ HalfPoliciesInv'
<1> SUFFICES ASSUME CaseTypes, PolicyInv, HalfPoliciesInv, [CaseworkNext]_caseworkVars
             PROVE  PolicyInv' /\ HalfPoliciesInv'
  OBVIOUS
<1>1. CASE UNCHANGED caseworkVars
  BY <1>1 DEF caseworkVars, policyVars, PolicyInv, HalfPoliciesInv, HalfPolicies, LeftoversAreFaults
<1>2. ASSUME NEW p \in People, Acts(p) PROVE PolicyInv' /\ HalfPoliciesInv'
  <2>0. /\ IsFiniteSet(HalfPolicies) /\ Cardinality(HalfPolicies) \in Nat /\ caseFaults \in Nat
        /\ Cardinality(HalfPolicies) <= caseFaults
    BY FS_CardinalityType DEF HalfPoliciesInv, LeftoversAreFaults, PolicyInv
  <2>1. /\ PolicyInv' /\ HalfPolicies' \subseteq HalfPolicies \cup {p}
        /\ caseFaults' \in {caseFaults, caseFaults + 1}
        /\ p \in HalfPolicies' => caseFaults' = caseFaults + 1
    BY <1>2, PolicyStep
  <2>2. CASE p \in HalfPolicies'
    <3>1. /\ IsFiniteSet(HalfPolicies \cup {p})
          /\ Cardinality(HalfPolicies \cup {p}) \in {Cardinality(HalfPolicies), Cardinality(HalfPolicies) + 1}
      BY <2>0, FS_AddElement
    <3>2. /\ IsFiniteSet(HalfPolicies') /\ Cardinality(HalfPolicies') \in Nat
          /\ Cardinality(HalfPolicies') <= Cardinality(HalfPolicies \cup {p})
      BY <2>1, <3>1, FS_Subset, FS_CardinalityType
    <3> QED
      BY <2>0, <2>1, <2>2, <3>1, <3>2 DEF HalfPoliciesInv, LeftoversAreFaults
  <2>3. CASE p \notin HalfPolicies'
    <3>1. HalfPolicies' \subseteq HalfPolicies
      BY <2>1, <2>3
    <3>2. /\ IsFiniteSet(HalfPolicies') /\ Cardinality(HalfPolicies') \in Nat
          /\ Cardinality(HalfPolicies') <= Cardinality(HalfPolicies)
      BY <2>0, <3>1, FS_Subset, FS_CardinalityType
    <3> QED
      BY <2>0, <2>1, <3>2 DEF HalfPoliciesInv, LeftoversAreFaults
  <2> QED
    BY <2>2, <2>3
<1> QED
  BY <1>1, <1>2 DEF CaseworkNext, Acts, PlainSteps

LEMMA LeftoversInit == CaseworkInit => PolicyInv /\ HalfPoliciesInv
<1> SUFFICES ASSUME CaseworkInit PROVE PolicyInv /\ HalfPoliciesInv
  OBVIOUS
<1>1. HalfPolicies = {}
  BY DEF CaseworkInit, HalfPolicies
<1> QED
  BY <1>1, FS_EmptySet DEF CaseworkInit, PolicyInv, HalfPoliciesInv, LeftoversAreFaults

LEMMA PolicyAlwaysInv == CaseworkSpec => []PolicyInv /\ []HalfPoliciesInv
<1>1. EditsInv => CaseTypes
  BY DEF EditsInv
<1> QED
  BY <1>1, LeftoversInit, LeftoversNext, EditsInvInit, EditsInvNext, PTL DEF CaseworkSpec

\* A resolved review shows its published override, and a policy left half made was
\* paid for by a fault.
THEOREM NothingEverHalfDone == CaseworkSpec => []NothingHalfDone
<1>1. HalfPoliciesInv => LeftoversAreFaults
  BY DEF HalfPoliciesInv
<1>2. LeftoversAreFaults /\ ResolutionIsPublished => NothingHalfDone
  BY DEF NothingHalfDone
<1> QED
  BY <1>1, <1>2, PolicyAlwaysInv, ReviewAlways, PTL

\* The counters of casework, and the review.
CaseRest ==
  /\ decisions \in 0..MaxDecisions /\ caseFaults \in 0..MaxCaseFaults
  /\ review \in Recommendations \cup {"open"}

LEMMA CaseRestNext == ReviewInv /\ CaseRest /\ [CaseworkNext]_caseworkVars => CaseRest'
<1> SUFFICES ASSUME ReviewInv, CaseRest, [CaseworkNext]_caseworkVars PROVE CaseRest'
  OBVIOUS
<1>1. decisions' \in 0..MaxDecisions
  <2>1. UNCHANGED decisions \/ (decisions < MaxDecisions /\ decisions' = decisions + 1)
    BY DEF CaseworkNext, caseworkVars, caseVars, OpenCase, ReadCase, WriteCase, RecordCaseDecision,
       ReadReview, PublishOverride, PatchReview, InsertPolicy, CreateVersion, ActivateVersion, UndoPolicy,
       ActivatePolicy, RequestDies
  <2> QED
    BY <2>1, CaseworkAssumption DEF CaseRest
<1>2. caseFaults' \in 0..MaxCaseFaults
  <2>1. NoCaseFault \/ CaseFault
    BY DEF CaseworkNext, caseworkVars, OpenCase, ReadCase, WriteCase, RecordCaseDecision,
       ReadReview, PublishOverride, PatchReview, InsertPolicy, CreateVersion, ActivateVersion, UndoPolicy,
       ActivatePolicy, RequestDies, NoCaseFault
  <2> QED
    BY <2>1, CaseworkAssumption DEF CaseRest, NoCaseFault, CaseFault
<1>3. review' \in Recommendations \cup {"open"}
  <2>1. ASSUME NEW p \in People, PatchReview(p) PROVE review' \in Recommendations \cup {"open"}
    BY <2>1 DEF PatchReview, In, Resolving, ReviewInv, CaseRest
  <2>2. (\E p \in People : PatchReview(p)) \/ UNCHANGED review
    BY DEF CaseworkNext, caseworkVars, reviewVars, OpenCase, ReadCase, WriteCase, RecordCaseDecision,
       ReadReview, PublishOverride, InsertPolicy, CreateVersion, ActivateVersion, UndoPolicy,
       ActivatePolicy, RequestDies
  <2> QED
    BY <2>1, <2>2 DEF CaseRest
<1> QED
  BY <1>1, <1>2, <1>3 DEF CaseRest

\* Cases, reviews, policies and requests keep their types.
THEOREM CaseworkTypeCorrect == CaseworkSpec => []CaseworkTypeOK
<1>1. CaseworkInit => CaseRest
  BY CaseworkAssumption DEF CaseworkInit, CaseRest
<1>2. EditsInv => CaseTypes
  BY DEF EditsInv
<1>3. CaseTypes /\ ReviewInv /\ PolicyInv /\ CaseRest => CaseworkTypeOK
  <2> SUFFICES ASSUME CaseTypes, ReviewInv, PolicyInv, CaseRest PROVE CaseworkTypeOK
    OBVIOUS
  <2>1. /\ case \in CaseRows /\ asked \in CaseRows /\ changes \in Nat /\ lostUpdate \in BOOLEAN
        /\ person \in [People -> [step : CaseworkSteps, draft : CaseRows, analysed : BOOLEAN,
                                  seen : Nat, means : SUBSET CaseFields, stale : BOOLEAN,
                                  recommendation : Recommendations \cup {"none"}]]
    BY DEF CaseTypes, PersonRecord
  <2>2. overrides \in Seq(Recommendations) /\ raced \in BOOLEAN
    BY DEF ReviewInv
  <2>3. /\ policy \in [People -> {"none", "bare", "versioned", "active"}]
        /\ policyAnswer \in [People -> {"none", "ok", "error"}]
    BY DEF PolicyInv
  <2> QED
    BY <2>1, <2>2, <2>3 DEF CaseRest, CaseworkTypeOK
<1> QED
  BY <1>1, <1>2, <1>3, CaseRestNext, ReviewAlwaysInv, PolicyAlwaysInv, EditsInvInit, EditsInvNext, PTL
     DEF CaseworkSpec

-------------------------------------------------------------------------------
(* The platform queue *)

Attempts == 1..MaxPlatformAttempts
RunRecord ==
  [job : PlatformJobIds \cup {"none"}, token : Attempts \cup {0}, step : PlatformSteps \cup {"idle"}]
Requests == {"pending", "processing", "completed", "awaiting_review"}
Busy(w) == prun[w].step # "idle"

PlatformTypes ==
  /\ pjob \in [PlatformJobIds -> Job(MaxPlatformAttempts)]
  /\ batch \in [PlatformWorkers -> SUBSET (PlatformJobIds \X Attempts)]
  /\ prun \in [PlatformWorkers -> RunRecord]
  /\ \A w \in PlatformWorkers :
       IF Busy(w) THEN prun[w].job \in PlatformJobIds /\ prun[w].token \in Attempts ELSE prun[w] = Idle
  /\ request \in [PlatformJobIds -> Requests]
  /\ receipt \in [PlatformJobIds -> Nat] /\ stored \in [PlatformJobIds -> Nat]
  /\ fileRow \in [PlatformJobIds -> BOOLEAN]
  /\ scanRow \in [PlatformJobIds -> ScanSettled \cup {"queued", "processing"}]
  /\ overlapped \subseteq PlatformJobIds

\* One worker has a job that two never had, under its current token, and until its
\* work is thrown away the row stays leased.
LeaseInv(j) ==
  j \notin overlapped =>
    /\ \A w, o \in PlatformWorkers, t, u \in Attempts : HasLease(w, j, t) /\ HasLease(o, j, u) => w = o /\ t = u
    /\ \A w \in PlatformWorkers, t \in Attempts : HasLease(w, j, t) => t = pjob[j].attempt
    /\ \A w \in PlatformWorkers, t \in Attempts : <<j, t>> \in batch[w] =>
         pjob[j].status = "leased" /\ ~(Busy(w) /\ prun[w].job = j)
    /\ \A w \in PlatformWorkers : Busy(w) /\ prun[w].job = j /\ prun[w].step # "throwing" =>
         pjob[j].status = "leased"

DoneAt(j) ==
  CASE KindOf[j] = "export" -> request[j] = "completed"
    [] KindOf[j] = "erase"  -> request[j] = "awaiting_review"
    [] KindOf[j] = "purge"  -> stored[j] = 0 /\ ~fileRow[j]
    [] KindOf[j] = "scan"   -> scanRow[j] \in ScanSettled

RowInv(j) ==
  /\ KindOf[j] = "purge" /\ stored[j] # 0 => fileRow[j]
  /\ j \notin overlapped =>
       /\ pjob[j].status = "succeeded" => DoneAt(j)
       /\ KindOf[j] = "export" /\ request[j] = "completed" => stored[j] # 0 /\ receipt[j] = stored[j]

\* What an execution has done by the step it is in.
RunInv(w) ==
  Busy(w) => \A j \in PlatformJobIds, s \in PlatformSteps : prun[w].job = j /\ prun[w].step = s =>
    /\ s \in {"marked", "uploaded"} => KindOf[j] = "export"
    /\ s \in {"checked", "deleted"} => KindOf[j] = "purge"
    /\ s \in {"read", "inferring", "failing"} => KindOf[j] = "scan"
    /\ s = "deleted" => stored[j] = 0
    /\ j \notin overlapped =>
         /\ s \in {"marked", "uploaded"} => request[j] = "processing"
         /\ s = "uploaded" => stored[j] = prun[w].token
         /\ s = "handled" => DoneAt(j)

PlatformInv ==
  /\ PlatformTypes
  /\ \A j \in PlatformJobIds : LeaseInv(j) /\ RowInv(j)
  /\ \A w \in PlatformWorkers : RunInv(w)

\* Handling a job moves its worker on and changes rows of that job only.
LEMMA HandleFrame ==
  ASSUME PlatformTypes, NEW w \in PlatformWorkers, Handle(w)
  PROVE  /\ Busy(w) /\ prun[w].step # "throwing"
         /\ \E s \in PlatformSteps \ {"start"} : prun' = [prun EXCEPT ![w].step = s]
         /\ UNCHANGED queueVars
         /\ \A k \in PlatformJobIds \ {prun[w].job} :
              /\ request'[k] = request[k] /\ receipt'[k] = receipt[k] /\ stored'[k] = stored[k]
              /\ fileRow'[k] = fileRow[k] /\ scanRow'[k] = scanRow[k]
<1> USE DEF InPhase, GoesTo, Set, PlatformSteps, Busy, rowVars
<1>1. CASE MarkExport(w)
  BY <1>1 DEF MarkExport, PlatformTypes
<1>2. CASE UploadExport(w)
  BY <1>2 DEF UploadExport, PlatformTypes
<1>3. CASE RecordExport(w)
  BY <1>3 DEF RecordExport, PlatformTypes
<1>4. CASE PrepareErasure(w)
  BY <1>4 DEF PrepareErasure, PlatformTypes
<1>5. CASE CheckFile(w)
  BY <1>5 DEF CheckFile, PlatformTypes
<1>6. CASE DeleteFileObject(w)
  BY <1>6 DEF DeleteFileObject, PlatformTypes
<1>7. CASE DeleteFileRow(w)
  BY <1>7 DEF DeleteFileRow, PlatformTypes
<1>8. CASE ReadScan(w)
  BY <1>8 DEF ReadScan, PlatformTypes
<1>9. CASE MarkScanProcessing(w)
  BY <1>9 DEF MarkScanProcessing, PlatformTypes
<1>10. CASE InferAndComplete(w)
  BY <1>10 DEF InferAndComplete, PlatformTypes
<1>11. CASE FailScan(w)
  BY <1>11 DEF FailScan, PlatformTypes
<1> QED
  BY <1>1, <1>2, <1>3, <1>4, <1>5, <1>6, <1>7, <1>8, <1>9, <1>10, <1>11 DEF Handle

LEMMA HandleTyped ==
  ASSUME PlatformTypes, NEW w \in PlatformWorkers, Handle(w)
  PROVE  PlatformTypes'
<1> USE DEF PlatformTypes, Set, ScanSettled, Requests
<1>0. prun[w].token \in Nat
  BY HandleFrame DEF Attempts
<1>1. request' \in [PlatformJobIds -> Requests]
  BY DEF Handle, MarkExport, UploadExport, RecordExport, PrepareErasure, CheckFile, DeleteFileObject,
         DeleteFileRow, ReadScan, MarkScanProcessing, InferAndComplete, FailScan, rowVars
<1>2. receipt' \in [PlatformJobIds -> Nat]
  BY <1>0 DEF Handle, MarkExport, UploadExport, RecordExport, PrepareErasure, CheckFile, DeleteFileObject,
         DeleteFileRow, ReadScan, MarkScanProcessing, InferAndComplete, FailScan, rowVars
<1>3. stored' \in [PlatformJobIds -> Nat]
  BY <1>0 DEF Handle, MarkExport, UploadExport, RecordExport, PrepareErasure, CheckFile, DeleteFileObject,
         DeleteFileRow, ReadScan, MarkScanProcessing, InferAndComplete, FailScan, rowVars
<1>4. fileRow' \in [PlatformJobIds -> BOOLEAN]
  BY DEF Handle, MarkExport, UploadExport, RecordExport, PrepareErasure, CheckFile, DeleteFileObject,
         DeleteFileRow, ReadScan, MarkScanProcessing, InferAndComplete, FailScan, rowVars
<1>5. scanRow' \in [PlatformJobIds -> ScanSettled \cup {"queued", "processing"}]
  BY DEF Handle, MarkExport, UploadExport, RecordExport, PrepareErasure, CheckFile, DeleteFileObject,
         DeleteFileRow, ReadScan, MarkScanProcessing, InferAndComplete, FailScan, rowVars
<1>6. PICK s \in PlatformSteps \ {"start"} : prun' = [prun EXCEPT ![w].step = s]
  BY HandleFrame
<1>7. prun' \in [PlatformWorkers -> RunRecord]
  BY <1>6 DEF RunRecord
<1>8. /\ prun'[w].step = s /\ prun'[w].job = prun[w].job /\ prun'[w].token = prun[w].token
      /\ \A o \in PlatformWorkers \ {w} : prun'[o] = prun[o]
  BY <1>6 DEF RunRecord
<1>9. s # "idle" /\ Busy(w)
  BY HandleFrame DEF PlatformSteps
<1>10. \A o \in PlatformWorkers :
         IF Busy(o)' THEN prun'[o].job \in PlatformJobIds /\ prun'[o].token \in Attempts ELSE prun'[o] = Idle
  BY <1>8, <1>9 DEF Busy
<1>11. UNCHANGED queueVars
  BY HandleFrame
<1> HIDE DEF Set, ScanSettled, Requests
<1> QED
  BY <1>1, <1>2, <1>3, <1>4, <1>5, <1>7, <1>10, <1>11 DEF queueVars

LEMMA DoneMeans ==
  \A j \in PlatformJobIds :
    /\ KindOf[j] = "export" => (DoneAt(j)' <=> request'[j] = "completed")
    /\ KindOf[j] = "erase"  => (DoneAt(j)' <=> request'[j] = "awaiting_review")
    /\ KindOf[j] = "purge"  => (DoneAt(j)' <=> stored'[j] = 0 /\ ~fileRow'[j])
    /\ KindOf[j] = "scan"   => (DoneAt(j)' <=> scanRow'[j] \in ScanSettled)
BY DEF DoneAt

\* What a step makes of the job that w handles, with s the step it goes to.
OwnRow(w, j, s) ==
  /\ s \in {"marked", "uploaded"} => KindOf[j] = "export"
  /\ s \in {"checked", "deleted"} => KindOf[j] = "purge"
  /\ s \in {"read", "inferring", "failing"} => KindOf[j] = "scan"
  /\ s = "deleted" => stored'[j] = 0
  /\ KindOf[j] = "purge" => stored'[j] \in {stored[j], 0} /\ (stored'[j] # 0 => fileRow'[j])
  /\ j \notin overlapped =>
       /\ s \in {"marked", "uploaded"} => request'[j] = "processing"
       /\ s = "uploaded" => stored'[j] = prun[w].token
       /\ s = "handled" => DoneAt(j)'
       /\ KindOf[j] = "export" /\ request'[j] = "completed" => stored'[j] # 0 /\ receipt'[j] = stored'[j]

LEMMA HandleOwn ==
  ASSUME PlatformInv, NEW w \in PlatformWorkers, Handle(w),
         NEW j \in PlatformJobIds, j = prun[w].job, NEW s, prun'[w].step = s
  PROVE  OwnRow(w, j, s)
<1>0. /\ PlatformTypes /\ Busy(w) /\ j \in PlatformJobIds /\ prun[w].token \in Nat \ {0}
      /\ RowInv(j) /\ RunInv(w) /\ prun[w].step \in PlatformSteps
  BY HandleFrame DEF RunRecord, Busy, PlatformInv, PlatformTypes, Attempts
<1>1. \A step : prun' = [prun EXCEPT ![w].step = step] => s = step
  BY <1>0 DEF PlatformTypes, RunRecord
<1>2. CASE MarkExport(w)
  <2>1. /\ KindOf[j] = "export"
        /\ \/ s = "marked" /\ request'[j] = "processing"
           \/ s = "throwing" /\ request'[j] \in {request[j], "processing"}
        /\ stored'[j] = stored[j] /\ receipt'[j] = receipt[j]
    BY <1>0, <1>1, <1>2 DEF MarkExport, InPhase, Of, Set, GoesTo, PlatformTypes, rowVars
  <2> QED
    BY <1>0, <2>1, DoneMeans DEF OwnRow, RowInv, RunInv
<1>3. CASE UploadExport(w)
  <2>1. /\ KindOf[j] = "export" /\ prun[w].step = "marked"
        /\ \/ s = "uploaded" /\ stored'[j] = prun[w].token
           \/ s = "throwing" 
        /\ request'[j] = request[j] /\ receipt'[j] = receipt[j]
    BY <1>0, <1>1, <1>3 DEF UploadExport, InPhase, Of, Set, GoesTo, PlatformTypes, rowVars
  <2> QED
    BY <1>0, <2>1, DoneMeans DEF OwnRow, RowInv, RunInv
<1>4. CASE RecordExport(w)
  <2>1. /\ KindOf[j] = "export" /\ prun[w].step = "uploaded"
        /\ \/ s \in {"handled", "throwing"} /\ request'[j] = "completed" /\ receipt'[j] = prun[w].token
           \/ s = "throwing" /\ UNCHANGED <<request, receipt>>
        /\ stored'[j] = stored[j]
    BY <1>0, <1>1, <1>4 DEF RecordExport, InPhase, Of, Set, GoesTo, PlatformTypes, rowVars
  <2> QED
    BY <1>0, <2>1, DoneMeans DEF OwnRow, RowInv, RunInv
<1>5. CASE PrepareErasure(w)
  <2>1. /\ KindOf[j] = "erase"
        /\ \/ s = "handled" /\ request'[j] = "awaiting_review"
           \/ s = "throwing"
    BY <1>0, <1>1, <1>5 DEF PrepareErasure, InPhase, Of, Set, GoesTo, PlatformTypes, rowVars
  <2> QED
    BY <1>0, <2>1, DoneMeans DEF OwnRow, RowInv, RunInv
<1>6. CASE CheckFile(w)
  <2>1. /\ KindOf[j] = "purge" /\ stored'[j] = stored[j] /\ fileRow'[j] = fileRow[j]
        /\ \/ s = "handled" /\ ~fileRow[j]
           \/ s \in {"checked", "throwing"}
    BY <1>0, <1>1, <1>6 DEF CheckFile, InPhase, Of, Set, GoesTo, PlatformTypes, rowVars
  <2> QED
    BY <1>0, <2>1, DoneMeans DEF OwnRow, RowInv, RunInv
<1>7. CASE DeleteFileObject(w)
  <2>1. /\ KindOf[j] = "purge" /\ fileRow'[j] = fileRow[j]
        /\ \/ s = "deleted" /\ stored'[j] = 0
           \/ s = "throwing" /\ stored'[j] \in {stored[j], 0}
    BY <1>0, <1>1, <1>7 DEF DeleteFileObject, InPhase, Of, Set, GoesTo, PlatformTypes, rowVars
  <2> QED
    BY <1>0, <2>1, DoneMeans DEF OwnRow, RowInv, RunInv
<1>8. CASE DeleteFileRow(w)
  <2>1. /\ KindOf[j] = "purge" /\ prun[w].step = "deleted" /\ stored'[j] = stored[j]
        /\ \/ s = "handled" /\ ~fileRow'[j]
           \/ s = "throwing"
    BY <1>0, <1>1, <1>8 DEF DeleteFileRow, InPhase, Of, Set, GoesTo, PlatformTypes, rowVars
  <2> QED
    BY <1>0, <2>1, DoneMeans DEF OwnRow, RowInv, RunInv
<1>9. CASE ReadScan(w)
  <2>1. /\ KindOf[j] = "scan"
        /\ \/ s = "handled" /\ scanRow'[j] \in ScanSettled
           \/ s \in {"read", "throwing"}
    BY <1>0, <1>1, <1>9 DEF ReadScan, InPhase, Of, Set, GoesTo, PlatformTypes, rowVars
  <2> QED
    BY <1>0, <2>1, DoneMeans DEF OwnRow, RowInv, RunInv
<1>10. CASE MarkScanProcessing(w)
  <2>1. /\ KindOf[j] = "scan"
        /\ s \in {"inferring", "throwing"}
    BY <1>0, <1>1, <1>10 DEF MarkScanProcessing, InPhase, Of, Set, GoesTo, PlatformTypes, rowVars
  <2> QED
    BY <1>0, <2>1, DoneMeans DEF OwnRow, RowInv, RunInv
<1>11. CASE InferAndComplete(w)
  <2>1. /\ KindOf[j] = "scan"
        /\ \/ s = "handled" /\ scanRow'[j] = "completed"
           \/ s = "failing"
        /\ "completed" \in ScanSettled
    BY <1>0, <1>1, <1>11 DEF ScanSettled, InferAndComplete, InPhase, Of, Set, GoesTo, PlatformTypes, rowVars
  <2> QED
    BY <1>0, <2>1, DoneMeans DEF OwnRow, RowInv, RunInv
<1>12. CASE FailScan(w)
  <2>1. /\ KindOf[j] = "scan"
        /\ s = "throwing"
    BY <1>0, <1>1, <1>12 DEF FailScan, InPhase, Of, Set, GoesTo, PlatformTypes, rowVars
  <2> QED
    BY <1>0, <2>1, DoneMeans DEF OwnRow, RowInv, RunInv
<1> QED
  BY <1>2, <1>3, <1>4, <1>5, <1>6, <1>7, <1>8, <1>9, <1>10, <1>11, <1>12 DEF Handle

LEMMA HandleKeeps ==
  ASSUME PlatformInv, NEW w \in PlatformWorkers, Handle(w)
  PROVE  PlatformInv'
<1>a. PICK j : j = prun[w].job
  OBVIOUS
<1>b. PICK s : s = prun'[w].step
  OBVIOUS
<1>0. /\ PlatformTypes /\ PlatformTypes' /\ j \in PlatformJobIds
      /\ Busy(w) /\ prun[w].step # "throwing" /\ Busy(w)'
  BY <1>a, HandleTyped, HandleFrame DEF PlatformInv, PlatformTypes, PlatformSteps, RunRecord, Busy
<1>1. /\ prun'[w].job = j /\ prun'[w].token = prun[w].token
      /\ \A o \in PlatformWorkers \ {w} : prun'[o] = prun[o]
  BY <1>a, <1>0, HandleFrame DEF PlatformTypes, RunRecord
<1>2. /\ pjob' = pjob /\ batch' = batch /\ overlapped' = overlapped
  BY <1>0, HandleFrame DEF queueVars
<1>3. \A k \in PlatformJobIds \ {j} :
        /\ request'[k] = request[k] /\ receipt'[k] = receipt[k] /\ stored'[k] = stored[k]
        /\ fileRow'[k] = fileRow[k] /\ scanRow'[k] = scanRow[k]
  BY <1>a, <1>0, HandleFrame
<1>4. OwnRow(w, j, s)
  BY <1>a, <1>b, <1>0, HandleOwn
<1>5. ASSUME NEW k \in PlatformJobIds PROVE LeaseInv(k)'
  <2>1. \A o \in PlatformWorkers, t \in Attempts : HasLease(o, k, t)' <=> HasLease(o, k, t)
    BY <1>a, <1>1, <1>2 DEF HasLease
  <2>2. \A o \in PlatformWorkers : Busy(o)' <=> Busy(o)
    BY <1>0, <1>1 DEF Busy
  <2>3. \A o \in PlatformWorkers : prun'[o].job = prun[o].job
    BY <1>a, <1>1
  <2>4. \A o \in PlatformWorkers : prun[o].step = "throwing" => prun'[o].step = "throwing"
    BY <1>a, <1>0, <1>1
  <2>5. LeaseInv(k)
    BY DEF PlatformInv
  <2> QED
    BY <1>2, <2>1, <2>2, <2>3, <2>4, <2>5 DEF LeaseInv
<1>6. j \notin overlapped =>
        /\ pjob[j].status = "leased"
        /\ \A o \in PlatformWorkers \ {w} : ~(Busy(o) /\ prun[o].job = j)
  <2>1. LeaseInv(j)
    BY <1>0 DEF PlatformInv
  <2>2. \A o \in PlatformWorkers : Busy(o) /\ prun[o].job = j =>
          prun[o].token \in Attempts /\ HasLease(o, j, prun[o].token)
    BY <1>0 DEF PlatformTypes, HasLease
  <2> QED
    BY <1>a, <1>0, <2>1, <2>2 DEF LeaseInv
<1>7. ASSUME NEW k \in PlatformJobIds PROVE RowInv(k)'
  <2>1. CASE k # j
    <3>1. RowInv(k)
      BY DEF PlatformInv
    <3> QED
      BY <1>2, <1>3, <2>1, <3>1 DEF RowInv, DoneAt
  <2>2. CASE k = j
    BY <1>2, <1>4, <1>6, <2>2 DEF RowInv, OwnRow
  <2> QED
    BY <2>1, <2>2
<1>8. ASSUME NEW o \in PlatformWorkers PROVE RunInv(o)'
  <2>0. RunInv(o)
    BY DEF PlatformInv
  <2>1. CASE o = w
    BY <1>b, <1>1, <1>2, <1>4, <2>1 DEF RunInv, OwnRow
  <2>2. CASE o # w /\ prun[o].job # j /\ Busy(o)
    <3>1. prun[o].job \in PlatformJobIds /\ prun'[o] = prun[o]
      BY <1>0, <1>1, <2>2 DEF PlatformTypes
    <3>2. PICK k \in PlatformJobIds : k = prun[o].job
      BY <3>1
    <3>3. k # j
      BY <2>2, <3>2
    <3>4. stored'[k] = stored[k] /\ request'[k] = request[k] /\ (DoneAt(k)' <=> DoneAt(k))
      BY <1>3, <3>3 DEF DoneAt
    <3> QED
      BY <1>2, <2>0, <2>2, <3>1, <3>2, <3>4 DEF RunInv
  <2>3. CASE o # w /\ prun[o].job = j /\ Busy(o)
    <3>1. j \in overlapped /\ prun'[o] = prun[o]
      BY <1>1, <1>6, <2>3
    <3> QED
      BY <1>2, <1>4, <2>0, <2>3, <3>1 DEF RunInv, OwnRow
  <2>4. CASE o # w /\ ~Busy(o)
    BY <1>1, <2>4 DEF RunInv, Busy
  <2> QED
    BY <2>1, <2>2, <2>3, <2>4
<1> QED
  BY <1>0, <1>5, <1>7, <1>8 DEF PlatformInv

\* The operations on a row of the queue.
LEMMA JobsTyped ==
  ASSUME NEW job \in Job(MaxPlatformAttempts)
  PROVE  /\ Succeed(job) \in Job(MaxPlatformAttempts) /\ Expire(job) \in Job(MaxPlatformAttempts)
         /\ Fail(job, MaxPlatformAttempts) \in Job(MaxPlatformAttempts)
         /\ Claimable(job, MaxPlatformAttempts) =>
              /\ Claim(job) \in Job(MaxPlatformAttempts) /\ job.attempt + 1 \in Attempts
              /\ Claim(job).attempt = job.attempt + 1 /\ Claim(job).status = "leased"
         /\ Succeed(job).attempt = job.attempt /\ Expire(job).attempt = job.attempt
         /\ Succeed(job).status = "succeeded" /\ Expire(job).status = job.status
         /\ Fail(job, MaxPlatformAttempts).attempt = job.attempt
         /\ Fail(job, MaxPlatformAttempts).status # "succeeded"
<1> USE PlatformAssumption DEF Job, JobStatuses, Attempts
<1>1. /\ Succeed(job) \in Job(MaxPlatformAttempts) /\ Succeed(job).attempt = job.attempt
      /\ Succeed(job).status = "succeeded"
  BY DEF Succeed
<1>2. /\ Expire(job) \in Job(MaxPlatformAttempts) /\ Expire(job).attempt = job.attempt
      /\ Expire(job).status = job.status
  BY DEF Expire
<1>3. /\ Fail(job, MaxPlatformAttempts) \in Job(MaxPlatformAttempts)
      /\ Fail(job, MaxPlatformAttempts).attempt = job.attempt
      /\ Fail(job, MaxPlatformAttempts).status # "succeeded"
  BY DEF Fail
<1>4. ASSUME Claimable(job, MaxPlatformAttempts)
      PROVE  /\ Claim(job) \in Job(MaxPlatformAttempts) /\ job.attempt + 1 \in Attempts
             /\ Claim(job).attempt = job.attempt + 1 /\ Claim(job).status = "leased"
  <2>1. job.attempt \in 0..MaxPlatformAttempts /\ job.attempt < MaxPlatformAttempts
    BY <1>4 DEF Claimable
  <2>2. job.attempt + 1 \in 1..MaxPlatformAttempts
    BY <2>1
  <2> QED
    BY <2>2 DEF Claim
<1> QED
  BY <1>1, <1>2, <1>3, <1>4

DataRows == <<request, receipt, stored, fileRow, scanRow>>

\* A step of the queue changes no row: leases and the end of jobs are all there is.
LEMMA QueueKeeps ==
  ASSUME PlatformInv, PlatformTypes', UNCHANGED DataRows, overlapped \subseteq overlapped',
         \A j \in PlatformJobIds : LeaseInv(j)',
         \A j \in PlatformJobIds : j \notin overlapped' /\ pjob'[j].status = "succeeded" =>
           pjob[j].status = "succeeded" \/ DoneAt(j),
         \A w \in PlatformWorkers : prun'[w] = prun[w] \/ prun'[w].step \in {"idle", "start", "throwing"}
  PROVE  PlatformInv'
<1>1. \A j \in PlatformJobIds : DoneAt(j)' <=> DoneAt(j)
  BY DEF DoneAt, DataRows
<1>2. \A j \in PlatformJobIds : RowInv(j)'
  BY <1>1 DEF PlatformInv, RowInv, DataRows
<1>3. ASSUME NEW w \in PlatformWorkers PROVE RunInv(w)'
  <2>1. RunInv(w)
    BY DEF PlatformInv
  <2>2. CASE prun'[w] = prun[w]
    BY <1>1, <2>1, <2>2 DEF RunInv, Busy, DataRows
  <2>3. CASE prun'[w].step \in {"idle", "start", "throwing"}
    BY <2>3 DEF RunInv, Busy
  <2> QED
    BY <2>2, <2>3
<1> QED
  BY <1>2, <1>3 DEF PlatformInv

\* Leases that nobody gains, of a row whose lease is as it was, stay in order.
LEMMA LeaseShrinks ==
  ASSUME NEW j \in PlatformJobIds, LeaseInv(j), overlapped' = overlapped,
         \A w \in PlatformWorkers, t \in Attempts : <<j, t>> \in batch'[w] => <<j, t>> \in batch[w],
         \A w \in PlatformWorkers : Busy(w)' /\ prun'[w].job = j =>
           /\ Busy(w) /\ prun[w].job = j /\ prun[w].token = prun'[w].token
           /\ prun[w].step = "throwing" => prun'[w].step = "throwing",
         PlatformTypes, PlatformTypes',
         pjob'[j].attempt = pjob[j].attempt,
         pjob[j].status = "leased" => pjob'[j].status = "leased" \/
           \A w \in PlatformWorkers :
             /\ \A t \in Attempts : <<j, t>> \notin batch'[w]
             /\ Busy(w)' /\ prun'[w].job = j => prun'[w].step = "throwing"
  PROVE  LeaseInv(j)'
<1>1. \A w \in PlatformWorkers, t \in Attempts : HasLease(w, j, t)' => HasLease(w, j, t)
  <2> SUFFICES ASSUME NEW w \in PlatformWorkers, NEW t \in Attempts, HasLease(w, j, t)' PROVE HasLease(w, j, t)
    OBVIOUS
  <2>1. CASE <<j, t>> \in batch'[w]
    BY <2>1 DEF HasLease
  <2>2. CASE prun'[w].job = j /\ prun'[w].token = t
    <3>1. Busy(w)'
      BY <2>2 DEF PlatformTypes, Attempts, Idle
    <3> QED
      BY <2>2, <3>1 DEF HasLease
  <2> QED
    BY <2>1, <2>2 DEF HasLease
<1> QED
  BY <1>1 DEF LeaseInv

LEMMA BeginKeeps == ASSUME PlatformInv, NEW w \in PlatformWorkers, BeginJob(w) PROVE PlatformInv'
<1>0. PlatformTypes
  BY DEF PlatformInv
<1>1. PICK k \in PlatformJobIds, u \in Attempts :
        /\ <<k, u>> \in batch[w]
        /\ batch' = [batch EXCEPT ![w] = @ \ {<<k, u>>}]
        /\ prun' = [prun EXCEPT ![w] = [job |-> k, token |-> u, step |-> "start"]]
  <2>1. PICK claim \in batch[w] :
          /\ batch' = [batch EXCEPT ![w] = @ \ {claim}]
          /\ prun' = [prun EXCEPT ![w] = [job |-> claim[1], token |-> claim[2], step |-> "start"]]
    BY DEF BeginJob
  <2>2. PICK k \in PlatformJobIds, u \in Attempts : claim = <<k, u>>
    BY <1>0, <2>1 DEF PlatformTypes
  <2> QED
    BY <2>1, <2>2
<1>2. /\ batch'[w] = batch[w] \ {<<k, u>>} /\ \A o \in PlatformWorkers \ {w} : batch'[o] = batch[o]
      /\ prun'[w].job = k /\ prun'[w].token = u /\ prun'[w].step = "start" /\ Busy(w)'
      /\ \A o \in PlatformWorkers \ {w} : prun'[o] = prun[o]
      /\ prun[w] = Idle /\ ~Busy(w)
      /\ UNCHANGED <<pjob, overlapped, rowVars>>
  <2>1. /\ batch'[w] = batch[w] \ {<<k, u>>} /\ \A o \in PlatformWorkers \ {w} : batch'[o] = batch[o]
    BY <1>0, <1>1 DEF PlatformTypes
  <2>2. /\ prun'[w] = [job |-> k, token |-> u, step |-> "start"]
        /\ \A o \in PlatformWorkers \ {w} : prun'[o] = prun[o]
    BY <1>0, <1>1 DEF PlatformTypes
  <2>3. prun'[w].job = k /\ prun'[w].token = u /\ prun'[w].step = "start" /\ Busy(w)'
    BY <2>2 DEF Busy
  <2>4. prun[w] = Idle /\ UNCHANGED <<pjob, overlapped, rowVars>>
    BY DEF BeginJob
  <2>5. ~Busy(w)
    BY <2>4 DEF Busy, Idle
  <2> QED
    BY <2>1, <2>2, <2>3, <2>4, <2>5
<1>3. PlatformTypes'
  <2>1. batch' \in [PlatformWorkers -> SUBSET (PlatformJobIds \X Attempts)]
    BY <1>0, <1>1 DEF PlatformTypes
  <2>2. prun' \in [PlatformWorkers -> RunRecord]
    BY <1>0, <1>1 DEF PlatformTypes, RunRecord, PlatformSteps
  <2>3. \A o \in PlatformWorkers :
          IF Busy(o)' THEN prun'[o].job \in PlatformJobIds /\ prun'[o].token \in Attempts ELSE prun'[o] = Idle
    BY <1>0, <1>2 DEF PlatformTypes, Busy
  <2> QED
    BY <1>0, <1>2, <2>1, <2>2, <2>3 DEF PlatformTypes, rowVars
<1>4. ASSUME NEW j \in PlatformJobIds PROVE LeaseInv(j)'
  <2>0. LeaseInv(j)
    BY DEF PlatformInv
  <2>1. CASE j # k
    <3>1. \A o \in PlatformWorkers, t \in Attempts : <<j, t>> \in batch'[o] => <<j, t>> \in batch[o]
      BY <1>2
    <3>2. \A o \in PlatformWorkers : Busy(o)' /\ prun'[o].job = j =>
            prun'[o] = prun[o] /\ Busy(o) /\ prun[o].job = j
      BY <1>2, <2>1 DEF Busy
    <3> QED
      <4>1. \A o \in PlatformWorkers : Busy(o)' /\ prun'[o].job = j =>
              /\ Busy(o) /\ prun[o].job = j /\ prun[o].token = prun'[o].token
              /\ prun[o].step = "throwing" => prun'[o].step = "throwing"
        BY <3>2
      <4>2. /\ overlapped' = overlapped /\ pjob'[j].attempt = pjob[j].attempt
            /\ pjob[j].status = "leased" => pjob'[j].status = "leased"
        BY <1>2
      <4> QED
        BY <1>0, <1>3, <2>0, <3>1, <4>1, <4>2, LeaseShrinks
  <2>2. CASE j = k
    <3>1. \A o \in PlatformWorkers, t \in Attempts : HasLease(o, k, t)' => HasLease(o, k, t)
      BY <1>1, <1>2 DEF HasLease
    <3>2. HasLease(w, k, u)
      BY <1>1 DEF HasLease
    <3>3. k \notin overlapped =>
            /\ \A o \in PlatformWorkers, t \in Attempts : HasLease(o, k, t) => o = w /\ t = u
            /\ pjob[k].status = "leased"
      BY <1>1, <2>0, <2>2, <3>2 DEF LeaseInv
    <3>5. k \notin overlapped => \A o \in PlatformWorkers, t \in Attempts : <<k, t>> \notin batch'[o]
      BY <1>2, <3>3 DEF HasLease
    <3>6. k \notin overlapped => pjob'[k] = pjob[k] /\ u = pjob[k].attempt
      BY <1>2, <2>0, <2>2, <3>2 DEF LeaseInv
    <3>7. ASSUME k \notin overlapped'
          PROVE  /\ \A a, o \in PlatformWorkers, t, v \in Attempts :
                      HasLease(a, k, t)' /\ HasLease(o, k, v)' => a = o /\ t = v
                 /\ \A o \in PlatformWorkers, t \in Attempts : HasLease(o, k, t)' => t = pjob'[k].attempt
      BY <1>2, <3>1, <3>3, <3>6, <3>7
    <3>8. ASSUME k \notin overlapped'
          PROVE  /\ \A o \in PlatformWorkers, t \in Attempts : <<k, t>> \notin batch'[o]
                 /\ pjob'[k].status = "leased"
      BY <1>2, <3>3, <3>5, <3>6, <3>8
    <3> QED
      BY <2>2, <3>7, <3>8 DEF LeaseInv
  <2> QED
    BY <2>1, <2>2
<1>5. \A o \in PlatformWorkers : prun'[o] = prun[o] \/ prun'[o].step \in {"idle", "start", "throwing"}
  BY <1>2
<1> QED
  BY <1>2, <1>3, <1>4, <1>5, QueueKeeps DEF rowVars, DataRows

LEMMA ClaimKeeps == ASSUME PlatformInv, NEW w \in PlatformWorkers, ClaimBatch(w) PROVE PlatformInv'
<1>0. PlatformTypes /\ prun[w] = Idle /\ batch[w] = {} /\ ~Busy(w)
  BY DEF PlatformInv, ClaimBatch, Busy, Idle
<1>1. PICK jobs \in SUBSET PlatformJobIds :
        /\ \A j \in jobs : Claimable(pjob[j], MaxPlatformAttempts)
        /\ pjob' = [j \in PlatformJobIds |-> IF j \in jobs THEN Claim(pjob[j]) ELSE pjob[j]]
        /\ batch' = [batch EXCEPT ![w] = {<<j, pjob[j].attempt + 1>> : j \in jobs}]
        /\ overlapped' = overlapped \cup {j \in jobs : \E o \in PlatformWorkers : Has(o, j)}
  BY DEF ClaimBatch
<1>2. UNCHANGED <<prun, rowVars>>
  BY DEF ClaimBatch
<1>3. \A j \in jobs : /\ pjob'[j] \in Job(MaxPlatformAttempts) /\ pjob[j].attempt + 1 \in Attempts
                      /\ pjob'[j].attempt = pjob[j].attempt + 1 /\ pjob'[j].status = "leased"
  BY <1>0, <1>1, JobsTyped DEF PlatformTypes
<1>4. /\ \A j \in PlatformJobIds, t \in Attempts : <<j, t>> \in batch'[w] <=> j \in jobs /\ t = pjob[j].attempt + 1
      /\ \A o \in PlatformWorkers \ {w} : batch'[o] = batch[o]
      /\ batch'[w] \subseteq PlatformJobIds \X Attempts
  <2>1. batch'[w] = {<<j, pjob[j].attempt + 1>> : j \in jobs} /\ \A o \in PlatformWorkers \ {w} : batch'[o] = batch[o]
    BY <1>0, <1>1 DEF PlatformTypes
  <2> QED
    BY <1>3, <2>1
<1>5. PlatformTypes'
  <2>1. batch' \in [PlatformWorkers -> SUBSET (PlatformJobIds \X Attempts)]
    BY <1>0, <1>1, <1>4 DEF PlatformTypes
  <2>2. pjob' \in [PlatformJobIds -> Job(MaxPlatformAttempts)]
    BY <1>0, <1>1, <1>3 DEF PlatformTypes
  <2>3. overlapped' \subseteq PlatformJobIds
    BY <1>0, <1>1 DEF PlatformTypes
  <2> QED
    BY <1>0, <1>2, <2>1, <2>2, <2>3 DEF PlatformTypes, rowVars, Busy
<1>6. ASSUME NEW j \in PlatformJobIds PROVE LeaseInv(j)'
  <2>0. LeaseInv(j)
    BY DEF PlatformInv
  <2>1. CASE j \notin jobs
    <3>1. /\ pjob'[j] = pjob[j] /\ (j \in overlapped' <=> j \in overlapped)
          /\ \A o \in PlatformWorkers, t \in Attempts : <<j, t>> \in batch'[o] <=> <<j, t>> \in batch[o]
      BY <1>0, <1>1, <1>4, <2>1
    <3>2. \A o \in PlatformWorkers, t \in Attempts : HasLease(o, j, t)' <=> HasLease(o, j, t)
      BY <1>2, <3>1 DEF HasLease
    <3> QED
      BY <1>2, <2>0, <3>1, <3>2 DEF LeaseInv, Busy
  <2>2. CASE j \in jobs
    <3> SUFFICES ASSUME j \notin overlapped' PROVE LeaseInv(j)'
      BY DEF LeaseInv
    <3>1. \A o \in PlatformWorkers, t \in Attempts : ~HasLease(o, j, t)
      BY <1>1, <2>2 DEF Has, Attempts
    <3>2. \A o \in PlatformWorkers, t \in Attempts : HasLease(o, j, t)' => o = w /\ t = pjob'[j].attempt
      BY <1>2, <1>3, <1>4, <2>2, <3>1 DEF HasLease
    <3>3. \A o \in PlatformWorkers : ~(Busy(o)' /\ prun'[o].job = j)
      BY <1>0, <1>2, <3>1 DEF HasLease, PlatformTypes, Busy
    <3> QED
      BY <1>3, <2>2, <3>2, <3>3 DEF LeaseInv
  <2> QED
    BY <2>1, <2>2
<1>7. \A j \in PlatformJobIds : pjob'[j].status = "succeeded" => pjob[j].status = "succeeded"
  BY <1>1, <1>3
<1> QED
  BY <1>1, <1>2, <1>5, <1>6, <1>7, QueueKeeps DEF rowVars, DataRows

LEMMA RunsOutKeeps == ASSUME PlatformInv, NEW k \in PlatformJobIds, LeaseRunsOut(k) PROVE PlatformInv'
<1>0. PlatformTypes
  BY DEF PlatformInv
<1>1. /\ pjob' = [pjob EXCEPT ![k] = Expire(pjob[k])]
      /\ UNCHANGED <<batch, overlapped, prun, rowVars>>
  BY DEF LeaseRunsOut
<1>2. /\ pjob' \in [PlatformJobIds -> Job(MaxPlatformAttempts)]
      /\ \A j \in PlatformJobIds : pjob'[j].attempt = pjob[j].attempt /\ pjob'[j].status = pjob[j].status
  BY <1>0, <1>1, JobsTyped DEF PlatformTypes
<1>3. PlatformTypes'
  BY <1>0, <1>1, <1>2 DEF PlatformTypes, rowVars, Busy
<1>4. \A j \in PlatformJobIds : LeaseInv(j)'
  BY <1>1, <1>2 DEF PlatformInv, LeaseInv, HasLease, Busy
<1> QED
  BY <1>1, <1>2, <1>3, <1>4, QueueKeeps DEF rowVars, DataRows

\* The row of the job that w ends, and w itself; nobody else is concerned.
LEMMA EndKeeps ==
  ASSUME PlatformInv, NEW w \in PlatformWorkers, Busy(w), NEW k \in PlatformJobIds, k = prun[w].job,
         NEW after \in Job(MaxPlatformAttempts), NEW run \in {Idle, [prun[w] EXCEPT !.step = "throwing"]},
         pjob' = [pjob EXCEPT ![k] = after], prun' = [prun EXCEPT ![w] = run],
         UNCHANGED <<batch, overlapped, rowVars>>,
         after.attempt = pjob[k].attempt,
         after.status = "succeeded" => pjob[k].status = "succeeded" \/ k \in overlapped \/ DoneAt(k)
  PROVE  PlatformInv'
<1>0. PlatformTypes /\ LeaseInv(k)
  BY DEF PlatformInv
<1>1. /\ \A o \in PlatformWorkers \ {w} : prun'[o] = prun[o]
      /\ prun'[w] = run /\ run \in RunRecord
      /\ \/ run = Idle /\ ~Busy(w)'
         \/ run.step = "throwing" /\ run.job = k /\ run.token = prun[w].token /\ Busy(w)'
  <2>1. prun'[w] = run /\ \A o \in PlatformWorkers \ {w} : prun'[o] = prun[o]
    BY <1>0 DEF PlatformTypes
  <2>2. CASE run = Idle
    BY <2>1, <2>2 DEF RunRecord, Idle, Busy
  <2>3. CASE run = [prun[w] EXCEPT !.step = "throwing"]
    <3>1. /\ run \in RunRecord /\ run.step = "throwing" /\ run.job = k /\ run.token = prun[w].token
      BY <1>0, <2>3 DEF RunRecord, PlatformTypes, PlatformSteps
    <3> QED
      BY <2>1, <3>1 DEF Busy
  <2> QED
    BY <2>1, <2>2, <2>3
<1>2. /\ pjob' \in [PlatformJobIds -> Job(MaxPlatformAttempts)] /\ pjob'[k] = after
      /\ \A j \in PlatformJobIds \ {k} : pjob'[j] = pjob[j]
  BY <1>0 DEF PlatformTypes
<1>3. PlatformTypes'
  <2>1. prun' \in [PlatformWorkers -> RunRecord]
    BY <1>0, <1>1 DEF PlatformTypes
  <2>2. \A o \in PlatformWorkers :
          IF Busy(o)' THEN prun'[o].job \in PlatformJobIds /\ prun'[o].token \in Attempts ELSE prun'[o] = Idle
    BY <1>0, <1>1 DEF PlatformTypes, Busy
  <2> QED
    BY <1>0, <1>2, <2>1, <2>2 DEF PlatformTypes, rowVars
<1>4. ASSUME NEW j \in PlatformJobIds PROVE LeaseInv(j)'
  <2>0. LeaseInv(j)
    BY DEF PlatformInv
  <2>1. \A o \in PlatformWorkers, t \in Attempts : <<j, t>> \in batch'[o] => <<j, t>> \in batch[o]
    OBVIOUS
  <2>2. \A o \in PlatformWorkers : Busy(o)' /\ prun'[o].job = j =>
          /\ Busy(o) /\ prun[o].job = j /\ prun[o].token = prun'[o].token
          /\ prun[o].step = "throwing" => prun'[o].step = "throwing"
    BY <1>1 DEF Busy
  <2>3. CASE j # k
    BY <1>0, <1>2, <1>3, <2>0, <2>1, <2>2, <2>3, LeaseShrinks
  <2>4. CASE j = k
    <3> SUFFICES ASSUME k \notin overlapped PROVE LeaseInv(j)'
      BY <2>4 DEF LeaseInv
    <3>1. prun[w].token \in Attempts /\ HasLease(w, k, prun[w].token)
      BY <1>0 DEF PlatformTypes, HasLease
    <3>2. \A o \in PlatformWorkers, t \in Attempts : <<k, t>> \notin batch'[o]
      BY <1>0, <3>1 DEF LeaseInv, HasLease
    <3>3. \A o \in PlatformWorkers \ {w} : ~(Busy(o) /\ prun[o].job = k)
      BY <1>0, <3>1 DEF LeaseInv, HasLease, PlatformTypes
    <3>4. \A o \in PlatformWorkers : Busy(o)' /\ prun'[o].job = k => prun'[o].step = "throwing"
      BY <1>1, <3>3 DEF Busy
    <3> QED
      BY <1>0, <1>2, <1>3, <2>0, <2>1, <2>2, <2>4, <3>2, <3>4, LeaseShrinks
  <2> QED
    BY <2>3, <2>4
<1>5. \A j \in PlatformJobIds : j \notin overlapped' /\ pjob'[j].status = "succeeded" =>
           pjob[j].status = "succeeded" \/ DoneAt(j)
  BY <1>2
<1>6. \A o \in PlatformWorkers : prun'[o] = prun[o] \/ prun'[o].step \in {"idle", "start", "throwing"}
  BY <1>1 DEF Idle
<1> QED
  BY <1>3, <1>4, <1>5, <1>6, QueueKeeps DEF rowVars, DataRows

LEMMA CompleteKeeps == ASSUME PlatformInv, NEW w \in PlatformWorkers, CompletePlatformJob(w) PROVE PlatformInv'
<1>0. PlatformTypes /\ Busy(w) /\ RunInv(w) /\ prun[w].step = "handled"
  BY DEF PlatformInv, CompletePlatformJob, Busy
<1>1. PICK k \in PlatformJobIds : k = prun[w].job
  BY <1>0 DEF PlatformTypes
<1>2. k \notin overlapped => DoneAt(k)
  BY <1>0, <1>1 DEF RunInv, PlatformSteps
<1>3. pjob[k] \in Job(MaxPlatformAttempts)
  BY <1>0 DEF PlatformTypes
<1>4. PICK after \in {pjob[k], Succeed(pjob[k])} : pjob' = [pjob EXCEPT ![k] = after]
  BY <1>0, <1>1 DEF CompletePlatformJob, PlatformTypes
<1>5. PICK run \in {Idle, [prun[w] EXCEPT !.step = "throwing"]} : prun' = [prun EXCEPT ![w] = run]
  BY <1>0 DEF CompletePlatformJob, GoesTo, PlatformTypes
<1>6. after \in Job(MaxPlatformAttempts) /\ after.attempt = pjob[k].attempt
  BY <1>3, JobsTyped
<1>7. after.status = "succeeded" => pjob[k].status = "succeeded" \/ k \in overlapped \/ DoneAt(k)
  BY <1>2
<1>8. UNCHANGED <<batch, overlapped, rowVars>>
  BY DEF CompletePlatformJob
<1> QED
  BY <1>0, <1>1, <1>4, <1>5, <1>6, <1>7, <1>8, EndKeeps

LEMMA FailKeeps == ASSUME PlatformInv, NEW w \in PlatformWorkers, FailPlatformJob(w) PROVE PlatformInv'
<1>0. PlatformTypes /\ Busy(w)
  BY DEF PlatformInv, FailPlatformJob, Busy
<1>1. PICK k \in PlatformJobIds : k = prun[w].job
  BY <1>0 DEF PlatformTypes
<1>3. pjob[k] \in Job(MaxPlatformAttempts)
  BY <1>0 DEF PlatformTypes
<1>4. PICK after \in {pjob[k], Fail(pjob[k], MaxPlatformAttempts)} : pjob' = [pjob EXCEPT ![k] = after]
  BY <1>0, <1>1 DEF FailPlatformJob, FailHeld, PlatformTypes
<1>6. /\ after \in Job(MaxPlatformAttempts) /\ after.attempt = pjob[k].attempt
      /\ after.status = "succeeded" => pjob[k].status = "succeeded"
  BY <1>3, JobsTyped
<1>7. prun' = [prun EXCEPT ![w] = Idle] /\ UNCHANGED <<batch, overlapped, rowVars>>
  BY DEF FailPlatformJob
<1> QED
  BY <1>0, <1>1, <1>4, <1>6, <1>7, EndKeeps

LEMMA DiesKeeps == ASSUME PlatformInv, NEW w \in PlatformWorkers, PlatformWorkerDies(w) PROVE PlatformInv'
<1>0. PlatformTypes
  BY DEF PlatformInv
<1>1. /\ prun'[w] = Idle /\ ~Busy(w)' /\ \A o \in PlatformWorkers \ {w} : prun'[o] = prun[o]
      /\ batch'[w] = {} /\ \A o \in PlatformWorkers \ {w} : batch'[o] = batch[o]
      /\ UNCHANGED <<pjob, overlapped, rowVars>>
  BY <1>0 DEF PlatformWorkerDies, PlatformTypes, Busy, Idle
<1>2. PlatformTypes'
  <2>1. prun' \in [PlatformWorkers -> RunRecord] /\ batch' \in [PlatformWorkers -> SUBSET (PlatformJobIds \X Attempts)]
    BY <1>0 DEF PlatformWorkerDies, PlatformTypes, RunRecord, Idle
  <2>2. \A o \in PlatformWorkers :
          IF Busy(o)' THEN prun'[o].job \in PlatformJobIds /\ prun'[o].token \in Attempts ELSE prun'[o] = Idle
    BY <1>0, <1>1 DEF PlatformTypes, Busy
  <2> QED
    BY <1>0, <1>1, <2>1, <2>2 DEF PlatformTypes, rowVars
<1>3. ASSUME NEW j \in PlatformJobIds PROVE LeaseInv(j)'
  <2>0. LeaseInv(j)
    BY DEF PlatformInv
  <2>1. \A o \in PlatformWorkers, t \in Attempts : <<j, t>> \in batch'[o] => <<j, t>> \in batch[o]
    BY <1>1
  <2>2. \A o \in PlatformWorkers : Busy(o)' /\ prun'[o].job = j =>
          /\ Busy(o) /\ prun[o].job = j /\ prun[o].token = prun'[o].token
          /\ prun[o].step = "throwing" => prun'[o].step = "throwing"
    BY <1>1 DEF Busy
  <2> QED
    BY <1>0, <1>1, <1>2, <2>0, <2>1, <2>2, LeaseShrinks
<1>4. \A o \in PlatformWorkers : prun'[o] = prun[o] \/ prun'[o].step \in {"idle", "start", "throwing"}
  BY <1>1 DEF Idle
<1> QED
  BY <1>1, <1>2, <1>3, <1>4, QueueKeeps DEF rowVars, DataRows

LEMMA SameKeeps ==
  ASSUME PlatformInv, UNCHANGED <<pjob, batch, overlapped, prun, DataRows>>
  PROVE  PlatformInv'
<1>1. PlatformTypes'
  BY DEF PlatformInv, PlatformTypes, Busy, DataRows
<1>2. \A j \in PlatformJobIds : LeaseInv(j)'
  BY DEF PlatformInv, LeaseInv, HasLease, Busy
<1> QED
  BY <1>1, <1>2, QueueKeeps

LEMMA PlatformInvNext == PlatformInv /\ [PlatformNext]_platformVars => PlatformInv'
<1> SUFFICES ASSUME PlatformInv, [PlatformNext]_platformVars PROVE PlatformInv'
  OBVIOUS
<1>1. CASE UNCHANGED platformVars
  BY <1>1, SameKeeps DEF platformVars, queueVars, rowVars, DataRows
<1>2. ASSUME NEW w \in PlatformWorkers, Work(w) \/ PlatformWorkerDies(w) PROVE PlatformInv'
  BY <1>2, HandleKeeps, ClaimKeeps, BeginKeeps, CompleteKeeps, FailKeeps, DiesKeeps DEF Work
<1>3. ASSUME NEW j \in PlatformJobIds, LeaseRunsOut(j) \/ ChangeHold(j) PROVE PlatformInv'
  BY <1>3, RunsOutKeeps, SameKeeps DEF ChangeHold, queueVars, DataRows
<1> QED
  BY <1>1, <1>2, <1>3 DEF PlatformNext

LEMMA PlatformInvInit == PlatformInit => PlatformInv
<1> SUFFICES ASSUME PlatformInit PROVE PlatformInv
  OBVIOUS
<1>1. \A w \in PlatformWorkers : prun[w] = Idle /\ batch[w] = {} /\ ~Busy(w)
  BY DEF PlatformInit, Busy, Idle
<1>2. pjob \in [PlatformJobIds -> Job(MaxPlatformAttempts)] /\ \A j \in PlatformJobIds : pjob[j].status # "succeeded"
  <2>1. /\ NoJob \in Job(MaxPlatformAttempts) /\ Enqueue(NoJob) \in Job(MaxPlatformAttempts)
        /\ NoJob.status # "succeeded" /\ Enqueue(NoJob).status # "succeeded"
    <3>1. 0 \in 0..MaxPlatformAttempts
      BY PlatformAssumption
    <3>2. /\ NoJob.status = "absent" /\ NoJob \in Job(MaxPlatformAttempts)
          /\ Enqueue(NoJob) = [NoJob EXCEPT !.status = "queued"]
      BY <3>1 DEF Enqueue, NoJob, Job, JobStatuses
    <3> QED
      BY <3>2 DEF NoJob, Job, JobStatuses
  <2>2. PICK wanted \in SUBSET PlatformJobIds :
          pjob = [j \in PlatformJobIds |-> IF j \in wanted THEN Enqueue(NoJob) ELSE NoJob]
    BY DEF PlatformInit
  <2> QED
    BY <2>1, <2>2
<1>3. PlatformTypes
  <2>1. prun \in [PlatformWorkers -> RunRecord]
    BY DEF PlatformInit, RunRecord, Idle
  <2>2. batch \in [PlatformWorkers -> SUBSET (PlatformJobIds \X Attempts)]
    BY DEF PlatformInit
  <2>3. /\ request \in [PlatformJobIds -> Requests] /\ receipt \in [PlatformJobIds -> Nat]
        /\ stored \in [PlatformJobIds -> Nat]
        /\ fileRow \in [PlatformJobIds -> BOOLEAN]
        /\ scanRow \in [PlatformJobIds -> ScanSettled \cup {"queued", "processing"}]
    BY PlatformAssumption DEF PlatformInit, Requests
  <2>4. overlapped \subseteq PlatformJobIds
    BY DEF PlatformInit
  <2> QED
    BY <1>1, <1>2, <2>1, <2>2, <2>3, <2>4 DEF PlatformTypes
<1>4. \A j \in PlatformJobIds, w \in PlatformWorkers, t \in Attempts : ~HasLease(w, j, t)
  BY <1>1 DEF HasLease, Idle, Attempts
<1>5. \A j \in PlatformJobIds : LeaseInv(j)
  BY <1>1, <1>4 DEF LeaseInv
<1>6. \A j \in PlatformJobIds : RowInv(j)
  BY <1>2 DEF PlatformInit, RowInv
<1>7. \A w \in PlatformWorkers : RunInv(w)
  BY <1>1 DEF RunInv
<1> QED
  BY <1>3, <1>5, <1>6, <1>7 DEF PlatformInv

\* Rows, digests and job results tell the truth, for any number of jobs, workers,
\* attempts and faults.
THEOREM RowsAlwaysTellTruth == PlatformSpec => []RowsTellTruth
<1>1. PlatformInv => RowsTellTruth
  <2> SUFFICES ASSUME PlatformInv PROVE RowsTellTruth
    OBVIOUS
  <2>1. \A j \in PlatformJobIds : RowInv(j)
    BY DEF PlatformInv
  <2>2. ReceiptMatchesObject
    BY <2>1 DEF ReceiptMatchesObject, RowInv, Of
  <2>3. SucceededIsDone
    BY <2>1 DEF SucceededIsDone, RowInv, DoneAt
  <2>4. NoOrphanObject
    BY <2>1 DEF NoOrphanObject, RowInv, Of
  <2> QED
    BY <2>2, <2>3, <2>4 DEF RowsTellTruth
<1> QED
  BY <1>1, PlatformInvInit, PlatformInvNext, PTL DEF PlatformSpec

\* The tokens, holds and faults of the queue.
QueueRest ==
  /\ receipt \in [PlatformJobIds -> Tokens] /\ stored \in [PlatformJobIds -> Tokens]
  /\ held \in [PlatformJobIds -> BOOLEAN]
  /\ pfaults \in 0..MaxPlatformFaults

LEMMA QueueRestNext == PlatformTypes /\ QueueRest /\ [PlatformNext]_platformVars => QueueRest'
<1> SUFFICES ASSUME PlatformTypes, QueueRest, [PlatformNext]_platformVars PROVE QueueRest'
  OBVIOUS
<1>1. ASSUME NEW w \in PlatformWorkers, Handle(w) PROVE QueueRest'
  <2>1. Busy(w)
    BY <1>1, HandleFrame
  <2>2. prun[w].token \in Tokens /\ 0 \in Tokens
    BY <2>1, PlatformAssumption DEF PlatformTypes, Attempts, Tokens
  <2>3. stored' \in {stored, Set(stored, w, prun[w].token), Set(stored, w, 0)}
    BY <1>1 DEF Handle, MarkExport, UploadExport, RecordExport, PrepareErasure, CheckFile,
       DeleteFileObject, DeleteFileRow, ReadScan, MarkScanProcessing, InferAndComplete, FailScan, rowVars
  <2>4. receipt' \in {receipt, Set(receipt, w, prun[w].token)}
    BY <1>1 DEF Handle, MarkExport, UploadExport, RecordExport, PrepareErasure, CheckFile,
       DeleteFileObject, DeleteFileRow, ReadScan, MarkScanProcessing, InferAndComplete, FailScan, rowVars
  <2>5. UNCHANGED held /\ (NoPlatformFault \/ PlatformFault)
    BY <1>1 DEF Handle, MarkExport, UploadExport, RecordExport, PrepareErasure, CheckFile,
       DeleteFileObject, DeleteFileRow, ReadScan, MarkScanProcessing, InferAndComplete, FailScan, rowVars,
       NoPlatformFault
  <2>6. pfaults' \in 0..MaxPlatformFaults
    BY <2>5, PlatformAssumption DEF QueueRest, NoPlatformFault, PlatformFault
  <2>7. stored' \in [PlatformJobIds -> Tokens] /\ receipt' \in [PlatformJobIds -> Tokens]
    BY <2>2, <2>3, <2>4 DEF QueueRest, Set
  <2> QED
    BY <2>5, <2>6, <2>7 DEF QueueRest
<1>2. CASE UNCHANGED rowVars /\ (NoPlatformFault \/ PlatformFault)
  <2>1. pfaults' \in 0..MaxPlatformFaults
    BY <1>2, PlatformAssumption DEF QueueRest, NoPlatformFault, PlatformFault
  <2> QED
    BY <1>2, <2>1 DEF QueueRest, rowVars
<1>3. ASSUME NEW j \in PlatformJobIds, ChangeHold(j) PROVE QueueRest'
  <2>1. held' = [held EXCEPT ![j] = ~held[j]] /\ UNCHANGED <<receipt, stored, pfaults>>
    BY <1>3 DEF ChangeHold
  <2>2. held' \in [PlatformJobIds -> BOOLEAN]
    <3>1. held \in [PlatformJobIds -> BOOLEAN] /\ (~held[j]) \in BOOLEAN
      BY DEF QueueRest
    <3> QED
      BY <2>1, <3>1
  <2> QED
    BY <2>1, <2>2 DEF QueueRest
<1>4. \/ \E w \in PlatformWorkers : Handle(w)
      \/ UNCHANGED rowVars /\ (NoPlatformFault \/ PlatformFault)
      \/ \E j \in PlatformJobIds : ChangeHold(j)
  BY DEF PlatformNext, Work, platformVars, ClaimBatch, BeginJob, CompletePlatformJob, FailPlatformJob,
     PlatformWorkerDies, LeaseRunsOut, NoPlatformFault
<1> QED
  BY <1>1, <1>2, <1>3, <1>4

\* The queue, the executions and the rows they work on keep their types.
THEOREM PlatformTypeCorrect == PlatformSpec => []PlatformTypeOK
<1>1. PlatformInit => QueueRest
  <2> SUFFICES ASSUME PlatformInit PROVE QueueRest
    OBVIOUS
  <2>1. 0 \in Tokens /\ MaxPlatformAttempts + 1 \in Tokens /\ 0 \in 0..MaxPlatformFaults
    BY PlatformAssumption DEF Tokens
  <2>2. held \in [PlatformJobIds -> BOOLEAN]
    BY DEF PlatformInit
  <2> QED
    BY <2>1, <2>2 DEF PlatformInit, QueueRest
<1>2. PlatformInv => PlatformTypes
  BY DEF PlatformInv
<1>3. PlatformTypes /\ QueueRest => PlatformTypeOK
  <2> SUFFICES ASSUME PlatformTypes, QueueRest PROVE PlatformTypeOK
    OBVIOUS
  <2>1. ASSUME NEW w \in PlatformWorkers
        PROVE  \/ prun[w] = Idle
               \/ prun[w] \in [job : PlatformJobIds, token : 1..MaxPlatformAttempts, step : PlatformSteps]
    <3>1. CASE Busy(w)
      BY <3>1 DEF PlatformTypes, RunRecord, Attempts, Busy
    <3>2. CASE ~Busy(w)
      BY <3>2 DEF PlatformTypes
    <3> QED
      BY <3>1, <3>2
  <2> QED
    BY <2>1 DEF PlatformTypes, QueueRest, PlatformTypeOK, Attempts, Requests
<1> QED
  BY <1>1, <1>2, <1>3, QueueRestNext, PlatformInvInit, PlatformInvNext, PTL DEF PlatformSpec

-------------------------------------------------------------------------------
(* The e-mail page *)

Numbers == 0..Colleague
Submissions == 0..MaxSubmissions
KeptRecord == [scan : Numbers, key : Submissions, body : Submissions]
Looking == {"polling", "replay", "recent", "loading"}

PageTypes ==
  /\ serverScan \in [ScanIds -> [status : {"none", "processing", "completed", "failed"}, message : Numbers]]
  /\ pageStep \in {"form", "context", "sent"} \cup Looking
  /\ pageView \in {"form", "report", "failure"}
  /\ kept \in KeptRecord
  /\ progressScan \in Submissions /\ candidate \in Numbers /\ submission \in Submissions
  /\ borrowed \in BOOLEAN
  /\ pageStep \in {"sent", "replay"} => kept.key # 0
  /\ pageStep \in {"polling", "loading"} => candidate # 0
  /\ pageStep # "form" => submission # 0

\* Scans have the numbers of the submissions so far, the present one's only once its
\* request is prepared.
SubmittedInv ==
  /\ kept.key <= submission /\ progressScan <= submission
  /\ \A s \in 1..MaxSubmissions : serverScan[s].status # "none" => s <= submission
  /\ pageStep = "context" =>
       /\ kept.key < submission /\ progressScan = 0
       /\ serverScan[submission].status = "none"

\* What the page goes by is the present submission's, unless it had to borrow.
OwnInv ==
  /\ pageView = "report" => pageStep = "form"
  /\ pageStep \notin {"form", "context"} /\ ~borrowed =>
       /\ kept.key = submission /\ kept.body = submission
       /\ kept.scan \in {0, submission} /\ progressScan \in {0, submission}
       /\ pageStep \in Looking => candidate \in {0, submission}
       /\ serverScan[submission].status # "none" => serverScan[submission].message = submission
  /\ pageView = "report" => Serves(candidate)

PageInv == PageTypes /\ SubmittedInv /\ OwnInv /\ ShowsOwnReport

\* A recovery starts from what was kept.
LEMMA RecoveryStarts ==
  ASSUME NEW k \in KeptRecord, progressScan \in Submissions, StartRecovery(k)
  PROVE  /\ candidate' = IF k.scan # 0 THEN k.scan ELSE progressScan
         /\ pageStep' \in {"polling", "replay", "recent"}
         /\ pageStep' = "polling" => candidate' # 0
         /\ pageStep' = "replay" => k.key # 0
         /\ candidate' \in Numbers
BY EmailPageAssumption DEF StartRecovery, AfterPolling, KeptRecord, Numbers, Submissions, Colleague

LEMMA RenewedKept ==
  ASSUME NEW k \in KeptRecord, NEW n \in Submissions, NEW b \in Submissions
  PROVE  LET r == [k EXCEPT !.scan = 0, !.key = n, !.body = b]
         IN r \in KeptRecord /\ r.scan = 0 /\ r.key = n /\ r.body = b
<1>1. 0 \in Numbers
  BY EmailPageAssumption DEF Numbers, Colleague
<1>2. [k EXCEPT !.scan = 0] \in KeptRecord /\ [k EXCEPT !.scan = 0].scan = 0
  BY <1>1 DEF KeptRecord
<1> QED
  BY <1>2 DEF KeptRecord

LEMMA PageInvNext == PageInv /\ [EmailPageNext]_pageVars => PageInv'
<1> SUFFICES ASSUME PageInv, [EmailPageNext]_pageVars PROVE PageInv'
  OBVIOUS
<1> USE EmailPageAssumption
<1>0. PageTypes /\ SubmittedInv /\ OwnInv /\ ShowsOwnReport
  BY DEF PageInv
<1>a. /\ MaxSubmissions \in Nat \ {0} /\ Colleague = MaxSubmissions + 1
      /\ ScanIds = 1..(MaxSubmissions + 1) /\ Numbers = 0..(MaxSubmissions + 1)
  BY DEF Colleague, ScanIds, Numbers
<1> USE <1>0, <1>a DEF PageInv, PageTypes, Submissions, KeptRecord, Looking, SubmittedInv, OwnInv, ShowsOwnReport, Serves
<1>1. CASE SubmitForm
  <2>1. /\ pageStep = "form" /\ pageView # "report" /\ submission < MaxSubmissions
        /\ submission' = submission + 1 /\ pageStep' = "context" /\ progressScan' = 0 /\ borrowed' = FALSE
        /\ UNCHANGED <<serverScan, pageView, kept, candidate>>
    BY <1>1 DEF SubmitForm, BeginProgress
  <2>2. OwnInv' /\ ShowsOwnReport'
    BY <2>1
  <2>6. submission' \in 1..MaxSubmissions
    BY <2>1
  <2>7. PageTypes'
    <3> HIDE DEF SubmittedInv, OwnInv, ShowsOwnReport, PageInv
    <3>1. submission' \in Submissions /\ progressScan' \in Submissions /\ submission' # 0
      BY <2>1, <2>6
    <3> QED
      BY <2>1, <3>1
  <2>3. submission' \in ScanIds /\ submission' \in 1..MaxSubmissions /\ submission' > submission
    BY <2>1
  <2>4. serverScan[submission'].status = "none"
    BY <2>3
  <2>5. SubmittedInv'
    BY <2>1, <2>3, <2>4
  <2> QED
    BY <2>2, <2>5, <2>7
<1>2. CASE NewInvestigation
  BY <1>2 DEF NewInvestigation
<1>3. CASE SessionFails
  BY <1>3, RecoveryStarts DEF SessionFails
<1>4. ASSUME NEW valid \in BOOLEAN, PrepareRequest(valid) PROVE PageInv'
  <2> DEFINE renewed == [kept EXCEPT !.scan = 0, !.key = submission,
                                     !.body = IF valid THEN submission ELSE @]
  <2>1. /\ pageStep = "context" /\ kept' = renewed
        /\ UNCHANGED <<serverScan, pageView, progressScan, submission>>
    BY <1>4 DEF PrepareRequest
  <2>2. /\ renewed \in KeptRecord /\ renewed.scan = 0 /\ renewed.key = submission
        /\ valid => renewed.body = submission
    <3> DEFINE b == IF valid THEN submission ELSE kept.body
    <3>1. b \in Submissions /\ (valid => b = submission)
      OBVIOUS
    <3>2. renewed = [kept EXCEPT !.scan = 0, !.key = submission, !.body = b]
      BY Zenon
    <3> HIDE DEF b, renewed
    <3> QED
      BY <3>1, <3>2, RenewedKept
  <2>3. CASE valid /\ pageStep' = "sent" /\ UNCHANGED <<candidate, borrowed>>
    <3> HIDE DEF renewed
    <3> QED
      BY <2>1, <2>2, <2>3
  <2>4. CASE ~valid /\ StartRecovery(renewed) /\ borrowed' = TRUE
    <3> HIDE DEF renewed
    <3>1. /\ pageStep' \in {"polling", "replay", "recent"}
          /\ pageStep' = "polling" => candidate' # 0
          /\ pageStep' = "replay" => renewed.key # 0
          /\ candidate' \in Numbers
      BY <2>2, <2>4, RecoveryStarts
    <3> QED
      BY <2>1, <2>2, <2>4, <3>1
  <2> QED
    BY <1>4, <2>3, <2>4 DEF PrepareRequest
<1>5. CASE ReceiveRequest
  BY <1>5 DEF ReceiveRequest
<1>6. ASSUME NEW s \in ScanIds, ServerFinishes(s) PROVE PageInv'
  BY <1>6 DEF ServerFinishes
<1>7. CASE ReadProgress
  BY <1>7 DEF ReadProgress
<1>8. CASE ReadAnswer
  BY <1>8, RecoveryStarts DEF ReadAnswer, ShowReport
<1>9. CASE PollEvidence
  BY <1>9 DEF PollEvidence, ShowReport, AfterPolling
<1>10. CASE ReplayRequest
  <2> DEFINE s == kept.key
  <2>1. pageStep = "replay" /\ s \in 1..MaxSubmissions /\ s \in ScanIds /\ s <= submission /\ submission # 0
    BY <1>10 DEF ReplayRequest
  <2>2. ASSUME NEW status \in {"processing", "completed"}, serverScan[s].status = "none",
               serverScan' = [serverScan EXCEPT ![s] = [status |-> status, message |-> kept.body]]
        PROVE  /\ serverScan' \in [ScanIds -> [status : {"none", "processing", "completed", "failed"},
                                               message : Numbers]]
               /\ serverScan'[s].status = status /\ serverScan'[s].message = kept.body
               /\ \A o \in ScanIds \ {s} : serverScan'[o] = serverScan[o]
    BY <2>1, <2>2
  <2>3. ASSUME NEW status \in {"processing", "completed"}, serverScan[s].status = "none",
               serverScan' = [serverScan EXCEPT ![s] = [status |-> status, message |-> kept.body]],
               \/ status = "completed" /\ ShowReport(s)
               \/ UNCHANGED <<pageStep, pageView, kept, progressScan, candidate, submission, borrowed>>
        PROVE  PageInv'
    <3>1. /\ serverScan' \in [ScanIds -> [status : {"none", "processing", "completed", "failed"},
                                          message : Numbers]]
          /\ serverScan'[s].status = status /\ serverScan'[s].message = kept.body
          /\ \A o \in ScanIds \ {s} : serverScan'[o] = serverScan[o]
      BY <2>2, <2>3
    <3>2. CASE status = "completed" /\ ShowReport(s)
      <4>1. /\ pageStep' = "form" /\ pageView' = "report" /\ candidate' = s
            /\ kept' = [kept EXCEPT !.scan = s]
            /\ UNCHANGED <<progressScan, submission, borrowed>>
        BY <3>2 DEF ShowReport
      <4>2. kept' \in KeptRecord /\ kept'.key = kept.key
        BY <2>1, <4>1
      <4>3. PageTypes'
        BY <2>1, <3>1, <4>1, <4>2
      <4>4. SubmittedInv'
        BY <2>1, <3>1, <4>1, <4>2
      <4>5. OwnInv' /\ ShowsOwnReport'
        BY <2>1, <3>1, <3>2, <4>1, <4>2
      <4> QED
        BY <4>3, <4>4, <4>5
    <3>3. CASE UNCHANGED <<pageStep, pageView, kept, progressScan, candidate, submission, borrowed>>
      <4>1. PageTypes'
        BY <2>1, <3>1, <3>3
      <4>2. SubmittedInv'
        <5> HIDE DEF PageTypes, OwnInv, ShowsOwnReport, PageInv
        <5> QED
          BY <2>1, <3>1, <3>3
      <4>3. OwnInv' /\ ShowsOwnReport'
        BY <2>1, <3>1, <3>3
      <4> QED
        BY <4>1, <4>2, <4>3
    <3> QED
      BY <2>3, <3>2, <3>3
  <2>4. CASE Serves(s) /\ ShowReport(s) /\ UNCHANGED serverScan
    BY <2>1, <2>4 DEF ShowReport
  <2>5. CASE /\ kept' = [kept EXCEPT !.scan = s] /\ candidate' = s /\ pageStep' = "loading"
             /\ UNCHANGED <<serverScan, pageView, progressScan, submission, borrowed>>
    BY <2>1, <2>5
  <2>6. CASE /\ pageStep' \in {pageStep, "recent"}
             /\ UNCHANGED <<serverScan, pageView, kept, progressScan, candidate, submission, borrowed>>
    BY <2>1, <2>6
  <2> QED
    BY <1>10, <2>3, <2>4, <2>5, <2>6 DEF ReplayRequest
<1>11. CASE ReadRecent
  <2>1. /\ pageStep = "recent" /\ UNCHANGED <<serverScan, kept, progressScan, submission>>
        /\ pageView # "report"
    BY <1>11 DEF ReadRecent
  <2>2. ASSUME NEW s \in ScanIds, candidate \in {0, s}, borrowed' = (borrowed \/ candidate = 0),
               candidate' = s, pageStep' = "loading", UNCHANGED pageView
        PROVE  PageInv'
    <3>1. borrowed' \in BOOLEAN /\ (~borrowed' => ~borrowed /\ candidate = s)
      BY <2>2
    <3> QED
      BY <2>1, <2>2, <3>1
  <2>3. CASE pageStep' = "form" /\ pageView' = "failure" /\ UNCHANGED <<candidate, borrowed>>
    BY <2>1, <2>3
  <2> QED
    BY <1>11, <2>2, <2>3 DEF ReadRecent
<1>12. CASE LoadSaved
  BY <1>12 DEF LoadSaved, ShowReport
<1>13. CASE UNCHANGED pageVars
  BY <1>13 DEF pageVars
<1> QED
  BY <1>1, <1>2, <1>3, <1>4, <1>5, <1>6, <1>7, <1>8, <1>9, <1>10, <1>11, <1>12, <1>13 DEF EmailPageNext

LEMMA PageAlwaysInv == EmailPageSpec => []PageInv
<1>1. EmailPageInit => PageInv
  <2> SUFFICES ASSUME EmailPageInit PROVE PageInv
    OBVIOUS
  <2> DEFINE First(s) == IF s = Colleague THEN [status |-> "completed", message |-> s]
                         ELSE [status |-> "none", message |-> 0]
  <2>1. /\ serverScan = [s \in ScanIds |-> First(s)]
        /\ pageStep = "form" /\ pageView = "form" /\ kept = [scan |-> 0, key |-> 0, body |-> 0]
        /\ progressScan = 0 /\ candidate = 0 /\ submission = 0 /\ borrowed = FALSE
    BY DEF EmailPageInit
  <2>2. /\ 0 \in Numbers /\ 0 \in Submissions /\ ScanIds \subseteq Numbers
        /\ 1..MaxSubmissions \subseteq ScanIds \ {Colleague}
    BY EmailPageAssumption DEF Numbers, Submissions, ScanIds, Colleague
  <2>3. \A s \in ScanIds : First(s) \in [status : {"none", "processing", "completed", "failed"}, message : Numbers]
    BY <2>2
  <2>4. \A s \in 1..MaxSubmissions : serverScan[s].status = "none"
    BY <2>1, <2>2
  <2>5. serverScan \in [ScanIds -> [status : {"none", "processing", "completed", "failed"}, message : Numbers]]
    <3> HIDE DEF First
    <3> QED
      BY <2>1, <2>3
  <2>6. PageTypes
    BY <2>1, <2>2, <2>5 DEF PageTypes, KeptRecord
  <2>7. SubmittedInv
    BY <2>1, <2>4 DEF SubmittedInv
  <2> QED
    BY <2>1, <2>6, <2>7 DEF PageInv, OwnInv, ShowsOwnReport
<1> QED
  BY <1>1, PageInvNext, PTL DEF EmailPageSpec

\* The report the page shows is of the message just submitted, however the request
\* failed and by whichever strategy it was recovered, but for the exceptions that
\* ShowsOwnReport names (assets/js/pages/email-investigation.js).
THEOREM AlwaysShowsOwnReport == EmailPageSpec => []ShowsOwnReport
<1>1. PageInv => ShowsOwnReport
  BY DEF PageInv
<1> QED
  BY <1>1, PageAlwaysInv, PTL

\* The tries of the page's strategies.
TriesBound == pageTries \in 0..5

LEMMA TriesNext == TriesBound /\ [EmailPageNext]_pageVars => TriesBound'
<1> SUFFICES ASSUME TriesBound, [EmailPageNext]_pageVars PROVE TriesBound'
  OBVIOUS
<1> DEFINE Kept == pageTries' = pageTries
<1> DEFINE Another == pageTries < 5 /\ pageTries' = pageTries + 1
<1>1. ASSUME NEW last, StartRecovery(last) PROVE pageTries' = 0
  BY <1>1 DEF StartRecovery
<1>2. ASSUME NEW s, ShowReport(s) PROVE Kept
  BY <1>2 DEF ShowReport
<1>3. SubmitForm \/ NewInvestigation \/ ReceiveRequest \/ ReadProgress => Kept
  BY DEF SubmitForm, NewInvestigation, ReceiveRequest, ReadProgress
<1>4. \A s : ServerFinishes(s) => Kept
  BY DEF ServerFinishes
<1>5. SessionFails \/ (\E valid : PrepareRequest(valid)) => Kept \/ pageTries' = 0
  BY <1>1 DEF SessionFails, PrepareRequest
<1>6. ReadAnswer \/ ReadRecent => Kept \/ pageTries' = 0
  BY <1>1, <1>2 DEF ReadAnswer, ReadRecent
<1>7. PollEvidence \/ ReplayRequest \/ LoadSaved => Kept \/ pageTries' = 0 \/ Another
  BY <1>2 DEF PollEvidence, ReplayRequest, LoadSaved, TriesBound
<1>8. Kept \/ pageTries' = 0 \/ Another
  BY <1>3, <1>4, <1>5, <1>6, <1>7 DEF EmailPageNext, pageVars
<1> QED
  BY <1>8 DEF TriesBound

\* What server and page keep of a submission keeps its type.
THEOREM PageTypeCorrect == EmailPageSpec => []PageTypeOK
<1>1. EmailPageInit => TriesBound
  BY DEF EmailPageInit, TriesBound
<1>2. PageInv /\ TriesBound => PageTypeOK
  BY DEF PageInv, PageTypes, PageTypeOK, Numbers, Submissions, KeptRecord, Looking, TriesBound
<1> QED
  BY <1>1, <1>2, TriesNext, PageAlwaysInv, PTL DEF EmailPageSpec

-------------------------------------------------------------------------------
(* Campaign memory *)

CampaignRecord ==
  [state : {"UNAVAILABLE", "CORRELATED", "PARTIAL", "NO_STRONG_MATCH"}, related : SUBSET EmailScans]
Common(s, o) == EntitiesOf[s] \cap EntitiesOf[o]

\* What the memory holds: all of a remembered scan, and nothing that is not in a message.
MemoryInv ==
  /\ \A m \in memory : m[1] \in EmailScans /\ m[2] \in EntitiesOf[m[1]]
  /\ memory \subseteq EmailScans \X Entities
  /\ \A s \in EmailScans, e \in Entities :
       stage[s] = "remembered" /\ s \notin failedScans /\ e \in EntitiesOf[s] => <<s, e>> \in memory

\* Two scans that have searched have found each other, unless that is excused.
FoundInv ==
  \A s, o \in EmailScans :
    /\ s # o /\ stage[s] # "parsed" /\ stage[o] # "parsed"
    /\ Meaningful(Common(s, o))
    /\ {s, o} \notin searchedTogether /\ {s, o} \cap (failedScans \cup crowded) = {}
    => s \in campaign[o].related \/ o \in campaign[s].related

CampaignInv ==
  /\ stage \in [EmailScans -> {"parsed", "searched", "remembered"}]
  /\ campaign \in [EmailScans -> CampaignRecord]
  /\ MemoryInv /\ FoundInv

\* A search that reads all that is there reads every row.
LEMMA AllRows ==
  ASSUME NEW all, IsFiniteSet(all), Cardinality(all) <= MaxRows,
         NEW found \in kSubset(Min({MaxRows, Cardinality(all)}), all)
  PROVE  found = all
<1>1. Cardinality(all) \in Nat /\ MaxRows \in Nat
  BY FS_CardinalityType, CampaignAssumption
<1>2. Min({MaxRows, Cardinality(all)}) = Cardinality(all)
  BY <1>1 DEF Min
<1>3. found \subseteq all /\ Cardinality(found) = Cardinality(all)
  BY <1>2 DEF kSubset
<1> QED
  BY <1>3, FS_Subset

LEMMA MemoryFinite == memory \subseteq EmailScans \X Entities => \A s : IsFiniteSet(RowsFor(s))
<1> SUFFICES ASSUME memory \subseteq EmailScans \X Entities, NEW s PROVE IsFiniteSet(RowsFor(s))
  OBVIOUS
<1>1. IsFiniteSet(EmailScans \X Entities)
  BY FS_Product, CampaignAssumption
<1>2. RowsFor(s) \in SUBSET (EmailScans \X Entities)
  BY DEF RowsFor
<1> QED
  BY <1>1, <1>2, FS_Subset

\* Entities in common with an attachment among them weigh at least ten.
LEMMA ScoreNat ==
  ASSUME NEW common, IsFiniteSet(common)
  PROVE  /\ Score(common) \in Nat
         /\ (\E e \in common : e.type = "attachment_sha256") => Score(common) >= 10
<1> DEFINE n(type) == Cardinality({e \in common : e.type = type})
<1>1. \A type : n(type) \in Nat
  <2> TAKE type
  <2>1. {e \in common : e.type = type} \subseteq common
    OBVIOUS
  <2> QED
    BY <2>1, FS_Subset, FS_CardinalityType
<1>2. (\E e \in common : e.type = "attachment_sha256") => n("attachment_sha256") >= 1
  <2> SUFFICES ASSUME NEW e \in common, e.type = "attachment_sha256" PROVE n("attachment_sha256") >= 1
    OBVIOUS
  <2>1. IsFiniteSet({x \in common : x.type = "attachment_sha256"})
    BY FS_Subset
  <2>2. n("attachment_sha256") # 0
    BY <2>1, FS_EmptySet
  <2> QED
    BY <1>1, <2>2
<1> HIDE DEF n
<1>3. Score(common) =
        10 * n("attachment_sha256") + 7 * n("url_domain")
        + 6 * (n("reply_to_domain") + n("infrastructure_ip_trusted")) + 5 * n("return_path_domain")
        + 4 * (n("infrastructure_ip_observed") + n("dkim_domain"))
        + 3 * (n("from_domain") + n("sender_domain"))
        + 2 * (n("message_id_domain") + n("infrastructure_host")) + n("infrastructure_asn")
  BY DEF Score, n
<1> QED
  BY <1>1, <1>2, <1>3

\* What weighs enough to count also weighs enough for a candidate.
LEMMA MeaningfulScores ==
  ASSUME NEW common, IsFiniteSet(common), Meaningful(common) PROVE Score(common) >= 3
BY ScoreNat DEF Meaningful

\* All of a set that is not too large are its best.
LEMMA AllAreBest ==
  ASSUME NEW n \in Nat, NEW from, IsFiniteSet(from), Cardinality(from) <= n, NEW s, NEW found
  PROVE  Best(n, from, s, found) = from
<1>1. ASSUME NEW o \in from PROVE Cardinality({p \in from : Outranks(p, o, s, found)}) < n
  <2> DEFINE above == {p \in from : Outranks(p, o, s, found)}
  <2>1. above \subseteq from \ {o}
    BY DEF Outranks
  <2>2. IsFiniteSet(from \ {o}) /\ Cardinality(from \ {o}) = Cardinality(from) - 1
    BY FS_RemoveElement
  <2>3. Cardinality(above) <= Cardinality(from \ {o}) /\ IsFiniteSet(above)
    BY <2>1, <2>2, FS_Subset
  <2>4. Cardinality(above) \in Nat /\ Cardinality(from) \in Nat
    BY <2>3, FS_CardinalityType
  <2> QED
    BY <2>2, <2>3, <2>4
<1> QED
  BY <1>1 DEF Best

\* Of two scans, the one whose search comes second finds the other one.
LEMMA SearchFinds ==
  ASSUME MemoryInv, NEW s \in EmailScans, NEW o \in EmailScans \ {s},
         stage[o] = "remembered", o \notin failedScans, Meaningful(Common(s, o)),
         Cardinality(RowsFor(s)) <= MaxRows,
         NEW found \in kSubset(Min({MaxRows, Cardinality(RowsFor(s))}), RowsFor(s)),
         ~CrowdedIn(s, found)
  PROVE  o \in RelatedIn(s, found)
<1>1. found = RowsFor(s)
  BY AllRows, MemoryFinite DEF MemoryInv
<1>2. EntitiesOf[s] \subseteq Entities /\ IsFiniteSet(EntitiesOf[s]) /\ IsFiniteSet(Common(s, o))
  <2>1. EntitiesOf[s] \subseteq Entities /\ IsFiniteSet(Entities)
    BY CampaignAssumption
  <2>2. IsFiniteSet(EntitiesOf[s]) /\ Common(s, o) \subseteq EntitiesOf[s]
    BY <2>1, FS_Subset DEF Common
  <2> QED
    BY <2>1, <2>2, FS_Subset
<1>3. Matches(s, o, found) = Common(s, o)
  <2>1. ASSUME NEW e \in EntitiesOf[s], <<o, e>> \in memory PROVE e \in EntitiesOf[o]
    BY <2>1 DEF MemoryInv
  <2>2. ASSUME NEW e \in EntitiesOf[s], e \in EntitiesOf[o] PROVE <<o, e>> \in found
    BY <1>1, <1>2, <2>2 DEF MemoryInv, RowsFor
  <2> QED
    BY <1>1, <2>1, <2>2 DEF RowsFor, Common, Matches
<1>4. o \in Candidates(s, found)
  BY <1>2, <1>3, MeaningfulScores DEF Candidates
<1>5. IsFiniteSet(Candidates(s, found)) /\ Cardinality(Candidates(s, found)) \in Nat
  <2>1. Candidates(s, found) \subseteq EmailScans
    BY DEF Candidates
  <2> QED
    BY <2>1, FS_Subset, FS_CardinalityType, CampaignAssumption
<1>6. Best(MaxCandidates, Candidates(s, found), s, found) = Candidates(s, found)
  <2>1. Cardinality(Candidates(s, found)) <= MaxCandidates /\ MaxCandidates \in Nat
    BY <1>5, CampaignAssumption DEF CrowdedIn
  <2> QED
    BY <1>5, <2>1, AllAreBest
<1>7. o \in MeaningfulIn(s, found) /\ MeaningfulIn(s, found) \subseteq Candidates(s, found)
  BY <1>3, <1>4, <1>6 DEF MeaningfulIn
<1>8. MeaningfulIn(s, found) = RelatedIn(s, found)
  <2>1. IsFiniteSet(MeaningfulIn(s, found)) /\ Cardinality(MeaningfulIn(s, found)) \in Nat
    BY <1>5, <1>7, FS_Subset, FS_CardinalityType
  <2>2. Cardinality(MeaningfulIn(s, found)) <= MaxNamed /\ MaxNamed \in Nat
    BY <2>1, CampaignAssumption DEF CrowdedIn
  <2> QED
    BY <2>1, <2>2, AllAreBest DEF RelatedIn
<1> QED
  BY <1>7, <1>8

LEMMA CampaignInvNext == CampaignInv /\ [CampaignNext]_campaignVars => CampaignInv'
<1> SUFFICES ASSUME CampaignInv, [CampaignNext]_campaignVars PROVE CampaignInv'
  OBVIOUS
<1>0. /\ stage \in [EmailScans -> {"parsed", "searched", "remembered"}]
      /\ campaign \in [EmailScans -> CampaignRecord]
      /\ MemoryInv /\ FoundInv
  BY DEF CampaignInv
<1>1. ASSUME NEW s \in EmailScans, Search(s) PROVE CampaignInv'
  <2>1. /\ stage[s] = "parsed" /\ UNCHANGED memory
        /\ searchedTogether' = searchedTogether \cup
             {{s, o} : o \in {x \in EmailScans \ {s} : stage[x] = "searched"}}
    BY <1>1 DEF Search
  <2>2. CASE /\ stage' \in {[stage EXCEPT ![s] = "searched"], [stage EXCEPT ![s] = "remembered"]}
             /\ UNCHANGED <<campaign, crowded>> /\ Fails(s)
    <3>1. failedScans' = failedScans \cup {s} /\ UNCHANGED <<campaign, crowded>>
      BY <2>2 DEF Fails
    <3>2. /\ stage' \in [EmailScans -> {"parsed", "searched", "remembered"}]
          /\ \A x \in EmailScans \ {s} : stage'[x] = stage[x]
      BY <1>0, <2>2
    <3>3. MemoryInv'
      BY <1>0, <2>1, <3>1, <3>2 DEF MemoryInv
    <3>4. FoundInv'
      BY <1>0, <2>1, <3>1, <3>2 DEF FoundInv
    <3> QED
      BY <1>0, <3>1, <3>2, <3>3, <3>4 DEF CampaignInv
  <2>3. ASSUME NEW found \in kSubset(Min({MaxRows, Cardinality(RowsFor(s))}), RowsFor(s)),
               stage' = [stage EXCEPT ![s] = "searched"],
               campaign' = [campaign EXCEPT ![s] = Correlate(s, found)],
               crowded' = IF CrowdedIn(s, found) THEN crowded \cup {s} ELSE crowded,
               failedScans' = IF Cardinality(RowsFor(s)) > MaxRows THEN failedScans \cup {s} ELSE failedScans
        PROVE  CampaignInv'
    <3>1. Correlate(s, found) \in CampaignRecord
      <4>1. RelatedIn(s, found) \in SUBSET EmailScans
        BY DEF RelatedIn, Best, MeaningfulIn, Candidates
      <4> QED
        BY <4>1 DEF Correlate, CampaignRecord
    <3>2. MemoryInv'
      BY <1>0, <2>1, <2>3 DEF MemoryInv
    <3>3. campaign'[s].related = RelatedIn(s, found)
      BY <1>0, <2>3 DEF Correlate
    <3>4. ASSUME NEW o \in EmailScans \ {s}, stage'[o] # "parsed", Meaningful(Common(s, o)),
                 {s, o} \notin searchedTogether', {s, o} \cap (failedScans' \cup crowded') = {}
          PROVE  o \in campaign'[s].related
      <4>1. stage[o] = "remembered" /\ o \notin failedScans
        BY <1>0, <2>1, <2>3, <3>4
      <4>2. Cardinality(RowsFor(s)) \in Nat /\ MaxRows \in Nat
        BY <1>0, MemoryFinite, FS_CardinalityType, CampaignAssumption DEF MemoryInv
      <4>3. Cardinality(RowsFor(s)) <= MaxRows
        BY <2>3, <3>4, <4>2
      <4>4. ~CrowdedIn(s, found)
        BY <2>3, <3>4
      <4> QED
        BY <1>0, <3>3, <3>4, <4>1, <4>3, <4>4, SearchFinds
    <3>5. \A a, b \in EmailScans : Common(a, b) = Common(b, a) /\ {a, b} = {b, a}
      BY DEF Common
    <3>6. \A a, b \in EmailScans \ {s} :
            /\ stage'[a] = stage[a] /\ stage'[b] = stage[b]
            /\ campaign'[a] = campaign[a] /\ campaign'[b] = campaign[b]
            /\ {a, b} \notin searchedTogether' => {a, b} \notin searchedTogether
            /\ {a, b} \cap (failedScans' \cup crowded') = {} => {a, b} \cap (failedScans \cup crowded) = {}
      BY <1>0, <2>1, <2>3
    <3>7. FoundInv'
      <4> SUFFICES ASSUME NEW a \in EmailScans, NEW b \in EmailScans,
                          a # b, stage'[a] # "parsed", stage'[b] # "parsed", Meaningful(Common(a, b)),
                          {a, b} \notin searchedTogether', {a, b} \cap (failedScans' \cup crowded') = {}
                   PROVE  a \in campaign'[b].related \/ b \in campaign'[a].related
        BY DEF FoundInv, Common
      <4>1. CASE a = s
        BY <3>4, <4>1
      <4>2. CASE b = s
        BY <3>4, <3>5, <4>2
      <4>3. CASE a # s /\ b # s
        BY <1>0, <3>6, <4>3 DEF FoundInv
      <4> QED
        BY <4>1, <4>2, <4>3
    <3> QED
      BY <1>0, <2>3, <3>1, <3>2, <3>7 DEF CampaignInv
  <2> QED
    BY <1>1, <2>2, <2>3 DEF Search
<1>2. ASSUME NEW s \in EmailScans, Remember(s) PROVE CampaignInv'
  <2> DEFINE remembered == memory \cup {<<s, e>> : e \in EntitiesOf[s]}
  <2>1. /\ stage[s] = "searched" /\ stage' = [stage EXCEPT ![s] = "remembered"] /\ UNCHANGED <<searchedTogether, crowded>>
        /\ \/ memory' = remembered /\ UNCHANGED <<campaign, failedScans>>
           \/ /\ memory' \in {memory, remembered} /\ campaign' = [campaign EXCEPT ![s] = Unavailable]
              /\ failedScans' = failedScans \cup {s}
           \/ UNCHANGED <<memory, campaign>> /\ failedScans' = failedScans \cup {s}
    BY <1>2 DEF Remember, Fails
  <2>2. EntitiesOf[s] \subseteq Entities
    BY CampaignAssumption
  <2>3. MemoryInv'
    <3>1. /\ \A m \in memory' : m[1] \in EmailScans /\ m[2] \in EntitiesOf[m[1]]
          /\ memory' \subseteq EmailScans \X Entities /\ memory \subseteq memory'
      BY <1>0, <2>1, <2>2 DEF MemoryInv
    <3>2. s \notin failedScans' => \A e \in EntitiesOf[s] : <<s, e>> \in memory'
      BY <2>1
    <3>3. \A t \in EmailScans \ {s} : stage'[t] = stage[t] /\ (t \notin failedScans' => t \notin failedScans)
      BY <1>0, <2>1
    <3> QED
      BY <1>0, <3>1, <3>2, <3>3 DEF MemoryInv
  <2>4. /\ \A a \in EmailScans : stage'[a] # "parsed" => stage[a] # "parsed"
        /\ \A a \in EmailScans : a \notin failedScans' => a \notin failedScans
        /\ \A a, b \in EmailScans :
             s \notin failedScans' \/ a # s => campaign'[a] = campaign[a]
    BY <1>0, <2>1
  <2>5. FoundInv'
    <3> SUFFICES ASSUME NEW a \in EmailScans, NEW b \in EmailScans,
                        a # b, stage'[a] # "parsed", stage'[b] # "parsed", Meaningful(Common(a, b)),
                        {a, b} \notin searchedTogether', {a, b} \cap (failedScans' \cup crowded') = {}
                 PROVE  a \in campaign'[b].related \/ b \in campaign'[a].related
      BY DEF FoundInv, Common
    <3>1. a \notin failedScans' /\ b \notin failedScans'
      OBVIOUS
    <3>2. campaign'[a] = campaign[a] /\ campaign'[b] = campaign[b] /\ {a, b} \cap (failedScans \cup crowded) = {}
      BY <2>1, <2>4, <3>1
    <3> QED
      BY <1>0, <2>1, <2>4, <3>2 DEF FoundInv
  <2>6. campaign' \in [EmailScans -> CampaignRecord]
    <3>1. Unavailable \in CampaignRecord
      BY DEF Unavailable, CampaignRecord
    <3> QED
      BY <1>0, <2>1, <3>1
  <2> QED
    BY <1>0, <2>1, <2>3, <2>5, <2>6 DEF CampaignInv
<1>3. CASE UNCHANGED campaignVars
  BY <1>0, <1>3 DEF campaignVars, CampaignInv, MemoryInv, FoundInv
<1> QED
  BY <1>1, <1>2, <1>3 DEF CampaignNext

LEMMA CampaignAlwaysInv == CampaignSpec => []CampaignInv
<1>1. CampaignInit => CampaignInv
  <2>1. Unavailable \in CampaignRecord
    BY DEF Unavailable, CampaignRecord
  <2> QED
    BY <2>1 DEF CampaignInit, CampaignInv, MemoryInv, FoundInv
<1> QED
  BY <1>1, CampaignInvNext, PTL DEF CampaignSpec

\* Of two related scans one names the other, unless they searched together, failed, had
\* their search cut short, or found more than it keeps or names (lib/email/service.js,
\* lib/email/persistence.js, lib/email/campaign-memory.js).
THEOREM LaterAlwaysFindsEarlier == CampaignSpec => []LaterFindsEarlier
<1>1. CampaignInv => LaterFindsEarlier
  BY DEF CampaignInv, FoundInv, LaterFindsEarlier, Common
<1> QED
  BY <1>1, CampaignAlwaysInv, PTL

\* The histories of the campaign search.
SearchRest ==
  /\ searchedTogether \subseteq SUBSET EmailScans /\ crowded \subseteq EmailScans /\ failedScans \subseteq EmailScans
  /\ campaignFaults \in 0..MaxCampaignFaults

LEMMA SearchRestNext == SearchRest /\ [CampaignNext]_campaignVars => SearchRest'
<1> SUFFICES ASSUME SearchRest, [CampaignNext]_campaignVars PROVE SearchRest'
  OBVIOUS
<1>1. CASE UNCHANGED campaignVars
  BY <1>1 DEF campaignVars, SearchRest
<1>2. ASSUME NEW s \in EmailScans, Search(s) \/ Remember(s) PROVE SearchRest'
  <2>1. /\ failedScans' \in {failedScans, failedScans \cup {s}} /\ crowded' \in {crowded, crowded \cup {s}}
        /\ UNCHANGED campaignFaults \/ (campaignFaults < MaxCampaignFaults /\ campaignFaults' = campaignFaults + 1)
    BY <1>2 DEF Search, Remember, Fails
  <2>2. \/ UNCHANGED searchedTogether
        \/ searchedTogether' = searchedTogether \cup
             {{s, o} : o \in {x \in EmailScans \ {s} : stage[x] = "searched"}}
    BY <1>2 DEF Search, Remember
  <2>3. searchedTogether' \subseteq SUBSET EmailScans
    BY <2>2 DEF SearchRest
  <2>4. campaignFaults' \in 0..MaxCampaignFaults
    BY <2>1, CampaignAssumption DEF SearchRest
  <2> QED
    BY <2>1, <2>3, <2>4 DEF SearchRest
<1> QED
  BY <1>1, <1>2 DEF CampaignNext

\* The memory, the searches and what they found keep their types.
THEOREM CampaignTypeCorrect == CampaignSpec => []CampaignTypeOK
<1>1. CampaignInit => SearchRest
  BY CampaignAssumption DEF CampaignInit, SearchRest
<1>2. CampaignInv /\ SearchRest => CampaignTypeOK
  BY DEF CampaignInv, MemoryInv, SearchRest, CampaignTypeOK, CampaignRecord
<1> QED
  BY <1>1, <1>2, SearchRestNext, CampaignAlwaysInv, PTL DEF CampaignSpec

-------------------------------------------------------------------------------
(* Webhooks *)

HookRunRecord ==
  [event : HookEvents \cup {"none"}, token : 0..MaxDeliveryAttempts, step : HookSteps \cup {"idle"}]
Out(w) == hookRun[w].step # "idle"

HookTypes ==
  /\ hookJob \in [HookEvents -> Job(MaxDeliveryAttempts)]
  /\ hookRun \in [HookWorkers -> HookRunRecord]
  /\ \A w \in HookWorkers :
       IF Out(w) THEN hookRun[w].event \in HookEvents /\ hookRun[w].token # 0 ELSE hookRun[w] = NoRun
  /\ taken \in [HookEvents -> Nat] /\ hookFaults \in [HookEvents -> Nat]
  /\ attempts \in [HookEvents -> SUBSET {"delivered", "failed", "retry"}]

\* Tokens are of attempts that were claimed.
HookTokens ==
  /\ \A w \in HookWorkers : \A v \in HookEvents :
       Out(w) /\ hookRun[w].event = v => hookRun[w].token <= hookJob[v].attempt
  /\ \A v \in HookEvents : hookJob[v].status = "leased" => hookJob[v].attempt # 0

\* Workers that may still post the event, or have its job tried again.
BeforePost == {"claimed", "configured", "resolved"}
Returning == {"busy", "silent", "throwing"}
MayRepeat(v) ==
  {w \in HookWorkers :
     /\ hookRun[w].event = v
     /\ \/ hookRun[w].step \in BeforePost
        \/ hookRun[w].step \in Returning /\ Holds(hookJob[v], hookRun[w].token)}

\* The job may be claimed without another fault.
HeldBy(v, w) == Out(w) /\ hookRun[w].event = v /\ hookRun[w].token = hookJob[v].attempt
Waits(v) ==
  \/ hookJob[v].status \in {"absent", "queued", "retry"}
  \/ hookJob[v].status = "leased" /\ (hookJob[v].expired \/ \A w \in HookWorkers : ~HeldBy(v, w))
Waiting(v) == IF Waits(v) THEN 1 ELSE 0

\* What was taken, and what may yet be, is paid for.
SentInv(v) == taken[v] + Cardinality(MayRepeat(v)) + Waiting(v) <= 1 + hookFaults[v]

Recorded(v) == attempts[v] \cap {"delivered", "failed"} # {} \/ v \in gone
ExplainedInv(v) ==
  /\ hookJob[v].status = "succeeded" => Recorded(v)
  /\ "delivered" \in attempts[v] => taken[v] > 0
  /\ \A w \in HookWorkers : hookRun[w].event = v =>
       /\ hookRun[w].step = "handled" => Recorded(v)
       /\ hookRun[w].step = "accepted" => taken[v] > 0

HookInv ==
  /\ HookTypes /\ HookTokens
  /\ \A v \in HookEvents : SentInv(v) /\ ExplainedInv(v)

LEMMA Repeaters ==
  /\ \A v : IsFiniteSet(MayRepeat(v)) /\ Cardinality(MayRepeat(v)) \in Nat
  /\ \A v : IsFiniteSet(MayRepeat(v)') /\ Cardinality(MayRepeat(v)') \in Nat
<1>1. \A v : MayRepeat(v) \in SUBSET HookWorkers /\ MayRepeat(v)' \in SUBSET HookWorkers
  BY DEF MayRepeat
<1> QED
  BY <1>1, WebhooksAssumption, FS_Subset, FS_CardinalityType

LEMMA CountAtMost ==
  ASSUME NEW S, IsFiniteSet(S), NEW T, NEW w
  PROVE  /\ T \subseteq S => Cardinality(T) <= Cardinality(S)
         /\ T \subseteq S \cup {w} => Cardinality(T) <= Cardinality(S) + 1
         /\ w \in S /\ T \subseteq S \ {w} => Cardinality(T) <= Cardinality(S) - 1
<1>1. T \subseteq S => Cardinality(T) <= Cardinality(S)
  BY FS_Subset
<1>2. ASSUME T \subseteq S \cup {w} PROVE Cardinality(T) <= Cardinality(S) + 1
  <2>1. IsFiniteSet(S \cup {w}) /\ Cardinality(S \cup {w}) <= Cardinality(S) + 1
    <3>1. Cardinality(S) \in Nat
      BY FS_CardinalityType
    <3>2. /\ IsFiniteSet(S \cup {w})
          /\ Cardinality(S \cup {w}) = Cardinality(S) \/ Cardinality(S \cup {w}) = Cardinality(S) + 1
      BY FS_AddElement
    <3> QED
      BY <3>1, <3>2
  <2>2. Cardinality(T) <= Cardinality(S \cup {w}) /\ IsFiniteSet(T)
    BY <1>2, <2>1, FS_Subset
  <2> QED
    BY <2>1, <2>2, FS_CardinalityType
<1>3. ASSUME w \in S, T \subseteq S \ {w} PROVE Cardinality(T) <= Cardinality(S) - 1
  <2>1. IsFiniteSet(S \ {w}) /\ Cardinality(S \ {w}) = Cardinality(S) - 1
    BY <1>3, FS_RemoveElement
  <2> QED
    BY <1>3, <2>1, FS_Subset
<1> QED
  BY <1>1, <1>2, <1>3

\* A worker that is out moves on in its attempt, or ends it.
Moves(w, s) ==
  /\ s \in HookSteps \cup {"idle"}
  /\ hookRun' \in [HookWorkers -> HookRunRecord]
  /\ hookRun'[w].step = s
  /\ IF s = "idle" THEN hookRun'[w] = NoRun
     ELSE hookRun'[w].event = hookRun[w].event /\ hookRun'[w].token = hookRun[w].token
  /\ \A o \in HookWorkers \ {w} : hookRun'[o] = hookRun[o]

LEMMA MoveMoves ==
  ASSUME HookTypes, NEW w \in HookWorkers, NEW s \in HookSteps, Out(w), Move(w, s)
  PROVE  Moves(w, s)
BY DEF HookTypes, HookRunRecord, Move, Moves, HookSteps

LEMMA EndMoves ==
  ASSUME HookTypes, NEW w \in HookWorkers, hookRun' = [hookRun EXCEPT ![w] = NoRun]
  PROVE  Moves(w, "idle")
<1>1. NoRun \in HookRunRecord
  BY WebhooksAssumption DEF NoRun, HookRunRecord
<1> QED
  BY <1>1 DEF HookTypes, Moves, NoRun

\* Of another event nothing changes.
LEMMA OtherEvents ==
  ASSUME HookTypes, NEW w \in HookWorkers, NEW s, Moves(w, s), NEW v \in HookEvents, Out(w) => hookRun[w].event = v,
         hookRun'[w].step # "idle" => hookRun'[w].event = v,
         NEW u \in HookEvents \ {v}, hookJob'[u] = hookJob[u], taken'[u] = taken[u],
         hookFaults'[u] = hookFaults[u], attempts'[u] = attempts[u], gone \subseteq gone', SentInv(u), ExplainedInv(u)
  PROVE  SentInv(u)' /\ ExplainedInv(u)'
<1>1. MayRepeat(u)' = MayRepeat(u)
  BY DEF Moves, MayRepeat, HookTypes, Out, NoRun, BeforePost, Returning
<1>2. \A o \in HookWorkers : HeldBy(u, o)' <=> HeldBy(u, o)
  BY DEF Moves, HeldBy, HookTypes, Out, NoRun
<1>3. Waits(u)' <=> Waits(u)
  BY <1>2 DEF Waits
<1>4. Waiting(u)' = Waiting(u)
  BY <1>3 DEF Waiting
<1> QED
  BY <1>1, <1>4 DEF SentInv, ExplainedInv, Recorded, Moves, HookTypes, Out, NoRun

\* How a move changes who may repeat the event.
LEMMA RepeatersMove ==
  ASSUME HookTypes, NEW w \in HookWorkers, NEW s, Moves(w, s), NEW v \in HookEvents, Out(w), hookRun[w].event = v,
         \A t : Holds(hookJob'[v], t) => Holds(hookJob[v], t)
  PROVE  /\ MayRepeat(v)' \subseteq MayRepeat(v) \cup {w}
         /\ s \notin BeforePost /\ ~(s \in Returning /\ Holds(hookJob[v], hookRun[w].token)) =>
              MayRepeat(v)' \subseteq MayRepeat(v) \ {w}
<1>1. s = "idle" => s \notin BeforePost \cup Returning
  BY DEF BeforePost, Returning
<1> QED
  BY <1>1 DEF Moves, MayRepeat

\* A job that waits does not begin to by a move of a worker that stays out, or that did not hold it.
LEMMA WaitsMove ==
  ASSUME HookTypes, NEW w \in HookWorkers, NEW s, Moves(w, s), NEW v \in HookEvents, Out(w), hookRun[w].event = v,
         hookJob'[v] = hookJob[v], s # "idle" \/ ~Holds(hookJob[v], hookRun[w].token)
  PROVE  Waiting(v)' <= Waiting(v)
<1>1. hookJob[v].status = "leased" => \A o \in HookWorkers : HeldBy(v, o) => HeldBy(v, o)'
  BY DEF Moves, HeldBy, Out, Holds
<1>2. Waits(v)' => Waits(v)
  BY <1>1 DEF Waits
<1> QED
  BY <1>2 DEF Waiting

\* A worker's step concerns its own event only, and no row comes back.
Frame(v) ==
  /\ gone \subseteq gone'
  /\ \A u \in HookEvents \ {v} :
       /\ hookJob'[u] = hookJob[u] /\ taken'[u] = taken[u]
       /\ hookFaults'[u] = hookFaults[u] /\ attempts'[u] = attempts[u]

Typed ==
  /\ hookJob' \in [HookEvents -> Job(MaxDeliveryAttempts)]
  /\ taken' \in [HookEvents -> Nat] /\ hookFaults' \in [HookEvents -> Nat]
  /\ attempts' \in [HookEvents -> SUBSET {"delivered", "failed", "retry"}]

\* A fault is counted, or there is none.
LEMMA FaultCounted ==
  ASSUME HookTypes, NEW v \in HookEvents
  PROVE  /\ HookFault(v) => /\ hookFaults' \in [HookEvents -> Nat] /\ hookFaults'[v] = hookFaults[v] + 1
                            /\ \A u \in HookEvents \ {v} : hookFaults'[u] = hookFaults[u]
         /\ NoHookFault => hookFaults' = hookFaults
BY DEF HookTypes, HookFault, NoHookFault

\* What holds for the event of a step holds for all.
LEMMA HookStepKeeps ==
  ASSUME HookInv, NEW w \in HookWorkers, NEW s, Moves(w, s), NEW v \in HookEvents,
         Out(w) => hookRun[w].event = v, s # "idle" => hookRun'[w].event = v /\ hookRun'[w].token # 0,
         s # "idle" => hookRun'[w].token <= hookJob'[v].attempt,
         Frame(v), Typed, hookJob'[v].attempt >= hookJob[v].attempt,
         hookJob'[v].status = "leased" => hookJob'[v].attempt # 0,
         SentInv(v)', ExplainedInv(v)'
  PROVE  HookInv'
<1>1. HookTypes'
  BY DEF HookInv, HookTypes, Moves, Typed, Out, NoRun
<1>2. HookTokens'
  <2>1. ASSUME NEW o \in HookWorkers, NEW u \in HookEvents, Out(o)', hookRun'[o].event = u
        PROVE  hookRun'[o].token <= hookJob'[u].attempt
    <3>1. CASE o = w
      BY <2>1, <3>1 DEF Moves, Out
    <3>2. CASE o # w
      <4>1. hookRun'[o] = hookRun[o] /\ Out(o) /\ hookRun[o].token <= hookJob[u].attempt
        BY <2>1, <3>2 DEF Moves, Out, HookInv, HookTokens
      <4>2. hookJob'[u].attempt >= hookJob[u].attempt
        BY DEF Frame, HookInv, HookTypes, Job
      <4>3. hookRun[o].token \in Nat /\ hookJob[u].attempt \in Nat /\ hookJob'[u].attempt \in Nat
        BY WebhooksAssumption DEF HookInv, HookTypes, HookRunRecord, Typed, Job
      <4> QED
        BY <4>1, <4>2, <4>3
    <3> QED
      BY <3>1, <3>2
  <2>2. \A u \in HookEvents : hookJob'[u].status = "leased" => hookJob'[u].attempt # 0
    BY DEF Frame, HookInv, HookTokens
  <2> QED
    BY <2>1, <2>2 DEF HookTokens
<1>3. ASSUME NEW u \in HookEvents \ {v} PROVE SentInv(u)' /\ ExplainedInv(u)'
  <2>1. hookRun'[w].step # "idle" => hookRun'[w].event = v
    BY DEF Moves
  <2> QED
    BY <2>1, OtherEvents DEF Frame, HookInv
<1> QED
  BY <1>1, <1>2, <1>3 DEF HookInv

\* What is known of a worker that is out, and of its event.
LEMMA OutKnows ==
  ASSUME HookInv, NEW w \in HookWorkers, Out(w)
  PROVE  /\ hookRun[w].event \in HookEvents /\ hookRun[w].token \in Nat /\ hookRun[w].token # 0
         /\ hookRun[w].token <= hookJob[hookRun[w].event].attempt
         /\ hookRun[w].step \in HookSteps
BY WebhooksAssumption DEF HookInv, HookTypes, HookTokens, HookRunRecord, Out

\* The counts of an event are numbers.
LEMMA Counts ==
  ASSUME HookTypes, Typed, NEW v \in HookEvents
  PROVE  /\ taken[v] \in Nat /\ hookFaults[v] \in Nat /\ taken'[v] \in Nat /\ hookFaults'[v] \in Nat
         /\ Waiting(v) \in {0, 1} /\ Waiting(v)' \in {0, 1}
         /\ Cardinality(MayRepeat(v)) \in Nat /\ Cardinality(MayRepeat(v)') \in Nat
BY Repeaters DEF HookTypes, Typed, Waiting

\* A move that takes nothing, and that a fault, or less to repeat, pays for.
LEMMA MovePaid ==
  ASSUME HookTypes, Typed, NEW w \in HookWorkers, NEW s, Moves(w, s), NEW v \in HookEvents, Out(w),
         hookRun[w].event = v, \A t : Holds(hookJob'[v], t) => Holds(hookJob[v], t),
         SentInv(v), taken'[v] = taken[v],
         \/ hookFaults'[v] = hookFaults[v] + 1 /\ Waiting(v)' <= Waiting(v)
         \/ hookFaults'[v] = hookFaults[v] + 1 /\ s = "idle"
         \/ /\ hookFaults'[v] = hookFaults[v] /\ Waiting(v)' <= Waiting(v)
            /\ \/ w \in MayRepeat(v)
               \/ s \notin BeforePost /\ ~(s \in Returning /\ Holds(hookJob[v], hookRun[w].token))
         \/ /\ hookFaults'[v] = hookFaults[v] /\ w \in MayRepeat(v) /\ s = "idle"
  PROVE  SentInv(v)'
<1>1. "idle" \notin BeforePost \cup Returning
  BY DEF BeforePost, Returning
<1>2. IsFiniteSet(MayRepeat(v))
  BY Repeaters
<1>3. Cardinality(MayRepeat(v)') <= Cardinality(MayRepeat(v)) + 1
  <2>1. MayRepeat(v)' \subseteq MayRepeat(v) \cup {w}
    BY RepeatersMove
  <2> QED
    BY <1>2, <2>1, CountAtMost
<1>4. w \in MayRepeat(v) => Cardinality(MayRepeat(v)') <= Cardinality(MayRepeat(v))
  <2>1. w \in MayRepeat(v) => MayRepeat(v)' \subseteq MayRepeat(v)
    BY RepeatersMove
  <2> QED
    BY <1>2, <2>1, CountAtMost
<1>5. s \notin BeforePost /\ ~(s \in Returning /\ Holds(hookJob[v], hookRun[w].token)) =>
        /\ Cardinality(MayRepeat(v)') <= Cardinality(MayRepeat(v))
        /\ w \in MayRepeat(v) => Cardinality(MayRepeat(v)') <= Cardinality(MayRepeat(v)) - 1
  <2>1. ASSUME MayRepeat(v)' \subseteq MayRepeat(v) \ {w}
        PROVE  /\ Cardinality(MayRepeat(v)') <= Cardinality(MayRepeat(v))
               /\ w \in MayRepeat(v) => Cardinality(MayRepeat(v)') <= Cardinality(MayRepeat(v)) - 1
    <3>1. MayRepeat(v)' \subseteq MayRepeat(v)
      BY <2>1
    <3> QED
      BY <1>2, <2>1, <3>1, CountAtMost
  <2> QED
    BY <2>1, RepeatersMove
<1> DEFINE n == Cardinality(MayRepeat(v))
           m == Cardinality(MayRepeat(v)')
<1>6. /\ taken[v] \in Nat /\ hookFaults[v] \in Nat /\ n \in Nat /\ m \in Nat
      /\ Waiting(v) \in {0, 1} /\ Waiting(v)' \in {0, 1}
  BY Counts
<1>7. taken[v] + n + Waiting(v) <= 1 + hookFaults[v]
  BY DEF SentInv
<1>8. taken'[v] + m + Waiting(v)' <= 1 + hookFaults'[v]
  <2> HIDE DEF n, m
  <2>1. CASE hookFaults'[v] = hookFaults[v] + 1 /\ Waiting(v)' <= Waiting(v)
    BY <1>3, <1>6, <1>7, <2>1 DEF n, m
  <2>2. CASE hookFaults'[v] = hookFaults[v] + 1 /\ s = "idle"
    BY <1>1, <1>5, <1>6, <1>7, <2>2 DEF n, m
  <2>3. CASE /\ hookFaults'[v] = hookFaults[v] /\ Waiting(v)' <= Waiting(v)
             /\ \/ w \in MayRepeat(v)
                \/ s \notin BeforePost /\ ~(s \in Returning /\ Holds(hookJob[v], hookRun[w].token))
    BY <1>4, <1>5, <1>6, <1>7, <2>3 DEF n, m
  <2>4. CASE hookFaults'[v] = hookFaults[v] /\ w \in MayRepeat(v) /\ s = "idle"
    BY <1>1, <1>5, <1>6, <1>7, <2>4 DEF n, m
  <2> QED
    BY <2>1, <2>2, <2>3, <2>4
<1> QED
  BY <1>8 DEF SentInv

\* The same for an event that is taken: it leaves those who may repeat it, or is a fault.
LEMMA TakePaid ==
  ASSUME HookTypes, Typed, NEW w \in HookWorkers, NEW s, Moves(w, s), NEW v \in HookEvents, Out(w),
         hookRun[w].event = v, hookJob'[v] = hookJob[v], SentInv(v), taken'[v] = taken[v] + 1,
         w \in MayRepeat(v), s # "idle",
         \/ hookFaults'[v] = hookFaults[v] /\ s = "accepted"
         \/ hookFaults'[v] = hookFaults[v] + 1
  PROVE  SentInv(v)'
<1>1. \A t : Holds(hookJob'[v], t) => Holds(hookJob[v], t)
  OBVIOUS
<1>2. MayRepeat(v)' \subseteq MayRepeat(v)
  BY <1>1, RepeatersMove
<1>3. s = "accepted" => MayRepeat(v)' \subseteq MayRepeat(v) \ {w}
  BY <1>1, RepeatersMove DEF BeforePost, Returning
<1> DEFINE n == Cardinality(MayRepeat(v))
           m == Cardinality(MayRepeat(v)')
<1>4. m <= n /\ (s = "accepted" => m <= n - 1)
  BY <1>2, <1>3, Repeaters, CountAtMost
<1>5. Waiting(v)' <= Waiting(v)
  BY WaitsMove
<1>6. /\ taken[v] \in Nat /\ hookFaults[v] \in Nat /\ n \in Nat /\ m \in Nat
      /\ Waiting(v) \in {0, 1} /\ Waiting(v)' \in {0, 1}
  BY Counts
<1>7. taken[v] + n + Waiting(v) <= 1 + hookFaults[v]
  BY DEF SentInv
<1> HIDE DEF n, m
<1>8. taken'[v] + m + Waiting(v)' <= 1 + hookFaults'[v]
  BY <1>4, <1>5, <1>6, <1>7
<1> QED
  BY <1>8 DEF SentInv, m

\* A worker's step keeps what the outcomes rest on.
LEMMA ExplainedMove ==
  ASSUME HookTypes, Typed, NEW w \in HookWorkers, NEW s, Moves(w, s), NEW v \in HookEvents, Out(w),
         hookRun[w].event = v, ExplainedInv(v), gone \subseteq gone', attempts[v] \subseteq attempts'[v], taken'[v] \in {taken[v], taken[v] + 1},
         "delivered" \in attempts'[v] => "delivered" \in attempts[v] \/ taken[v] > 0,
         hookJob'[v].status = "succeeded" =>
           hookJob[v].status = "succeeded" \/ Recorded(v)',
         s = "handled" => Recorded(v)',
         s = "accepted" => taken'[v] > 0
  PROVE  ExplainedInv(v)'
<1>1. taken[v] \in Nat /\ (taken[v] > 0 => taken'[v] > 0)
  BY DEF HookTypes
<1> QED
  BY <1>1 DEF ExplainedInv, Recorded, Moves, NoRun

\* The same for a step of a worker that is out and claims nothing.
LEMMA HookStayKeeps ==
  ASSUME HookInv, NEW w \in HookWorkers, NEW s, Moves(w, s), NEW v \in HookEvents, Out(w), hookRun[w].event = v,
         Frame(v), Typed, hookJob'[v].attempt = hookJob[v].attempt,
         hookJob'[v].status = "leased" => hookJob[v].status = "leased",
         SentInv(v)', ExplainedInv(v)'
  PROVE  HookInv'
<1>1. hookRun[w].token # 0 /\ hookRun[w].token <= hookJob[v].attempt
  BY OutKnows
<1>2. hookJob[v].attempt \in Nat /\ (hookJob[v].status = "leased" => hookJob[v].attempt # 0)
  BY WebhooksAssumption DEF HookInv, HookTypes, HookTokens, Job
<1>3. s # "idle" => hookRun'[w].event = v /\ hookRun'[w].token = hookRun[w].token
  BY DEF Moves
<1>4. hookJob'[v].attempt >= hookJob[v].attempt
  BY <1>2
<1>5. s # "idle" => hookRun'[w].event = v /\ hookRun'[w].token # 0
  BY <1>1, <1>3
<1>6. s # "idle" => hookRun'[w].token <= hookJob'[v].attempt
  BY <1>1, <1>3
<1>7. hookJob'[v].status = "leased" => hookJob'[v].attempt # 0
  BY <1>2
<1>8. Out(w) => hookRun[w].event = v
  OBVIOUS
<1> QED
  BY ONLY HookInv, Moves(w, s), Frame(v), Typed, SentInv(v)', ExplainedInv(v)', <1>4, <1>5, <1>6, <1>7, <1>8, HookStepKeeps

-------------------------------------------------------------------------------
(* Steps of Webhooks *)

LEMMA HookLoadKeeps == ASSUME HookInv, NEW w \in HookWorkers, LoadDelivery(w) PROVE HookInv'
<1>1. hookRun[w].step = "claimed" /\ Out(w) /\ UNCHANGED <<gone, hookJob, taken, attempts>>
  BY DEF LoadDelivery, InStep, Out
<1>2. PICK v \in HookEvents : hookRun[w].event = v
  BY <1>1, OutKnows
<1>3. PICK s \in HookSteps :
        /\ Move(w, s)
        /\ \/ s \in {"configured", "unconfigured"} /\ NoHookFault
           \/ s = "handled" /\ v \in gone /\ NoHookFault
           \/ s = "throwing" /\ HookFault(v)
  BY <1>2 DEF LoadDelivery, HookSteps
<1>4. Moves(w, s) /\ s # "idle"
  BY <1>1, <1>3, MoveMoves DEF HookInv, HookSteps
<1>5. Typed /\ Frame(v)
  BY <1>1, <1>3, FaultCounted DEF HookInv, HookTypes, Typed, Frame
<1>6. w \in MayRepeat(v)
  BY <1>1, <1>2 DEF MayRepeat, BeforePost
<1>7. Waiting(v)' <= Waiting(v)
  BY <1>1, <1>2, <1>4, WaitsMove DEF HookInv
<1>8. SentInv(v)'
  BY <1>1, <1>2, <1>3, <1>4, <1>5, <1>6, <1>7, MovePaid, FaultCounted DEF HookInv
<1>9. ExplainedInv(v)'
  <2>1. s = "handled" => Recorded(v)'
    BY <1>1, <1>3 DEF Recorded
  <2>2. "delivered" \in attempts[v] => taken[v] > 0
    BY DEF HookInv, ExplainedInv
  <2> QED
    BY <1>1, <1>2, <1>3, <1>4, <1>5, <2>1, <2>2, ExplainedMove DEF HookInv
<1> QED
  BY <1>1, <1>2, <1>4, <1>5, <1>8, <1>9, HookStayKeeps

LEMMA HookResolveKeeps == ASSUME HookInv, NEW w \in HookWorkers, ResolveDestination(w) PROVE HookInv'
<1>1. hookRun[w].step = "configured" /\ Out(w) /\ UNCHANGED <<gone, hookJob, taken, attempts, hookFaults>>
  BY DEF ResolveDestination, InStep, Out
<1>2. PICK v \in HookEvents : hookRun[w].event = v
  BY <1>1, OutKnows
<1>3. PICK s \in HookSteps : Move(w, s) /\ s \in {"resolved", "throwing"}
  BY DEF ResolveDestination, HookSteps
<1>4. Moves(w, s) /\ s # "idle"
  BY <1>1, <1>3, MoveMoves DEF HookInv, HookSteps
<1>5. Typed /\ Frame(v)
  BY <1>1 DEF HookInv, HookTypes, Typed, Frame
<1>6. w \in MayRepeat(v)
  BY <1>1, <1>2 DEF MayRepeat, BeforePost
<1>7. Waiting(v)' <= Waiting(v)
  BY <1>1, <1>2, <1>4, WaitsMove DEF HookInv
<1>8. SentInv(v)'
  BY <1>1, <1>2, <1>3, <1>4, <1>5, <1>6, <1>7, MovePaid DEF HookInv
<1>9. ExplainedInv(v)'
  BY <1>1, <1>2, <1>3, <1>4, <1>5, ExplainedMove DEF HookInv
<1> QED
  BY <1>1, <1>2, <1>4, <1>5, <1>8, <1>9, HookStayKeeps

LEMMA HookPostKeeps == ASSUME HookInv, NEW w \in HookWorkers, Post(w) PROVE HookInv'
<1>1. hookRun[w].step = "resolved" /\ Out(w) /\ UNCHANGED <<gone, hookJob, attempts>>
  BY DEF Post, InStep, Out
<1>2. PICK v \in HookEvents : hookRun[w].event = v
  BY <1>1, OutKnows
<1>3. PICK s \in HookSteps :
        /\ Move(w, s)
        /\ \/ s = "accepted" /\ NoHookFault /\ taken' = [taken EXCEPT ![v] = @ + 1]
           \/ s = "silent" /\ HookFault(v) /\ taken' = [taken EXCEPT ![v] = @ + 1]
           \/ s \in {"refused", "busy", "silent"} /\ NoHookFault /\ UNCHANGED taken
  BY <1>2 DEF Post, HookSteps
<1>4. Moves(w, s) /\ s # "idle"
  BY <1>1, <1>3, MoveMoves DEF HookInv, HookSteps
<1>5. Typed /\ Frame(v) /\ taken'[v] \in {taken[v], taken[v] + 1} /\ taken[v] \in Nat
      /\ (taken' = [taken EXCEPT ![v] = @ + 1] => taken'[v] = taken[v] + 1)
  BY <1>1, <1>3, FaultCounted DEF HookInv, HookTypes, Typed, Frame
<1>6. w \in MayRepeat(v)
  BY <1>1, <1>2 DEF MayRepeat, BeforePost
<1>7. Waiting(v)' <= Waiting(v)
  BY <1>1, <1>2, <1>4, WaitsMove DEF HookInv
<1>8. SentInv(v)'
  <2>1. CASE taken' = taken /\ NoHookFault
    BY <1>1, <1>2, <1>4, <1>5, <1>6, <1>7, <2>1, MovePaid, FaultCounted DEF HookInv
  <2>2. CASE taken' = [taken EXCEPT ![v] = @ + 1]
    BY <1>1, <1>2, <1>3, <1>4, <1>5, <1>6, <2>2, TakePaid, FaultCounted DEF HookInv
  <2> QED
    BY <1>3, <2>1, <2>2
<1>9. ExplainedInv(v)'
  <2>1. s = "accepted" => taken'[v] > 0
    BY <1>3, <1>5
  <2> QED
    BY <1>1, <1>2, <1>3, <1>4, <1>5, <2>1, ExplainedMove DEF HookInv
<1> QED
  BY <1>1, <1>2, <1>4, <1>5, <1>8, <1>9, HookStayKeeps

LEMMA HookRecordKeeps == ASSUME HookInv, NEW w \in HookWorkers, RecordWebhookAttempt(w) PROVE HookInv'
<1> DEFINE step == hookRun[w].step
<1>1. /\ step \in {"accepted", "refused", "busy", "silent", "unconfigured"} /\ Out(w)
      /\ UNCHANGED <<gone, hookJob, taken>>
  BY DEF RecordWebhookAttempt, InStep, Out
<1>2. PICK v \in HookEvents : hookRun[w].event = v
  BY <1>1, OutKnows
<1>a. /\ Outcome(step) \in {"delivered", "failed", "retry"}
      /\ Outcome(step) = "delivered" => step = "accepted"
      /\ Outcome(step) = "retry" => step \in {"busy", "silent"}
  BY <1>1 DEF Outcome
<1>3. PICK s \in HookSteps :
        /\ Move(w, s)
        /\ \/ /\ s = AfterRecord(step) /\ NoHookFault
              /\ \/ v \in gone /\ attempts' = attempts
                 \/ attempts' = [attempts EXCEPT ![v] = @ \cup {Outcome(step)}]
           \/ /\ s = "throwing" /\ HookFault(v)
              /\ attempts' \in {attempts, [attempts EXCEPT ![v] = @ \cup {Outcome(step)}]}
  BY <1>2 DEF RecordWebhookAttempt, HookSteps, AfterRecord
<1>b. s = AfterRecord(step) => 
       (s = "throwing" /\ Outcome(step) = "retry") \/ (s = "handled" /\ Outcome(step) # "retry")
  <2> HIDE DEF step
  <2>1. CASE Outcome(step) = "retry"
    BY <2>1 DEF AfterRecord
  <2>2. CASE Outcome(step) # "retry"
    BY <2>2 DEF AfterRecord
  <2> QED
    BY <2>1, <2>2
<1>c. s \in {"throwing", "handled"}
  BY <1>3, <1>b
<1> HIDE DEF step
<1>4. Moves(w, s) /\ s # "idle"
  BY <1>1, <1>3, MoveMoves DEF HookInv, HookSteps
<1>5. /\ Typed /\ Frame(v)
      /\ attempts'[v] \in {attempts[v], attempts[v] \cup {Outcome(step)}}
      /\ NoHookFault => v \in gone \/ attempts'[v] = attempts[v] \cup {Outcome(step)} \/ HookFault(v)
  BY <1>1, <1>3, <1>a, FaultCounted DEF HookInv, HookTypes, Typed, Frame
<1>6. Waiting(v)' <= Waiting(v)
  BY <1>1, <1>2, <1>4, WaitsMove DEF HookInv
<1>7. SentInv(v)'
  <2>1. CASE NoHookFault /\ s = AfterRecord(step)
    <3>1. CASE s = "throwing" /\ Holds(hookJob[v], hookRun[w].token)
      <4>1. w \in MayRepeat(v)
        BY <1>2, <1>a, <1>b, <2>1, <3>1 DEF MayRepeat, Returning, step
      <4> QED
        BY <1>1, <1>2, <1>4, <1>5, <1>6, <2>1, <4>1, MovePaid, FaultCounted DEF HookInv
    <3>2. CASE ~(s = "throwing" /\ Holds(hookJob[v], hookRun[w].token))
      <4>1. s \notin BeforePost /\ ~(s \in Returning /\ Holds(hookJob[v], hookRun[w].token))
        BY <1>c, <3>2 DEF BeforePost, Returning
      <4> QED
        BY <1>1, <1>2, <1>4, <1>5, <1>6, <2>1, <4>1, MovePaid, FaultCounted DEF HookInv
    <3> QED
      BY <3>1, <3>2
  <2>2. CASE HookFault(v)
    BY <1>1, <1>2, <1>4, <1>5, <1>6, <2>2, MovePaid, FaultCounted DEF HookInv
  <2> QED
    BY <1>3, <2>1, <2>2
<1>8. ExplainedInv(v)'
  <2>1. step = "accepted" => taken[v] > 0
    BY <1>2 DEF HookInv, ExplainedInv, step
  <2>2. s = "handled" => /\ Outcome(step) # "retry"
                         /\ v \in gone \/ attempts'[v] = attempts[v] \cup {Outcome(step)}
    BY <1>3, <1>b DEF HookInv, HookTypes
  <2>3. s = "handled" => Recorded(v)'
    BY <1>1, <1>a, <2>2 DEF Recorded
  <2> QED
    BY <1>1, <1>2, <1>4, <1>5, <1>a, <1>c, <2>1, <2>3, ExplainedMove DEF HookInv
<1> QED
  BY <1>1, <1>2, <1>4, <1>5, <1>7, <1>8, HookStayKeeps

\* A step of nobody: the job of an event changes, its attempts do not.
LEMMA HookJobStepKeeps ==
  ASSUME HookInv, hookRun' = hookRun, NEW v \in HookEvents, Frame(v), Typed,
         hookJob'[v].attempt = hookJob[v].attempt,
         hookJob'[v].status = "leased" => hookJob[v].status = "leased",
         SentInv(v)', ExplainedInv(v)'
  PROVE  HookInv'
<1>1. \A u \in HookEvents : hookJob'[u].attempt = hookJob[u].attempt
  BY DEF Frame
<1>2. HookTypes'
  BY DEF HookInv, HookTypes, Typed, Out
<1>3. HookTokens'
  BY <1>1 DEF HookInv, HookTokens, Frame, Out
<1>4. ASSUME NEW u \in HookEvents \ {v} PROVE SentInv(u)' /\ ExplainedInv(u)'
  <2>1. /\ hookJob'[u] = hookJob[u] /\ taken'[u] = taken[u]
        /\ hookFaults'[u] = hookFaults[u] /\ attempts'[u] = attempts[u]
    BY DEF Frame
  <2>2. MayRepeat(u)' = MayRepeat(u)
    BY <2>1 DEF MayRepeat
  <2>3. Waiting(u)' = Waiting(u)
    BY <2>1 DEF Waiting, Waits, HeldBy, Out
  <2> QED
    BY <2>1, <2>2, <2>3 DEF HookInv, SentInv, ExplainedInv, Recorded, Frame
<1> QED
  BY <1>2, <1>3, <1>4 DEF HookInv

LEMMA HookCompleteKeeps == ASSUME HookInv, NEW w \in HookWorkers, CompleteHook(w) PROVE HookInv'
<1>1. hookRun[w].step = "handled" /\ Out(w) /\ UNCHANGED <<gone, taken, attempts>>
  BY DEF CompleteHook, InStep, Out
<1>2. PICK v \in HookEvents : hookRun[w].event = v
  BY <1>1, OutKnows
<1> DEFINE Done == hookJob' = [hookJob EXCEPT ![v] = Succeed(@)]
<1>3. \/ Holds(hookJob[v], hookRun[w].token) /\ NoHookFault /\ Done /\ hookRun' = [hookRun EXCEPT ![w] = NoRun]
      \/ ~Holds(hookJob[v], hookRun[w].token) /\ Move(w, "throwing") /\ UNCHANGED hookJob /\ NoHookFault
      \/ Move(w, "throwing") /\ HookFault(v) /\ (UNCHANGED hookJob \/ Done)
  BY <1>2 DEF CompleteHook
<1>4. PICK s : /\ Moves(w, s) /\ s \in {"idle", "throwing"}
               /\ \/ s = "idle" /\ NoHookFault /\ Done
                  \/ s = "throwing" /\ ~Holds(hookJob[v], hookRun[w].token) /\ UNCHANGED hookJob /\ NoHookFault
                  \/ s = "throwing" /\ HookFault(v) /\ (UNCHANGED hookJob \/ Done)
  <2>1. "throwing" \in HookSteps
    BY DEF HookSteps
  <2> QED
    BY <1>1, <1>3, <2>1, MoveMoves, EndMoves DEF HookInv
<1>5. Done => /\ hookJob' \in [HookEvents -> Job(MaxDeliveryAttempts)] /\ hookJob'[v].status = "succeeded"
              /\ hookJob'[v].attempt = hookJob[v].attempt
              /\ \A u \in HookEvents \ {v} : hookJob'[u] = hookJob[u]
  <2>1. hookJob[v] \in Job(MaxDeliveryAttempts)
    BY DEF HookInv, HookTypes
  <2>2. /\ Succeed(hookJob[v]) \in Job(MaxDeliveryAttempts) /\ Succeed(hookJob[v]).status = "succeeded"
        /\ Succeed(hookJob[v]).attempt = hookJob[v].attempt
    BY <2>1 DEF Job, JobStatuses, Succeed
  <2> QED
    BY <2>2 DEF HookInv, HookTypes
<1>6. Typed /\ Frame(v)
  BY <1>1, <1>4, <1>5, FaultCounted DEF HookInv, HookTypes, Typed, Frame
<1>7. Waiting(v)' <= Waiting(v)
  <2>1. CASE Done
    <3>1. ~Waits(v)'
      BY <1>5, <2>1 DEF Waits
    <3> QED
      BY <3>1 DEF Waiting
  <2>2. CASE hookJob' = hookJob /\ s = "throwing"
    BY <1>1, <1>2, <1>4, <2>2, WaitsMove DEF HookInv
  <2> QED
    BY <1>4, <2>1, <2>2
<1>8. \A t : Holds(hookJob'[v], t) => Holds(hookJob[v], t)
  BY <1>4, <1>5 DEF Holds
<1>9. SentInv(v)'
  <2>1. CASE HookFault(v)
    BY <1>1, <1>2, <1>4, <1>6, <1>7, <1>8, <2>1, MovePaid, FaultCounted DEF HookInv
  <2>2. CASE NoHookFault /\ (s = "idle" \/ (s = "throwing" /\ ~Holds(hookJob[v], hookRun[w].token)))
    <3>1. s \notin BeforePost /\ ~(s \in Returning /\ Holds(hookJob[v], hookRun[w].token))
      BY <2>2 DEF BeforePost, Returning
    <3> QED
      BY <1>1, <1>2, <1>4, <1>6, <1>7, <1>8, <2>2, <3>1, MovePaid, FaultCounted DEF HookInv
  <2> QED
    BY <1>4, <2>1, <2>2
<1>10. ExplainedInv(v)'
  <2>1. Recorded(v)'
    BY <1>1, <1>2 DEF HookInv, ExplainedInv, Recorded
  <2>2. "delivered" \in attempts[v] => taken[v] > 0
    BY DEF HookInv, ExplainedInv
  <2> QED
    BY <1>1, <1>2, <1>4, <1>6, <2>1, <2>2, ExplainedMove DEF HookInv
<1>11. /\ hookJob'[v].attempt = hookJob[v].attempt
       /\ hookJob'[v].status = "leased" => hookJob[v].status = "leased"
  BY <1>4, <1>5
<1> QED
  BY <1>1, <1>2, <1>4, <1>6, <1>9, <1>10, <1>11, HookStayKeeps

LEMMA HookFailKeeps == ASSUME HookInv, NEW w \in HookWorkers, FailHook(w) PROVE HookInv'
<1>1. hookRun[w].step = "throwing" /\ Out(w) /\ UNCHANGED <<gone, taken, attempts>> /\ Moves(w, "idle")
  BY EndMoves DEF FailHook, InStep, Out, HookInv
<1>2. PICK v \in HookEvents : hookRun[w].event = v
  BY <1>1, OutKnows
<1> DEFINE token == hookRun[w].token
           failed == FailHeld(hookJob[v], token, MaxDeliveryAttempts)
<1>3. \/ hookJob' = [hookJob EXCEPT ![v] = failed] /\ NoHookFault
      \/ UNCHANGED hookJob /\ HookFault(v)
  BY <1>2 DEF FailHook
<1>4. /\ failed \in Job(MaxDeliveryAttempts) /\ failed.attempt = hookJob[v].attempt
      /\ failed.status = "leased" => hookJob[v].status = "leased"
      /\ failed.status = "succeeded" => hookJob[v].status = "succeeded"
      /\ \A t : Holds(failed, t) => Holds(hookJob[v], t)
      /\ ~Holds(hookJob[v], token) => failed = hookJob[v]
  <2>1. hookJob[v] \in Job(MaxDeliveryAttempts)
    BY DEF HookInv, HookTypes
  <2> QED
    BY <2>1 DEF FailHeld, Fail, Holds, Job, JobStatuses
<1> HIDE DEF token, failed
<1>5. /\ hookJob' \in [HookEvents -> Job(MaxDeliveryAttempts)] /\ hookJob'[v] \in {hookJob[v], failed}
      /\ NoHookFault => hookJob'[v] = failed \/ HookFault(v)
      /\ \A u \in HookEvents \ {v} : hookJob'[u] = hookJob[u]
  BY <1>3, <1>4 DEF HookInv, HookTypes
<1>6. Typed /\ Frame(v)
  BY <1>1, <1>3, <1>5, FaultCounted DEF HookInv, HookTypes, Typed, Frame
<1>7. \A t : Holds(hookJob'[v], t) => Holds(hookJob[v], t)
  BY <1>4, <1>5
<1>8. SentInv(v)'
  <2>1. CASE HookFault(v)
    BY <1>1, <1>2, <1>6, <1>7, <2>1, MovePaid, FaultCounted DEF HookInv
  <2>2. CASE NoHookFault /\ hookJob'[v] = failed /\ Holds(hookJob[v], token)
    <3>1. w \in MayRepeat(v)
      BY <1>1, <1>2, <2>2 DEF MayRepeat, Returning, token
    <3> QED
      BY <1>1, <1>2, <1>6, <1>7, <2>2, <3>1, MovePaid, FaultCounted DEF HookInv
  <2>3. CASE NoHookFault /\ hookJob'[v] = failed /\ ~Holds(hookJob[v], token)
    <3>1. hookJob'[v] = hookJob[v]
      BY <1>4, <2>3
    <3>2. Waiting(v)' <= Waiting(v)
      BY <1>1, <1>2, <2>3, <3>1, WaitsMove DEF HookInv, token
    <3>3. "idle" \notin BeforePost \cup Returning
      BY DEF BeforePost, Returning
    <3> QED
      BY <1>1, <1>2, <1>6, <1>7, <2>3, <3>2, <3>3, MovePaid, FaultCounted DEF HookInv
  <2> QED
    BY <1>3, <1>5, <2>1, <2>2, <2>3
<1>9. ExplainedInv(v)'
  <2>1. "delivered" \in attempts[v] => taken[v] > 0
    BY DEF HookInv, ExplainedInv
  <2>2. hookJob'[v].status = "succeeded" => hookJob[v].status = "succeeded"
    BY <1>4, <1>5
  <2> QED
    BY <1>1, <1>2, <1>6, <2>1, <2>2, ExplainedMove DEF HookInv
<1>10. /\ hookJob'[v].attempt = hookJob[v].attempt
       /\ hookJob'[v].status = "leased" => hookJob[v].status = "leased"
  BY <1>4, <1>5
<1> QED
  BY <1>1, <1>2, <1>6, <1>8, <1>9, <1>10, HookStayKeeps

LEMMA HookDiesKeeps == ASSUME HookInv, NEW w \in HookWorkers, HookWorkerDies(w) PROVE HookInv'
<1>1. Out(w) /\ UNCHANGED <<gone, hookJob, taken, attempts>> /\ Moves(w, "idle")
  BY EndMoves DEF HookWorkerDies, Out, HookInv, HookTypes
<1>2. PICK v \in HookEvents : hookRun[w].event = v
  BY <1>1, OutKnows
<1>3. HookFault(v)
  BY <1>2 DEF HookWorkerDies
<1>4. Typed /\ Frame(v)
  BY <1>1, <1>3, FaultCounted DEF HookInv, HookTypes, Typed, Frame
<1>5. SentInv(v)'
  BY <1>1, <1>2, <1>3, <1>4, MovePaid, FaultCounted DEF HookInv
<1>6. ExplainedInv(v)'
  <2>1. "delivered" \in attempts[v] => taken[v] > 0
    BY DEF HookInv, ExplainedInv
  <2> QED
    BY <1>1, <1>2, <1>4, <2>1, ExplainedMove DEF HookInv
<1> QED
  BY <1>1, <1>2, <1>4, <1>5, <1>6, HookStayKeeps

LEMMA HookClaimKeeps == ASSUME HookInv, NEW w \in HookWorkers, NEW v \in HookEvents, ClaimHook(w, v) PROVE HookInv'
<1> DEFINE n == Cardinality(MayRepeat(v))
           m == Cardinality(MayRepeat(v)')
           run == [event |-> v, token |-> hookJob[v].attempt + 1, step |-> "claimed"]
<1>1. /\ hookRun[w] = NoRun /\ ~Out(w) /\ UNCHANGED <<gone, taken, attempts, hookFaults>>
      /\ hookJob' = [hookJob EXCEPT ![v] = Claim(@)] /\ hookRun' = [hookRun EXCEPT ![w] = run]
  BY DEF ClaimHook, NoRun, Out
<1>2. hookJob[v] \in Job(MaxDeliveryAttempts) /\ hookJob[v].attempt \in Nat
  BY WebhooksAssumption DEF HookInv, HookTypes, Job
<1>3. /\ hookJob[v].attempt < MaxDeliveryAttempts
      /\ \/ hookJob[v].status \in {"queued", "retry"}
         \/ hookJob[v].status = "leased" /\ hookJob[v].expired
  BY DEF ClaimHook, Claimable
<1>4. /\ hookJob' \in [HookEvents -> Job(MaxDeliveryAttempts)]
      /\ hookJob'[v].status = "leased" /\ ~hookJob'[v].expired /\ hookJob'[v].attempt = hookJob[v].attempt + 1
      /\ \A u \in HookEvents \ {v} : hookJob'[u] = hookJob[u]
  <2>1. Claim(hookJob[v]) \in Job(MaxDeliveryAttempts)
    BY <1>2, <1>3, WebhooksAssumption DEF Claim, Job, JobStatuses
  <2> QED
    BY <1>1, <2>1 DEF Claim, HookInv, HookTypes
<1>5. run \in HookRunRecord
  BY <1>2, <1>3, WebhooksAssumption DEF HookRunRecord, HookSteps
<1>6. /\ hookRun' \in [HookWorkers -> HookRunRecord] /\ hookRun'[w] = run
      /\ \A o \in HookWorkers \ {w} : hookRun'[o] = hookRun[o]
  BY <1>1, <1>5 DEF HookInv, HookTypes
<1>8. m <= n + 1
  <2>1. ASSUME NEW o \in MayRepeat(v)', o # w PROVE o \in MayRepeat(v)
    <3>1. o \in HookWorkers /\ hookRun'[o] = hookRun[o] /\ hookRun[o].event = v
      BY <1>6, <2>1 DEF MayRepeat
    <3>2. CASE hookRun[o].step \in BeforePost
      BY <3>1, <3>2 DEF MayRepeat
    <3>3. CASE hookRun[o].step \in Returning /\ Holds(hookJob'[v], hookRun[o].token)
      <4>1. Out(o)
        BY <3>3 DEF Out, Returning
      <4>2. hookRun[o].token <= hookJob[v].attempt /\ hookRun[o].token \in Nat
        BY <3>1, <4>1, OutKnows
      <4> QED
        BY <1>2, <1>4, <3>3, <4>2 DEF Holds
    <3> QED
      BY <2>1, <3>1, <3>2, <3>3 DEF MayRepeat
  <2>2. MayRepeat(v)' \subseteq MayRepeat(v) \cup {w}
    BY <2>1
  <2> QED
    BY <2>2, Repeaters, CountAtMost
<1>9. Waiting(v) = 1 /\ Waiting(v)' = 0
  <2>1. Waits(v)
    BY <1>3 DEF Waits
  <2>2. HeldBy(v, w)'
    BY <1>4, <1>6 DEF HeldBy, Out
  <2>3. ~Waits(v)'
    BY <1>4, <2>2 DEF Waits
  <2> QED
    BY <2>1, <2>3 DEF Waiting
<1>10. Typed /\ Frame(v)
  BY <1>1, <1>4 DEF HookInv, HookTypes, Typed, Frame
<1>11. SentInv(v)'
  <2>1. taken[v] \in Nat /\ hookFaults[v] \in Nat /\ n \in Nat /\ m \in Nat
    BY <1>10, Counts DEF HookInv
  <2>2. taken[v] + n + 1 <= 1 + hookFaults[v]
    BY <1>9 DEF HookInv, SentInv
  <2> HIDE DEF n, m
  <2>3. taken[v] + m + 0 <= 1 + hookFaults[v]
    BY <1>8, <2>1, <2>2
  <2> QED
    BY <1>1, <1>9, <2>3 DEF SentInv, m
<1>12. ExplainedInv(v)'
  BY <1>1, <1>4, <1>6 DEF HookInv, ExplainedInv, Recorded
<1>13. HookTypes'
  BY <1>2, <1>6, <1>10 DEF HookInv, HookTypes, Typed, Out
<1>14. HookTokens'
  <2>1. ASSUME NEW o \in HookWorkers, NEW u \in HookEvents, Out(o)', hookRun'[o].event = u
        PROVE  hookRun'[o].token <= hookJob'[u].attempt
    <3>1. CASE o = w
      BY <1>2, <1>4, <1>6, <2>1, <3>1
    <3>2. CASE o # w
      <4>1. hookRun'[o] = hookRun[o] /\ Out(o) /\ hookRun[o].token <= hookJob[u].attempt
        BY <1>6, <2>1, <3>2 DEF Out, HookInv, HookTokens
      <4>2. hookRun[o].token \in Nat
        BY <4>1, OutKnows
      <4> QED
        BY <1>2, <1>4, <4>1, <4>2
    <3> QED
      BY <3>1, <3>2
  <2>2. \A u \in HookEvents : hookJob'[u].status = "leased" => hookJob'[u].attempt # 0
    BY <1>2, <1>4 DEF HookInv, HookTokens
  <2> QED
    BY <2>1, <2>2 DEF HookTokens
<1>15. ASSUME NEW u \in HookEvents \ {v} PROVE SentInv(u)' /\ ExplainedInv(u)'
  <2>1. /\ hookJob'[u] = hookJob[u] /\ taken'[u] = taken[u]
        /\ hookFaults'[u] = hookFaults[u] /\ attempts'[u] = attempts[u]
    BY <1>1, <1>4
  <2>2. MayRepeat(u)' = MayRepeat(u)
    BY <1>1, <1>6, <2>1 DEF MayRepeat, NoRun, BeforePost, Returning
  <2>3. \A o \in HookWorkers : HeldBy(u, o)' <=> HeldBy(u, o)
    BY <1>1, <1>6, <2>1 DEF HeldBy, Out
  <2>4. Waiting(u)' = Waiting(u)
    BY <2>1, <2>3 DEF Waiting, Waits
  <2> QED
    BY <1>1, <1>6, <2>1, <2>2, <2>4 DEF HookInv, SentInv, ExplainedInv, Recorded, NoRun
<1> QED
  BY <1>11, <1>12, <1>13, <1>14, <1>15 DEF HookInv

LEMMA HookRunsOutKeeps == ASSUME HookInv, NEW v \in HookEvents, HookLeaseRunsOut(v) PROVE HookInv'
<1> DEFINE owned == \E w \in HookWorkers : hookRun[w].event = v /\ hookRun[w].token = hookJob[v].attempt
<1>1. /\ hookJob[v].status = "leased" /\ UNCHANGED <<gone, hookRun, taken, attempts>>
      /\ hookJob' = [hookJob EXCEPT ![v] = Expire(@)]
      /\ (owned /\ HookFault(v)) \/ (~owned /\ NoHookFault)
  BY DEF HookLeaseRunsOut
<1>2. /\ hookJob' \in [HookEvents -> Job(MaxDeliveryAttempts)]
      /\ hookJob'[v].status = "leased" /\ hookJob'[v].attempt = hookJob[v].attempt
      /\ \A u \in HookEvents \ {v} : hookJob'[u] = hookJob[u]
  BY <1>1 DEF HookInv, HookTypes, Job, JobStatuses, Expire
<1>3. Typed /\ Frame(v)
  BY <1>1, <1>2, FaultCounted DEF HookInv, HookTypes, Typed, Frame
<1>4. MayRepeat(v)' = MayRepeat(v)
  BY <1>1, <1>2 DEF MayRepeat, Holds
<1>5. ~owned => Waits(v)
  BY <1>1 DEF Waits, HeldBy
<1>6. SentInv(v)'
  <2> DEFINE n == Cardinality(MayRepeat(v))
  <2>1. /\ taken[v] \in Nat /\ hookFaults[v] \in Nat /\ n \in Nat
        /\ Waiting(v) \in {0, 1} /\ Waiting(v)' \in {0, 1}
    BY <1>3, Counts DEF HookInv
  <2>2. taken[v] + n + Waiting(v) <= 1 + hookFaults[v]
    BY DEF HookInv, SentInv
  <2>3. hookFaults'[v] = hookFaults[v] + 1 \/ (hookFaults'[v] = hookFaults[v] /\ Waiting(v) = 1)
    BY <1>1, <1>5, FaultCounted DEF HookInv, Waiting
  <2> HIDE DEF n
  <2>4. taken[v] + n + Waiting(v)' <= 1 + hookFaults'[v]
    BY <2>1, <2>2, <2>3
  <2> QED
    BY <1>1, <1>4, <2>4 DEF SentInv, n
<1>7. ExplainedInv(v)'
  BY <1>1, <1>2 DEF HookInv, ExplainedInv, Recorded
<1> QED
  BY <1>1, <1>2, <1>3, <1>6, <1>7, HookJobStepKeeps

LEMMA HookPublishKeeps == ASSUME HookInv, NEW v \in HookEvents, PublishEvent(v) PROVE HookInv'
<1>1. /\ hookJob[v] = NoJob /\ UNCHANGED <<gone, hookRun, taken, attempts, hookFaults>>
      /\ hookJob' = [hookJob EXCEPT ![v] = Enqueue(@)]
  BY DEF PublishEvent
<1>2. /\ hookJob' \in [HookEvents -> Job(MaxDeliveryAttempts)] /\ hookJob[v].status = "absent"
      /\ hookJob'[v].status = "queued" /\ hookJob'[v].attempt = hookJob[v].attempt
      /\ \A u \in HookEvents \ {v} : hookJob'[u] = hookJob[u]
  <2> DEFINE queued == Enqueue(hookJob[v])
  <2>0. NoJob.status = "absent"
    BY DEF NoJob
  <2>1. hookJob[v] \in Job(MaxDeliveryAttempts) /\ hookJob[v].status = "absent"
    BY <1>1, <2>0 DEF HookInv, HookTypes
  <2>2. queued \in Job(MaxDeliveryAttempts) /\ queued.status = "queued" /\ queued.attempt = hookJob[v].attempt
    BY <2>1 DEF Job, JobStatuses, Enqueue
  <2> HIDE DEF queued
  <2>3. hookJob' = [hookJob EXCEPT ![v] = queued]
    BY <1>1 DEF queued
  <2> QED
    BY <2>1, <2>2, <2>3 DEF HookInv, HookTypes
<1>3. Typed /\ Frame(v)
  BY <1>1, <1>2 DEF HookInv, HookTypes, Typed, Frame
<1>4. MayRepeat(v)' = MayRepeat(v)
  BY <1>1, <1>2 DEF MayRepeat, Holds
<1>5. Waiting(v) = 1 /\ Waiting(v)' = 1
  BY <1>2 DEF Waiting, Waits
<1>6. SentInv(v)'
  BY <1>1, <1>4, <1>5 DEF HookInv, SentInv
<1>7. ExplainedInv(v)'
  BY <1>1, <1>2 DEF HookInv, ExplainedInv, Recorded
<1> QED
  BY <1>1, <1>2, <1>3, <1>6, <1>7, HookJobStepKeeps

LEMMA HookGoesKeeps == ASSUME HookInv, NEW v \in HookEvents, EventGoes(v) PROVE HookInv'
<1>1. gone \subseteq gone' /\ UNCHANGED <<hookJob, hookRun, taken, attempts, hookFaults>>
  BY DEF EventGoes
<1>2. Typed /\ Frame(v)
  BY <1>1 DEF HookInv, HookTypes, Typed, Frame
<1>3. MayRepeat(v)' = MayRepeat(v) /\ Waiting(v)' = Waiting(v)
  BY <1>1 DEF MayRepeat, Waiting, Waits, HeldBy, Out
<1>4. SentInv(v)' /\ ExplainedInv(v)'
  BY <1>1, <1>3 DEF HookInv, SentInv, ExplainedInv, Recorded
<1> QED
  BY <1>1, <1>2, <1>4, HookJobStepKeeps

LEMMA HookInvInit == WebhooksInit => HookInv
<1> SUFFICES ASSUME WebhooksInit PROVE HookInv
  OBVIOUS
<1>1. NoRun \in HookRunRecord /\ NoJob \in Job(MaxDeliveryAttempts)
  BY WebhooksAssumption DEF NoRun, HookRunRecord, NoJob, Job, JobStatuses
<1>2. HookTypes
  BY <1>1 DEF WebhooksInit, HookTypes, Out, NoRun
<1>3. HookTokens
  BY DEF WebhooksInit, HookTokens, Out, NoRun, NoJob
<1>4. ASSUME NEW v \in HookEvents PROVE SentInv(v) /\ ExplainedInv(v)
  <2>1. MayRepeat(v) = {}
    BY DEF WebhooksInit, MayRepeat, NoRun, BeforePost, Returning
  <2>2. Cardinality(MayRepeat(v)) = 0
    BY <2>1, FS_EmptySet
  <2>3. Waiting(v) = 1
    BY DEF WebhooksInit, Waiting, Waits, NoJob
  <2> QED
    BY <2>2, <2>3 DEF WebhooksInit, SentInv, ExplainedInv, NoRun, NoJob
<1> QED
  BY <1>2, <1>3, <1>4 DEF HookInv

\* Administrators do not touch deliveries.
LEMMA HookRestKeeps == ASSUME HookInv, AdminOnly PROVE HookInv'
<1>1. \A v : MayRepeat(v)' = MayRepeat(v) /\ Waiting(v)' = Waiting(v)
  BY DEF AdminOnly, MayRepeat, Waiting, Waits, HeldBy, Out
<1> QED
  BY <1>1 DEF AdminOnly, HookInv, HookTypes, HookTokens, SentInv, ExplainedInv, Recorded, Out

LEMMA HookInvNext == HookInv /\ [WebhooksNext]_hookVars => HookInv'
<1> SUFFICES ASSUME HookInv, [WebhooksNext]_hookVars PROVE HookInv'
  OBVIOUS
<1>1. CASE UNCHANGED hookVars
  BY <1>1, HookRestKeeps DEF hookVars, AdminOnly
<1>2. ASSUME NEW e \in Endpoints,
             InsertEndpoint(e) \/ InsertSecret(e) \/ DisableEndpoint(e) \/ RevokeSecrets(e)
      PROVE  HookInv'
  BY <1>2, HookRestKeeps DEF InsertEndpoint, InsertSecret, DisableEndpoint, RevokeSecrets
<1>3. ASSUME NEW v \in HookEvents, PublishEvent(v) \/ HookLeaseRunsOut(v) \/ EventGoes(v) PROVE HookInv'
  BY <1>3, HookPublishKeeps, HookRunsOutKeeps, HookGoesKeeps
<1>4. ASSUME NEW w \in HookWorkers, NEW v \in HookEvents, ClaimHook(w, v) PROVE HookInv'
  BY <1>4, HookClaimKeeps
<1>5. ASSUME NEW w \in HookWorkers,
             \/ LoadDelivery(w) \/ ResolveDestination(w) \/ Post(w) \/ RecordWebhookAttempt(w)
             \/ CompleteHook(w) \/ FailHook(w) \/ HookWorkerDies(w)
      PROVE  HookInv'
  BY <1>5, HookLoadKeeps, HookResolveKeeps, HookPostKeeps, HookRecordKeeps, HookCompleteKeeps, HookFailKeeps, HookDiesKeeps
<1> QED
  BY <1>1, <1>2, <1>3, <1>4, <1>5 DEF WebhooksNext

\* What the worker sends and what it records agree: each time a receiver takes an
\* event again there was a fault, and a job that succeeded has a recorded outcome, unless the
\* row of its event went (worker/handlers/webhook.js).
THEOREM DeliveriesAlwaysAccounted == WebhooksSpec => []DeliveriesAccounted
<1>1. ASSUME HookInv PROVE DeliveriesAccounted
  <2>1. ASSUME NEW v \in HookEvents PROVE taken[v] <= 1 + hookFaults[v]
    <3>1. /\ Cardinality(MayRepeat(v)) \in Nat /\ Waiting(v) \in {0, 1}
          /\ taken[v] \in Nat /\ hookFaults[v] \in Nat
      BY <1>1, Repeaters DEF HookInv, HookTypes, Waiting
    <3> QED
      BY <1>1, <3>1 DEF HookInv, SentInv
  <2> QED
    BY <1>1, <2>1 DEF HookInv, ExplainedInv, Recorded, DeliveriesAccounted, RepeatsAreFaults, SucceededIsExplained
<1> QED
  BY <1>1, HookInvInit, HookInvNext, PTL DEF WebhooksSpec

\* What administrators change, and the bound of the faults.
HookRest ==
  /\ endpoint \in [Endpoints -> {"none", "active", "disabled"}]
  /\ secret \in [Endpoints -> {"none", "usable", "revoked"}]
  /\ creator \in [Endpoints -> {"idle", "inserted", "disabled"}]
  /\ hookFaults \in [HookEvents -> 0..MaxHookFaults]

LEMMA HookRestNext == HookTypes /\ HookRest /\ [WebhooksNext]_hookVars => HookRest'
<1> SUFFICES ASSUME HookTypes, HookRest, [WebhooksNext]_hookVars PROVE HookRest'
  OBVIOUS
<1>1. ASSUME NEW e \in Endpoints,
             InsertEndpoint(e) \/ InsertSecret(e) \/ DisableEndpoint(e) \/ RevokeSecrets(e)
      PROVE  HookRest'
  BY <1>1 DEF InsertEndpoint, InsertSecret, DisableEndpoint, RevokeSecrets, CreatorAt, AdminOnly, HookRest
<1>2. ASSUME NEW v \in HookEvents, HookFault(v), UNCHANGED adminVars PROVE HookRest'
  <2>1. hookFaults[v] + 1 \in 0..MaxHookFaults
    BY <1>2, WebhooksAssumption DEF HookFault, HookRest
  <2> QED
    BY <1>2, <2>1 DEF HookFault, HookRest, adminVars
<1>3. CASE UNCHANGED adminVars /\ UNCHANGED hookFaults
  BY <1>3 DEF HookRest, adminVars
<1>4. ASSUME NEW w \in HookWorkers,
             \/ \E v \in HookEvents : ClaimHook(w, v)
             \/ LoadDelivery(w) \/ ResolveDestination(w) \/ Post(w) \/ RecordWebhookAttempt(w)
             \/ CompleteHook(w) \/ FailHook(w) \/ HookWorkerDies(w)
      PROVE  /\ UNCHANGED adminVars
             /\ UNCHANGED hookFaults \/ (Out(w) /\ HookFault(hookRun[w].event))
  <2>1. UNCHANGED adminVars
    BY <1>4 DEF ClaimHook, LoadDelivery, ResolveDestination, Post, RecordWebhookAttempt, CompleteHook,
       FailHook, HookWorkerDies
  <2>2. hookRun[w] # NoRun => Out(w)
    BY DEF HookTypes
  <2>3. UNCHANGED hookFaults \/ (Out(w) /\ HookFault(hookRun[w].event))
    BY <1>4, <2>2 DEF ClaimHook, LoadDelivery, ResolveDestination, Post, RecordWebhookAttempt, CompleteHook,
       FailHook, HookWorkerDies, NoHookFault, InStep, Out
  <2> QED
    BY <2>1, <2>3
<1>5. ASSUME NEW w \in HookWorkers, Out(w), HookFault(hookRun[w].event), UNCHANGED adminVars PROVE HookRest'
  BY <1>2, <1>5 DEF HookTypes
<1>6. ASSUME NEW v \in HookEvents, PublishEvent(v) \/ HookLeaseRunsOut(v) \/ EventGoes(v)
      PROVE  UNCHANGED adminVars /\ (UNCHANGED hookFaults \/ HookFault(v))
  BY <1>6 DEF PublishEvent, HookLeaseRunsOut, EventGoes, NoHookFault
<1> QED
  BY <1>1, <1>2, <1>3, <1>4, <1>5, <1>6 DEF WebhooksNext, hookVars

LEMMA GoneNext == gone \subseteq HookEvents /\ [WebhooksNext]_hookVars => (gone \subseteq HookEvents)'
<1> SUFFICES ASSUME gone \subseteq HookEvents, WebhooksNext, ~UNCHANGED gone PROVE gone' \subseteq HookEvents
  BY DEF hookVars
<1>1. \E v \in HookEvents : EventGoes(v)
  BY DEF WebhooksNext, InsertEndpoint, InsertSecret, DisableEndpoint, RevokeSecrets, AdminOnly, PublishEvent,
         HookLeaseRunsOut, ClaimHook, LoadDelivery, ResolveDestination, Post, RecordWebhookAttempt,
         CompleteHook, FailHook, HookWorkerDies
<1> QED
  BY <1>1 DEF EventGoes

\* Endpoints, secrets, jobs, attempts and outcomes keep their types.
THEOREM WebhooksTypeCorrect == WebhooksSpec => []WebhooksTypeOK
<1>1. WebhooksInit => HookRest
  BY WebhooksAssumption DEF WebhooksInit, HookRest
<1>2. HookInv => HookTypes
  BY DEF HookInv
<1>4. WebhooksInit => gone \subseteq HookEvents
  BY DEF WebhooksInit
<1>3. HookTypes /\ HookRest /\ gone \subseteq HookEvents => WebhooksTypeOK
  <2> SUFFICES ASSUME HookTypes, HookRest, gone \subseteq HookEvents PROVE WebhooksTypeOK
    OBVIOUS
  <2>1. ASSUME NEW w \in HookWorkers
        PROVE  \/ hookRun[w] = NoRun
               \/ hookRun[w] \in [event : HookEvents, token : 1..MaxDeliveryAttempts, step : HookSteps]
    <3>1. CASE Out(w)
      BY <3>1, WebhooksAssumption DEF HookTypes, HookRunRecord, Out
    <3>2. CASE ~Out(w)
      BY <3>2 DEF HookTypes
    <3> QED
      BY <3>1, <3>2
  <2> QED
    BY <2>1 DEF HookTypes, HookRest, WebhooksTypeOK
<1> QED
  BY <1>1, <1>2, <1>3, <1>4, HookRestNext, GoneNext, HookInvInit, HookInvNext, PTL DEF WebhooksSpec

-------------------------------------------------------------------------------
(* The list of recent scans *)

\* A set of positions that is not empty has a last one.
LEMMA LastPosition ==
  ASSUME NEW n \in Nat, NEW S \in SUBSET (1..n), S # {}
  PROVE  \E i \in S : \A j \in S : j <= i
<1> DEFINE gaps == {m \in Nat : n - m \in S}
<1>1. gaps \subseteq Nat /\ gaps # {}
  <2>1. PICK x \in S : TRUE
    OBVIOUS
  <2>2. n - x \in Nat /\ n - (n - x) = x
    OBVIOUS
  <2> QED
    BY <2>1, <2>2
<1>2. PICK least \in gaps : \A m \in gaps : <<m, least>> \notin OpToRel(<, Nat)
  <2> HIDE DEF gaps
  <2> QED
    BY <1>1, NatLessThanWellFounded, WFMin
<1>3. \A m \in gaps : least <= m
  <2>1. \A k, m \in Nat : k < m => <<k, m>> \in OpToRel(<, Nat)
    BY DEF OpToRel
  <2>2. \A m \in gaps : ~(m < least)
    BY <1>2, <2>1
  <2> QED
    BY <2>2
<1>4. ASSUME NEW j \in S PROVE j <= n - least
  <2>1. n - j \in gaps
    <3>1. n - j \in Nat /\ n - (n - j) = j
      OBVIOUS
    <3> QED
      BY <3>1
  <2> QED
    BY <2>1, <1>3
<1> QED
  BY <1>4

\* What SelectDecision may choose from, the best first.
DecisionsOfKind(ds, kind) == {i \in DOMAIN ds : ds[i].kind = kind}
DecisionChoices(r, ds) ==
  <<DOMAIN ds \cap {r.final}, DecisionsOfKind(ds, "final"),
    DOMAIN ds \cap {r.preliminary}, DecisionsOfKind(ds, "preliminary"),
    DOMAIN ds>>

\* SelectDecision selects one of the decisions, if there are any, from the first choice
\* that there is.
LEMMA SelectsDecision ==
  ASSUME NEW r, NEW ds \in Seq(Decision)
  PROVE  LET d == SelectDecision(r, ds)
             choices == DecisionChoices(r, ds)
         IN /\ d \in IF ds = <<>> THEN {0} ELSE DOMAIN ds
            /\ ds # <<>> => \E k \in 1..5 : /\ d \in choices[k]
                                             /\ \A earlier \in 1..(k - 1) : choices[earlier] = {}
<1> DEFINE choices == DecisionChoices(r, ds)
           Chosen(i) == \E k \in 1..5 : /\ i \in choices[k] /\ \A j \in choices[k] : j <= i
                                        /\ \A earlier \in 1..(k - 1) : choices[earlier] = {}
<1> DEFINE d == SelectDecision(r, ds)
<1>1. CASE ds = <<>>
  BY <1>1 DEF SelectDecision
<1>2. CASE ds # <<>>
  <2>1. PICK n \in Nat : DOMAIN ds = 1..n /\ 1 \in DOMAIN ds
    BY <1>2
  <2>2. /\ choices[1] = DOMAIN ds \cap {r.final}
        /\ choices[2] = DecisionsOfKind(ds, "final")
        /\ choices[3] = DOMAIN ds \cap {r.preliminary}
        /\ choices[4] = DecisionsOfKind(ds, "preliminary")
        /\ choices[5] = DOMAIN ds
    BY DEF DecisionChoices
  <2>3. \A k \in 1..5 : choices[k] \in SUBSET (1..n)
    BY <2>1, <2>2 DEF DecisionsOfKind
  <2> HIDE DEF choices
  <2>4. choices[5] # {}
    BY <2>1, <2>2
  <2>5. PICK k \in 1..5 : choices[k] # {} /\ \A earlier \in 1..(k - 1) : choices[earlier] = {}
    <3>1. CASE choices[1] # {}
      BY <3>1
    <3>2. CASE choices[1] = {} /\ choices[2] # {}
      BY <3>2
    <3>3. CASE choices[1] = {} /\ choices[2] = {} /\ choices[3] # {}
      BY <3>3
    <3>4. CASE choices[1] = {} /\ choices[2] = {} /\ choices[3] = {} /\ choices[4] # {}
      BY <3>4
    <3>5. CASE choices[1] = {} /\ choices[2] = {} /\ choices[3] = {} /\ choices[4] = {}
      BY <3>5, <2>4
    <3> QED
      BY <3>1, <3>2, <3>3, <3>4, <3>5
  <2>6. PICK i \in choices[k] : \A j \in choices[k] : j <= i
    BY <2>1, <2>3, <2>5, LastPosition
  <2>7. i \in DOMAIN ds /\ Chosen(i)
    BY <2>1, <2>3, <2>5, <2>6
  <2>8. SelectDecision(r, ds) = CHOOSE x \in DOMAIN ds : Chosen(x)
    BY <1>2 DEF SelectDecision, choices, DecisionChoices, DecisionsOfKind
  <2>9. d \in DOMAIN ds /\ Chosen(d)
    <3> HIDE DEF Chosen
    <3> QED
      BY <2>7, <2>8
  <2>10. \E m \in 1..5 : d \in choices[m] /\ \A earlier \in 1..(m - 1) : choices[earlier] = {}
    BY <2>9
  <2>11. d \in DOMAIN ds
    BY <2>9
  <2> HIDE DEF d, Chosen
  <2> QED
    BY <1>2, <2>10, <2>11 DEF d, choices
<1> QED
  BY <1>1, <1>2

LEMMA HistoryTypeInit == HistoryInit => HistoryTypeOK
<1>1. NewRow \in Row /\ NotShown \in Shown /\ <<>> \in Seq(Decision) /\ <<>> \in Seq(AllScans)
  BY DEF NewRow, Row, NotShown, Shown
<1>2. ASSUME HistoryInit PROVE /\ siteRows \subseteq SiteScans
                              /\ DOMAIN gatewayRows = {} /\ gatewayRows \in [{} -> Row]
  BY <1>2 DEF HistoryInit
<1>3. ASSUME HistoryInit PROVE /\ gateway \in [GatewayScans -> Row] /\ told \in [GatewayScans -> Shown]
                              /\ published \in [GatewayScans -> Seq(Decision)]
                              /\ decisionRows \in [GatewayScans -> Seq(Decision)]
  BY <1>1, <1>3 DEF HistoryInit
<1>4. ASSUME HistoryInit PROVE /\ made \in Seq(AllScans) /\ recorded \in [GatewayScans -> Nat]
                              /\ evidenceRows \in [GatewayScans -> Nat] /\ latest \in [GatewayScans -> Nat]
                              /\ load = "idle" /\ early \in BOOLEAN /\ known \in Nat
                              /\ listed \subseteq AllScans /\ whole \in BOOLEAN
  BY <1>1, <1>4 DEF HistoryInit
<1>5. ASSUME HistoryInit PROVE HistoryTypeOK
  <2>1. DOMAIN gatewayRows \subseteq GatewayScans /\ gatewayRows \in [DOMAIN gatewayRows -> Row]
    BY <1>2, <1>5
  <2> QED
    BY <1>2, <1>3, <1>4, <1>5, <2>1 DEF HistoryTypeOK
<1> QED
  BY <1>5

\* The steps of the scans and of the reads keep the types.
LEMMA HistoryStepsType ==
  ASSUME HistoryTypeOK,
         \/ \E x \in AllScans : MakeScan(x)
         \/ \E s \in GatewayScans : RecordEvidence(s) \/ ScanFails(s) \/ \E kind \in DecisionKinds : Publish(s, kind)
  PROVE  HistoryTypeOK'
<1>1. ASSUME NEW x \in AllScans, MakeScan(x) PROVE HistoryTypeOK'
  BY <1>1 DEF MakeScan, HistoryTypeOK, loadVars, viewVars
<1>2. ASSUME NEW s \in GatewayScans, RecordEvidence(s) PROVE HistoryTypeOK'
  BY <1>2 DEF RecordEvidence, HistoryTypeOK, loadVars, viewVars
<1>3. ASSUME NEW s \in GatewayScans, ScanFails(s) PROVE HistoryTypeOK'
  BY <1>3 DEF ScanFails, HistoryTypeOK, Row, loadVars, viewVars
<1>4. ASSUME NEW s \in GatewayScans, NEW kind \in DecisionKinds, Publish(s, kind) PROVE HistoryTypeOK'
  <2> DEFINE n == Len(published[s]) + 1
  <2>1. n \in Nat /\ gateway[s] \in Row
    BY DEF HistoryTypeOK
  <2>2. PICK basis \in 0..recorded[s] : published' = [published EXCEPT ![s] = Append(@, [kind |-> kind, basis |-> basis])]
    BY <1>4 DEF Publish
  <2>3. published' \in [GatewayScans -> Seq(Decision)]
    <3>1. [kind |-> kind, basis |-> basis] \in Decision
      BY DEF HistoryTypeOK, Decision
    <3> QED
      BY <2>2, <3>1 DEF HistoryTypeOK
  <2>4. PICK final \in Nat : gateway' = [gateway EXCEPT ![s] =
            [status |-> IF kind = "final" /\ @.status = "open" THEN "completed" ELSE @.status,
             preliminary |-> IF kind = "preliminary" THEN n ELSE @.preliminary,
             final |-> final]]
    BY <1>4, <2>1 DEF Publish, Row
  <2>5. gateway' \in [GatewayScans -> Row]
    <3>1. \A k \in Nat : [status |-> IF kind = "final" /\ gateway[s].status = "open" THEN "completed" ELSE gateway[s].status,
             preliminary |-> IF kind = "preliminary" THEN n ELSE gateway[s].preliminary,
             final |-> k] \in Row
      BY <2>1 DEF Row
    <3> HIDE DEF n
    <3> QED
      BY <2>4, <3>1 DEF HistoryTypeOK
  <2>6. UNCHANGED <<made, recorded, loadVars, viewVars>>
    BY <1>4 DEF Publish
  <2> QED
    BY <2>3, <2>5, <2>6 DEF HistoryTypeOK, loadVars, viewVars
<1> QED
  BY <1>1, <1>2, <1>3, <1>4

LEMMA HistoryReadsType ==
  ASSUME HistoryTypeOK, ReadSiteScans \/ ReadGatewayRows \/ ReadDecisions \/ ReadEvidence
  PROVE  HistoryTypeOK'
<1>1. CASE ReadSiteScans
  <2>1. siteRows' \subseteq SiteScans /\ known' \in Nat
    BY <1>1 DEF ReadSiteScans, Newest, FilterEnabled, HistoryTypeOK
  <2>2. told' \in [GatewayScans -> Shown]
    BY <1>1 DEF ReadSiteScans, NotShown, Shown
  <2> QED
    BY <1>1, <2>1, <2>2 DEF ReadSiteScans, HistoryTypeOK, DatabaseRests, databaseVars
<1>2. CASE ReadGatewayRows
  <2>1. Newest(Made \cap GatewayScans) \subseteq GatewayScans
    BY DEF Newest
  <2> QED
    BY <1>2, <2>1 DEF ReadGatewayRows, HistoryTypeOK, DatabaseRests, databaseVars, viewVars
<1>3. CASE ReadDecisions
  BY <1>3 DEF ReadDecisions, HistoryTypeOK, DatabaseRests, databaseVars, viewVars
<1>4. CASE ReadEvidence
  BY <1>4 DEF ReadEvidence, HistoryTypeOK, DatabaseRests, databaseVars, viewVars
<1> QED
  BY <1>1, <1>2, <1>3, <1>4

LEMMA HistoryGiveType ==
  ASSUME HistoryTypeOK, NEW list \in SUBSET AllScans, list \cap GatewayScans \subseteq DOMAIN gatewayRows,
         NEW isWhole \in BOOLEAN, Give(list, isWhole)
  PROVE  HistoryTypeOK'
<1>1. ASSUME NEW s \in list \cap GatewayScans PROVE NormalizeGatewayScan(s) \in Shown
  <2>1. gatewayRows[s] \in Row /\ decisionRows[s] \in Seq(Decision) /\ evidenceRows[s] \in Nat
    BY DEF HistoryTypeOK
  <2>2. SelectDecision(gatewayRows[s], decisionRows[s]) \in Nat
    BY <2>1, SelectsDecision
  <2> QED
    BY <2>1, <2>2 DEF NormalizeGatewayScan, Shown, Row
<1>2. told' \in [GatewayScans -> Shown]
  BY <1>1 DEF Give, NotShown, Shown
<1>3. latest' \in [GatewayScans -> Nat]
  <2>1. \A s \in GatewayScans : told'[s].decision \in Nat
    BY <1>2 DEF Shown
  <2> QED
    BY <2>1 DEF Give, HistoryTypeOK
<1>4. listed' \subseteq AllScans
  BY DEF Give, FilterEnabled
<1>5. siteRows' \subseteq SiteScans /\ DOMAIN gatewayRows' = {} /\ gatewayRows' \in [{} -> Row]
  BY DEF Give
<1>6. decisionRows' \in [GatewayScans -> Seq(Decision)] /\ evidenceRows' \in [GatewayScans -> Nat]
  BY DEF Give
<1> QED
  BY <1>2, <1>3, <1>4, <1>5, <1>6 DEF Give, HistoryTypeOK, DatabaseRests, databaseVars

LEMMA HistoryTypeNext == HistoryTypeOK /\ [HistoryNext]_historyVars => HistoryTypeOK'
<1> SUFFICES ASSUME HistoryTypeOK, [HistoryNext]_historyVars PROVE HistoryTypeOK'
  OBVIOUS
<1>1. CASE UNCHANGED historyVars
  BY <1>1 DEF HistoryTypeOK, historyVars, databaseVars, loadVars, viewVars
<1>2. CASE ShowList
  <2>1. /\ MergeScanHistories(siteRows, DOMAIN gatewayRows) \in SUBSET AllScans
        /\ MergeScanHistories(siteRows, DOMAIN gatewayRows) \cap GatewayScans \subseteq DOMAIN gatewayRows
    BY HistoryAssumption DEF MergeScanHistories, Newest, HistoryTypeOK, AllScans
  <2> QED
    BY <1>2, <2>1, HistoryGiveType DEF ShowList
<1>3. CASE ShowSiteScans
  <2>1. siteRows \in SUBSET AllScans /\ siteRows \cap GatewayScans \subseteq DOMAIN gatewayRows
    BY HistoryAssumption DEF HistoryTypeOK, AllScans
  <2> QED
    BY <1>3, <2>1, HistoryGiveType DEF ShowSiteScans
<1> QED
  BY <1>1, <1>2, <1>3, HistoryStepsType, HistoryReadsType DEF HistoryNext

\* Scans, rows, reads and lists keep their types.
THEOREM HistoryTypeCorrect == HistorySpec => []HistoryTypeOK
  BY HistoryTypeInit, HistoryTypeNext, PTL DEF HistorySpec

\* Rows and decisions in the database: the pointers, what comes first, and that a scan has
\* one preliminary decision.
RowsInv ==
  \A s \in GatewayScans :
    /\ gateway[s].final <= Len(published[s])
    /\ gateway[s].final # 0 => published[s][gateway[s].final].kind # "preliminary"
    /\ gateway[s].preliminary <= Len(published[s])
    /\ gateway[s].preliminary # 0 => published[s][gateway[s].preliminary].kind = "preliminary"
    /\ gateway[s].status = "completed" => gateway[s].final # 0
    /\ \A i \in DOMAIN published[s] :
         /\ published[s][i].basis <= recorded[s]
         /\ published[s][i].kind = "final" => i <= gateway[s].final
         /\ i = 1 => published[s][i].kind # "override"
         /\ \A j \in DOMAIN published[s] :
              published[s][i].kind = "preliminary" /\ published[s][j].kind = "preliminary" => i = j

\* What was shown of a scan is not past what its row points to.
LatestInv ==
  \A s \in GatewayScans :
    /\ latest[s] <= Len(published[s])
    /\ latest[s] <= 1 \/ latest[s] <= gateway[s].final

\* What a load has read of a scan is what the database holds or held, in the order of
\* the reads.
ReadInv ==
  load \in {"rows", "decisions", "evidence", "both"} =>
    \A s \in DOMAIN gatewayRows :
      /\ gatewayRows[s].final <= gateway[s].final
      /\ gatewayRows[s].final # 0 => published[s][gatewayRows[s].final].kind # "preliminary"
      /\ gatewayRows[s].preliminary # 0 =>
           /\ gatewayRows[s].preliminary <= Len(published[s])
           /\ published[s][gatewayRows[s].preliminary].kind = "preliminary"
      /\ gatewayRows[s].status = "completed" => gatewayRows[s].final # 0
      /\ latest[s] <= 1 \/ latest[s] <= gatewayRows[s].final
      /\ load \in {"decisions", "both"} =>
           /\ gatewayRows[s].final <= Len(decisionRows[s]) /\ latest[s] <= Len(decisionRows[s])
           /\ Len(decisionRows[s]) <= Len(published[s])
           /\ \A i \in DOMAIN decisionRows[s] : decisionRows[s][i] = published[s][i]
      /\ load \in {"evidence", "both"} /\ gatewayRows[s].final # 0 =>
           published[s][gatewayRows[s].final].basis <= evidenceRows[s]

\* What is shown.
ShownInv ==
  \A s \in GatewayScans :
    /\ told[s].status # "none" => told[s].decision = latest[s]
    /\ told[s].status = "completed" =>
         /\ told[s].decision # 0 /\ told[s].decision <= Len(published[s])
         /\ published[s][told[s].decision].kind # "preliminary"
         /\ published[s][told[s].decision].basis <= told[s].evidence

ScansInv == RowsInv /\ LatestInv /\ ReadInv /\ ShownInv

LEMMA ScansInvInit == HistoryInit => ScansInv
  BY DEF HistoryInit, NewRow, NotShown, ScansInv, RowsInv, LatestInv, ReadInv, ShownInv

\* Steps that leave decisions and pointers alone, and have read nothing new.
LEMMA EvidenceKeeps ==
  ASSUME HistoryTypeOK, ScansInv, NEW s \in GatewayScans, RecordEvidence(s)
  PROVE  ScansInv'
<1>1. recorded[s] \in Nat /\ recorded' = [recorded EXCEPT ![s] = @ + 1]
  BY DEF RecordEvidence, HistoryTypeOK
<1>2. \A t \in GatewayScans : recorded[t] \in Nat /\ recorded'[t] \in Nat /\ recorded[t] <= recorded'[t]
  BY <1>1 DEF HistoryTypeOK
<1>3. \A t \in GatewayScans : \A i \in DOMAIN published[t] : published[t][i].basis \in Nat
  <2> SUFFICES ASSUME NEW t \in GatewayScans, NEW i \in DOMAIN published[t] PROVE published[t][i].basis \in Nat
    OBVIOUS
  <2>1. published[t] \in Seq(Decision)
    BY DEF HistoryTypeOK
  <2>2. published[t][i] \in Decision
    BY <2>1
  <2> QED
    BY <2>2 DEF Decision
<1>4. UNCHANGED <<gateway, published, loadVars, viewVars>>
  BY DEF RecordEvidence
<1>5. RowsInv'
  <2> SUFFICES ASSUME NEW t \in GatewayScans, NEW i \in DOMAIN published[t]
               PROVE  published[t][i].basis <= recorded'[t]
    BY <1>4 DEF ScansInv, RowsInv
  <2> QED
    BY <1>2, <1>3 DEF ScansInv, RowsInv
<1> QED
  BY <1>4, <1>5 DEF ScansInv, LatestInv, ReadInv, ShownInv, loadVars, viewVars

LEMMA ScanFailsKeeps ==
  ASSUME HistoryTypeOK, ScansInv, NEW s \in GatewayScans, ScanFails(s)
  PROVE  ScansInv'
<1>1. \A t \in GatewayScans : /\ gateway'[t].final = gateway[t].final
                              /\ gateway'[t].preliminary = gateway[t].preliminary
                              /\ gateway'[t].status = "completed" => gateway[t].status = "completed"
  BY DEF ScanFails, HistoryTypeOK, Row
<1>2. UNCHANGED <<recorded, published, loadVars, viewVars>>
  BY DEF ScanFails
<1>3. DOMAIN gatewayRows \subseteq GatewayScans
  BY DEF HistoryTypeOK
<1> QED
  BY <1>1, <1>2, <1>3 DEF ScansInv, RowsInv, LatestInv, ReadInv, ShownInv, loadVars, viewVars

LEMMA MakeKeeps ==
  ASSUME ScansInv, NEW x \in AllScans, MakeScan(x)
  PROVE  ScansInv'
  BY DEF MakeScan, ScansInv, RowsInv, LatestInv, ReadInv, ShownInv, loadVars, viewVars

LEMMA PublishKeeps ==
  ASSUME HistoryTypeOK, ScansInv, NEW s \in GatewayScans, NEW kind \in DecisionKinds, Publish(s, kind)
  PROVE  ScansInv'
<1> DEFINE n == Len(published[s]) + 1
<1>1. PICK basis \in 0..recorded[s] : published' = [published EXCEPT ![s] = Append(@, [kind |-> kind, basis |-> basis])]
  BY DEF Publish
<1>2. PICK final \in IF kind = "preliminary" THEN {gateway[s].final}
                     ELSE IF kind = "final" THEN {n} ELSE {gateway[s].final, n} :
          gateway' = [gateway EXCEPT ![s] =
            [status |-> IF kind = "final" /\ @.status = "open" THEN "completed" ELSE @.status,
             preliminary |-> IF kind = "preliminary" THEN n ELSE @.preliminary,
             final |-> final]]
  BY DEF Publish
<1>3. /\ kind = "override" => published[s] # <<>>
      /\ kind = "preliminary" => \A i \in DOMAIN published[s] : published[s][i].kind # "preliminary"
      /\ UNCHANGED <<recorded, loadVars, viewVars>>
  BY DEF Publish
<1>4. /\ n \in Nat /\ n = Len(published[s]) + 1 /\ DOMAIN published[s] = 1..(n - 1)
      /\ gateway[s] \in Row /\ gateway[s].final \in Nat /\ gateway[s].preliminary \in Nat
      /\ gateway[s].final < n /\ gateway[s].preliminary < n
  BY DEF HistoryTypeOK, Row, ScansInv, RowsInv
<1>5. /\ DOMAIN published'[s] = 1..n /\ Len(published'[s]) = n
      /\ \A i \in 1..(n - 1) : published'[s][i] = published[s][i]
      /\ published'[s][n] = [kind |-> kind, basis |-> basis]
  BY <1>1, <1>4 DEF HistoryTypeOK
<1>6. \A t \in GatewayScans \ {s} : published'[t] = published[t] /\ gateway'[t] = gateway[t]
  BY <1>1, <1>2 DEF HistoryTypeOK
<1>7. /\ gateway'[s].status = IF kind = "final" /\ gateway[s].status = "open" THEN "completed" ELSE gateway[s].status
      /\ gateway'[s].preliminary = IF kind = "preliminary" THEN n ELSE gateway[s].preliminary
      /\ gateway'[s].final = final
  BY <1>2 DEF HistoryTypeOK
<1>8. /\ final \in {gateway[s].final, n} /\ (kind = "final" => final = n)
      /\ kind = "preliminary" => final = gateway[s].final
  BY <1>2
<1> HIDE DEF n
<1>9. RowsInv'
  <2> SUFFICES ASSUME NEW t \in GatewayScans
               PROVE  /\ gateway'[t].final <= Len(published'[t])
                      /\ gateway'[t].final # 0 => published'[t][gateway'[t].final].kind # "preliminary"
                      /\ gateway'[t].preliminary <= Len(published'[t])
                      /\ gateway'[t].preliminary # 0 => published'[t][gateway'[t].preliminary].kind = "preliminary"
                      /\ gateway'[t].status = "completed" => gateway'[t].final # 0
                      /\ \A i \in DOMAIN published'[t] :
                           /\ published'[t][i].basis <= recorded'[t]
                           /\ published'[t][i].kind = "final" => i <= gateway'[t].final
                           /\ i = 1 => published'[t][i].kind # "override"
                           /\ \A j \in DOMAIN published'[t] :
                                published'[t][i].kind = "preliminary" /\ published'[t][j].kind = "preliminary" => i = j
    BY DEF RowsInv
  <2>1. CASE t # s
    BY <1>3, <1>6, <2>1 DEF ScansInv, RowsInv
  <2>2. CASE t = s
    <3>1. /\ gateway'[s].final <= n /\ gateway'[s].preliminary <= n
          /\ gateway'[s].status = "completed" => gateway'[s].final # 0
      BY <1>4, <1>7, <1>8 DEF ScansInv, RowsInv
    <3>2. gateway'[s].final # 0 => published'[s][gateway'[s].final].kind # "preliminary"
      <4>1. CASE final = n /\ kind # "preliminary"
        BY <4>1, <1>5, <1>7
      <4>2. CASE final = gateway[s].final /\ final # 0
        <5>1. final \in 1..(n - 1)
          BY <4>2, <1>4
        <5> QED
          BY <4>2, <5>1, <1>5, <1>7 DEF ScansInv, RowsInv
      <4> QED
        BY <4>1, <4>2, <1>4, <1>7, <1>8
    <3>3. gateway'[s].preliminary # 0 => published'[s][gateway'[s].preliminary].kind = "preliminary"
      <4>1. CASE kind = "preliminary"
        BY <4>1, <1>5, <1>7
      <4>2. CASE kind # "preliminary" /\ gateway[s].preliminary # 0
        <5>1. gateway[s].preliminary \in 1..(n - 1)
          BY <4>2, <1>4
        <5> QED
          BY <4>2, <5>1, <1>5, <1>7 DEF ScansInv, RowsInv
      <4> QED
        BY <4>1, <4>2, <1>7
    <3>4. ASSUME NEW i \in 1..n
          PROVE  /\ published'[s][i].basis <= recorded[s]
                 /\ published'[s][i].kind = "final" => i <= gateway'[s].final
                 /\ i = 1 => published'[s][i].kind # "override"
      <4>1. CASE i = n
        <5>1. i = 1 => kind # "override"
          BY <4>1, <1>3, <1>4 DEF HistoryTypeOK
        <5>2. basis <= recorded[s]
          BY DEF HistoryTypeOK
        <5>3. kind = "final" => gateway'[s].final = n
          BY <1>7, <1>8
        <5> QED
          BY <4>1, <5>1, <5>2, <5>3, <1>4, <1>5
      <4>2. CASE i # n
        <5>1. i \in DOMAIN published[s] /\ published'[s][i] = published[s][i]
          BY <4>2, <1>4, <1>5
        <5>2. gateway[s].final <= gateway'[s].final
          BY <1>4, <1>7, <1>8
        <5>3. /\ published[s][i].basis <= recorded[s]
              /\ published[s][i].kind = "final" => i <= gateway[s].final
              /\ i = 1 => published[s][i].kind # "override"
          BY <5>1 DEF ScansInv, RowsInv
        <5>4. gateway'[s].final \in Nat
          BY <1>4, <1>7, <1>8
        <5> QED
          BY <5>1, <5>2, <5>3, <5>4, <1>4
      <4> QED
        BY <4>1, <4>2
    <3>5. ASSUME NEW i \in 1..n, NEW j \in 1..n,
                 published'[s][i].kind = "preliminary", published'[s][j].kind = "preliminary"
          PROVE  i = j
      <4>1. \A k \in 1..(n - 1) : published'[s][k] = published[s][k]
        BY <1>5
      <4>2. CASE i = n \/ j = n
        <5>1. kind = "preliminary"
          BY <4>2, <3>5, <1>5
        <5>2. \A k \in 1..(n - 1) : published'[s][k].kind # "preliminary"
          BY <5>1, <4>1, <1>3, <1>4
        <5> QED
          BY <5>2, <3>5, <1>4
      <4>3. CASE i \in 1..(n - 1) /\ j \in 1..(n - 1)
        BY <4>3, <4>1, <3>5, <1>4 DEF ScansInv, RowsInv
      <4> QED
        BY <4>2, <4>3, <1>4
    <3> QED
      BY <2>2, <3>1, <3>2, <3>3, <3>4, <3>5, <1>3, <1>5
  <2> QED
    BY <2>1, <2>2
<1>10. \A t \in GatewayScans : /\ gateway[t].final <= gateway'[t].final
                               /\ Len(published[t]) <= Len(published'[t])
                               /\ \A i \in 1..Len(published[t]) : published'[t][i] = published[t][i]
  <2> SUFFICES ASSUME NEW t \in GatewayScans
               PROVE  /\ gateway[t].final <= gateway'[t].final
                      /\ Len(published[t]) <= Len(published'[t])
                      /\ \A i \in 1..Len(published[t]) : published'[t][i] = published[t][i]
    OBVIOUS
  <2>1. published[t] \in Seq(Decision) /\ gateway[t] \in Row
    BY DEF HistoryTypeOK
  <2>2. Len(published[t]) \in Nat /\ gateway[t].final \in Nat
    BY <2>1 DEF Row
  <2>3. CASE t = s
    <3>1. Len(published[s]) = n - 1
      BY <1>4, <2>2, <2>3
    <3> QED
      BY <2>3, <3>1, <1>4, <1>5, <1>7, <1>8
  <2>4. CASE t # s
    BY <2>2, <2>4, <1>6
  <2> QED
    BY <2>3, <2>4
<1>11. \A t \in GatewayScans : /\ gateway[t].final \in Nat /\ gateway'[t].final \in Nat /\ latest[t] \in Nat
                               /\ Len(published[t]) \in Nat /\ Len(published'[t]) \in Nat
  <2> SUFFICES ASSUME NEW t \in GatewayScans
               PROVE  /\ gateway[t].final \in Nat /\ gateway'[t].final \in Nat /\ latest[t] \in Nat
                      /\ Len(published[t]) \in Nat /\ Len(published'[t]) \in Nat
    OBVIOUS
  <2>1. published[t] \in Seq(Decision) /\ gateway[t] \in Row /\ latest[t] \in Nat
    BY DEF HistoryTypeOK
  <2>2. Len(published[t]) \in Nat /\ gateway[t].final \in Nat
    BY <2>1 DEF Row
  <2>3. CASE t = s
    BY <2>1, <2>2, <2>3, <1>4, <1>5, <1>7, <1>8
  <2>4. CASE t # s
    BY <2>1, <2>2, <2>4, <1>6
  <2> QED
    BY <2>3, <2>4
<1>12. LatestInv'
  <2> SUFFICES ASSUME NEW t \in GatewayScans
               PROVE  /\ latest[t] <= Len(published'[t])
                      /\ latest[t] <= 1 \/ latest[t] <= gateway'[t].final
    BY <1>3 DEF LatestInv, viewVars
  <2> QED
    BY <1>10, <1>11 DEF ScansInv, LatestInv
<1>13. ReadInv'
  <2> SUFFICES ASSUME load \in {"rows", "decisions", "evidence", "both"}, NEW t \in DOMAIN gatewayRows
               PROVE
      /\ gatewayRows[t].final <= gateway'[t].final
      /\ gatewayRows[t].final # 0 => published'[t][gatewayRows[t].final].kind # "preliminary"
      /\ gatewayRows[t].preliminary # 0 =>
           /\ gatewayRows[t].preliminary <= Len(published'[t])
           /\ published'[t][gatewayRows[t].preliminary].kind = "preliminary"
      /\ gatewayRows[t].status = "completed" => gatewayRows[t].final # 0
      /\ latest[t] <= 1 \/ latest[t] <= gatewayRows[t].final
      /\ load \in {"decisions", "both"} =>
           /\ gatewayRows[t].final <= Len(decisionRows[t]) /\ latest[t] <= Len(decisionRows[t])
           /\ Len(decisionRows[t]) <= Len(published'[t])
           /\ \A i \in DOMAIN decisionRows[t] : decisionRows[t][i] = published'[t][i]
      /\ load \in {"evidence", "both"} /\ gatewayRows[t].final # 0 =>
           published'[t][gatewayRows[t].final].basis <= evidenceRows[t]
    BY <1>3 DEF ReadInv, loadVars, viewVars
  <2>1. /\ t \in GatewayScans /\ gatewayRows[t].final \in Nat /\ gatewayRows[t].preliminary \in Nat
        /\ Len(decisionRows[t]) \in Nat /\ DOMAIN decisionRows[t] = 1..Len(decisionRows[t])
    BY DEF HistoryTypeOK, Row
  <2>2. gatewayRows[t].final <= gateway[t].final /\ gateway[t].final <= Len(published[t])
    BY <2>1 DEF ScansInv, RowsInv, ReadInv
  <2>3. gatewayRows[t].final # 0 => published'[t][gatewayRows[t].final] = published[t][gatewayRows[t].final]
    BY <2>1, <2>2, <1>10, <1>11
  <2>4. gatewayRows[t].preliminary # 0 =>
           /\ gatewayRows[t].preliminary <= Len(published[t])
           /\ published[t][gatewayRows[t].preliminary].kind = "preliminary"
    BY DEF ScansInv, ReadInv
  <2>5. gatewayRows[t].preliminary # 0 =>
           /\ gatewayRows[t].preliminary <= Len(published'[t])
           /\ published'[t][gatewayRows[t].preliminary].kind = "preliminary"
    BY <2>1, <2>4, <1>10, <1>11
  <2>6. load \in {"decisions", "both"} =>
           /\ Len(decisionRows[t]) <= Len(published'[t])
           /\ \A i \in DOMAIN decisionRows[t] : decisionRows[t][i] = published'[t][i]
    <3> SUFFICES ASSUME load \in {"decisions", "both"}
                 PROVE  /\ Len(decisionRows[t]) <= Len(published'[t])
                        /\ \A i \in DOMAIN decisionRows[t] : decisionRows[t][i] = published'[t][i]
      OBVIOUS
    <3>1. Len(decisionRows[t]) <= Len(published[t]) /\ \A i \in DOMAIN decisionRows[t] : decisionRows[t][i] = published[t][i]
      BY DEF ScansInv, ReadInv
    <3>2. \A i \in DOMAIN decisionRows[t] : i \in 1..Len(published[t])
      BY <3>1, <2>1, <1>11
    <3> QED
      BY <3>1, <3>2, <2>1, <1>10, <1>11
  <2>7. gatewayRows[t].final <= gateway'[t].final
    BY <2>1, <2>2, <1>10, <1>11
  <2>8. ReadInv
    BY DEF ScansInv
  <2> QED
    BY <2>3, <2>5, <2>6, <2>7, <2>8 DEF ReadInv
<1>14. ShownInv'
  <2> SUFFICES ASSUME NEW t \in GatewayScans
               PROVE  /\ told[t].status # "none" => told[t].decision = latest[t]
                      /\ told[t].status = "completed" =>
                           /\ told[t].decision # 0 /\ told[t].decision <= Len(published'[t])
                           /\ published'[t][told[t].decision].kind # "preliminary"
                           /\ published'[t][told[t].decision].basis <= told[t].evidence
    BY <1>3 DEF ShownInv, viewVars
  <2>1. told[t].decision \in Nat
    BY DEF HistoryTypeOK, Shown
  <2>2. told[t].status = "completed" => told[t].decision \in 1..Len(published[t])
    BY <2>1, <1>11 DEF ScansInv, ShownInv
  <2>3. told[t].status = "completed" => published'[t][told[t].decision] = published[t][told[t].decision]
    BY <2>2, <1>10
  <2> QED
    BY <2>1, <2>2, <2>3, <1>10, <1>11 DEF ScansInv, ShownInv
<1> QED
  BY <1>9, <1>12, <1>13, <1>14 DEF ScansInv

\* The database under a load: what ScansInv says of it stays, and so does what was shown.
LEMMA ReadsKeep ==
  ASSUME HistoryTypeOK, ScansInv, ReadSiteScans \/ ReadGatewayRows \/ ReadDecisions \/ ReadEvidence
  PROVE  ScansInv'
<1>1. UNCHANGED <<gateway, published, recorded, latest>>
  BY DEF ReadSiteScans, ReadGatewayRows, ReadDecisions, ReadEvidence, DatabaseRests, databaseVars, viewVars
<1>2. RowsInv' /\ LatestInv'
  BY <1>1 DEF ScansInv, RowsInv, LatestInv
<1>3. ShownInv'
  <2>1. CASE ReadSiteScans
    BY <2>1 DEF ReadSiteScans, NotShown, ShownInv
  <2>2. CASE UNCHANGED told
    BY <1>1, <2>2 DEF ScansInv, ShownInv
  <2> QED
    BY <2>1, <2>2 DEF ReadGatewayRows, ReadDecisions, ReadEvidence, viewVars
<1>4. ReadInv'
  <2>1. CASE ReadSiteScans
    BY <2>1 DEF ReadSiteScans, ReadInv
  <2>2. CASE ReadGatewayRows
    <3> SUFFICES ASSUME NEW s \in DOMAIN gatewayRows'
                 PROVE  /\ gatewayRows'[s] = gateway[s] /\ gateway[s].final <= gateway[s].final
                        /\ gateway[s].final # 0 => published[s][gateway[s].final].kind # "preliminary"
                        /\ gateway[s].preliminary # 0 =>
                             /\ gateway[s].preliminary <= Len(published[s])
                             /\ published[s][gateway[s].preliminary].kind = "preliminary"
                        /\ gateway[s].status = "completed" => gateway[s].final # 0
                        /\ latest[s] <= 1 \/ latest[s] <= gateway[s].final
      BY <1>1, <2>2 DEF ReadGatewayRows, ReadInv
    <3>1. s \in GatewayScans /\ gatewayRows'[s] = gateway[s]
      BY <2>2 DEF ReadGatewayRows, Newest
    <3>2. gateway[s].final \in Nat
      BY <3>1 DEF HistoryTypeOK, Row
    <3> QED
      BY <3>1, <3>2 DEF ScansInv, RowsInv, LatestInv
  <2>3. CASE ReadDecisions
    <3>1. /\ load \in {"rows", "evidence"} /\ load' \in {"decisions", "both"}
          /\ load' = "both" => load = "evidence"
          /\ UNCHANGED <<gatewayRows, evidenceRows>>
      BY <2>3 DEF ReadDecisions
    <3>2. ASSUME NEW s \in DOMAIN gatewayRows
          PROVE  /\ decisionRows'[s] = published[s] /\ Len(published[s]) <= Len(published[s])
                 /\ gatewayRows[s].final <= Len(published[s]) /\ latest[s] <= Len(published[s])
      <4>1. s \in GatewayScans /\ gatewayRows[s] \in Row
        BY DEF HistoryTypeOK
      <4>2. /\ gatewayRows[s].final \in Nat /\ gateway[s].final \in Nat /\ Len(published[s]) \in Nat
            /\ gatewayRows[s].final <= gateway[s].final /\ gateway[s].final <= Len(published[s])
        BY <3>1, <4>1 DEF HistoryTypeOK, Row, ScansInv, ReadInv, RowsInv
      <4>3. gatewayRows[s].final <= Len(published[s]) /\ Len(published[s]) <= Len(published[s])
        BY <4>2
      <4>4. decisionRows'[s] = published[s]
        BY <4>1, <2>3 DEF ReadDecisions
      <4> QED
        BY <4>1, <4>3, <4>4 DEF ScansInv, LatestInv
    <3> QED
      BY <3>1, <3>2, <1>1 DEF ScansInv, ReadInv
  <2>4. CASE ReadEvidence
    <3>1. /\ load \in {"rows", "decisions"} /\ load' \in {"evidence", "both"}
          /\ load' = "both" => load = "decisions"
          /\ UNCHANGED <<gatewayRows, decisionRows>>
      BY <2>4 DEF ReadEvidence
    <3>2. ASSUME NEW s \in DOMAIN gatewayRows, gatewayRows[s].final # 0
          PROVE  published[s][gatewayRows[s].final].basis <= evidenceRows'[s]
      <4>1. s \in GatewayScans /\ gatewayRows[s] \in Row /\ evidenceRows'[s] = recorded[s]
        BY <2>4 DEF HistoryTypeOK, ReadEvidence
      <4>2. /\ gatewayRows[s].final \in Nat /\ gateway[s].final \in Nat /\ Len(published[s]) \in Nat
            /\ gatewayRows[s].final <= gateway[s].final /\ gateway[s].final <= Len(published[s])
        BY <3>1, <4>1 DEF HistoryTypeOK, Row, ScansInv, ReadInv, RowsInv
      <4>3. gatewayRows[s].final \in DOMAIN published[s]
        BY <3>2, <4>1, <4>2 DEF HistoryTypeOK
      <4> QED
        BY <4>1, <4>3 DEF ScansInv, RowsInv
    <3> QED
      BY <3>1, <3>2, <1>1 DEF ScansInv, ReadInv
  <2> QED
    BY <2>1, <2>2, <2>3, <2>4
<1> QED
  BY <1>2, <1>3, <1>4 DEF ScansInv

\* What is selected from rows that fit together: the decision the row points to, or else a
\* final one, or else the first.
LEMMA SelectedFits ==
  ASSUME NEW r \in Row, NEW ds \in Seq(Decision), r.final <= Len(ds),
         r.preliminary # 0 /\ r.preliminary <= Len(ds) => ds[r.preliminary].kind = "preliminary",
         \A i, j \in DOMAIN ds : ds[i].kind = "preliminary" /\ ds[j].kind = "preliminary" => i = j,
         ds # <<>> => ds[1].kind # "override"
  PROVE  LET d == SelectDecision(r, ds)
         IN /\ d \in IF ds = <<>> THEN {0} ELSE DOMAIN ds
            /\ r.final # 0 => d = r.final
            /\ r.final = 0 => d \in {0, 1} \/ ds[d].kind = "final"
<1> DEFINE d == SelectDecision(r, ds)
           choices == DecisionChoices(r, ds)
<1>1. d \in IF ds = <<>> THEN {0} ELSE DOMAIN ds
  BY SelectsDecision
<1>2. DOMAIN ds = 1..Len(ds) /\ Len(ds) \in Nat /\ r.final \in Nat /\ r.preliminary \in Nat
  BY DEF Row
<1>3. CASE ds = <<>>
  <2>1. Len(ds) = 0
    BY <1>3
  <2> QED
    BY <1>1, <1>2, <1>3, <2>1
<1>4. CASE ds # <<>>
  <2>1. PICK k \in 1..5 : d \in choices[k] /\ \A earlier \in 1..(k - 1) : choices[earlier] = {}
    BY <1>4, SelectsDecision
  <2>2. /\ choices[1] = DOMAIN ds \cap {r.final}
        /\ choices[2] = DecisionsOfKind(ds, "final")
        /\ choices[3] = DOMAIN ds \cap {r.preliminary}
        /\ choices[4] = DecisionsOfKind(ds, "preliminary")
        /\ choices[5] = DOMAIN ds
    BY DEF DecisionChoices
  <2>3. 1 \in DOMAIN ds
    BY <1>4
  <2>4. ds[1] \in Decision
    BY <2>3
  <2> HIDE DEF choices, d
  <2>5. r.final # 0 => r.final \in choices[1]
    BY <1>2, <2>2
  <2>6. CASE r.final # 0
    <3>1. k = 1
      BY <2>1, <2>5, <2>6
    <3> QED
      BY <1>1, <2>1, <2>2, <2>6, <3>1 DEF d
  <2>7. CASE r.final = 0
    <3>1. CASE k = 1
      BY <1>2, <2>1, <2>2, <2>7, <3>1
    <3>2. CASE k = 2
      BY <1>1, <2>1, <2>2, <2>7, <3>2 DEF d, DecisionsOfKind
    <3>3. CASE k > 2
      <4>1. ds[1].kind # "final"
        BY <2>1, <2>2, <2>3, <3>3 DEF DecisionsOfKind
      <4>2. ds[1].kind = "preliminary"
        BY <1>4, <2>4, <4>1 DEF Decision, DecisionKinds
      <4>3. 1 \in choices[4]
        BY <2>2, <2>3, <4>2 DEF DecisionsOfKind
      <4>4. k \in {3, 4}
        BY <2>1, <3>3, <4>3
      <4>5. d \in DOMAIN ds /\ ds[d].kind = "preliminary"
        <5>1. CASE k = 3
          <6>1. d = r.preliminary /\ d \in DOMAIN ds
            BY <2>1, <2>2, <5>1
          <6> QED
            BY <6>1, <1>2
        <5>2. CASE k = 4
          BY <2>1, <2>2, <5>2 DEF DecisionsOfKind
        <5> QED
          BY <4>4, <5>1, <5>2
      <4>6. d = 1
        BY <2>3, <4>2, <4>5
      <4> QED
        BY <1>1, <2>7, <4>6 DEF d
    <3> QED
      BY <3>1, <3>2, <3>3
  <2> QED
    BY <2>6, <2>7
<1> QED
  BY <1>3, <1>4

\* What a list shows of a gateway scan: nothing older than lists before it, nothing past
\* what its row points to, and with a final decision all its evidence.
LEMMA NormalizedFits ==
  ASSUME HistoryTypeOK, ScansInv, load = "both", NEW s \in DOMAIN gatewayRows
  PROVE  LET d == SelectDecision(gatewayRows[s], decisionRows[s])
         IN /\ d \in Nat /\ d <= Len(published[s]) /\ latest[s] <= d
            /\ d <= 1 \/ d <= gateway[s].final
            /\ gatewayRows[s].status = "completed" =>
                 /\ d # 0 /\ published[s][d].kind # "preliminary"
                 /\ published[s][d].basis <= evidenceRows[s]
<1> DEFINE r == gatewayRows[s]
           ds == decisionRows[s]
           d == SelectDecision(r, ds)
<1>1. s \in GatewayScans /\ r \in Row /\ ds \in Seq(Decision) /\ published[s] \in Seq(Decision) /\ gateway[s] \in Row
      /\ latest[s] \in Nat
  BY DEF HistoryTypeOK
<1>2. /\ DOMAIN ds = 1..Len(ds) /\ Len(ds) \in Nat /\ Len(published[s]) \in Nat /\ DOMAIN published[s] = 1..Len(published[s])
      /\ r.final \in Nat /\ r.preliminary \in Nat /\ gateway[s].final \in Nat
  BY <1>1 DEF Row
<1>3. /\ r.final <= gateway[s].final
      /\ r.final # 0 => published[s][r.final].kind # "preliminary"
      /\ r.preliminary # 0 => published[s][r.preliminary].kind = "preliminary"
      /\ r.status = "completed" => r.final # 0
      /\ latest[s] <= 1 \/ latest[s] <= r.final
      /\ r.final <= Len(ds) /\ latest[s] <= Len(ds) /\ Len(ds) <= Len(published[s])
      /\ \A i \in DOMAIN ds : ds[i] = published[s][i]
      /\ r.final # 0 => published[s][r.final].basis <= evidenceRows[s]
  BY DEF ScansInv, ReadInv
<1>4. \A i \in DOMAIN published[s] :
         /\ published[s][i].kind = "final" => i <= gateway[s].final
         /\ i = 1 => published[s][i].kind # "override"
         /\ \A j \in DOMAIN published[s] :
              published[s][i].kind = "preliminary" /\ published[s][j].kind = "preliminary" => i = j
  BY <1>1 DEF ScansInv, RowsInv
<1>5. \A i \in DOMAIN ds : i \in DOMAIN published[s] /\ ds[i] = published[s][i]
  BY <1>2, <1>3
<1>6. ds # <<>> => 1 \in DOMAIN ds
  BY <1>1
<1> HIDE DEF r, ds
<1>7. /\ d \in IF ds = <<>> THEN {0} ELSE DOMAIN ds
      /\ r.final # 0 => d = r.final
      /\ r.final = 0 => d \in {0, 1} \/ ds[d].kind = "final"
  <2>1. r.preliminary # 0 /\ r.preliminary <= Len(ds) => ds[r.preliminary].kind = "preliminary"
    BY <1>2, <1>3, <1>5
  <2>2. \A i, j \in DOMAIN ds : ds[i].kind = "preliminary" /\ ds[j].kind = "preliminary" => i = j
    BY <1>4, <1>5
  <2>3. ds # <<>> => ds[1].kind # "override"
    BY <1>4, <1>5, <1>6
  <2> QED
    BY <1>1, <1>3, <2>1, <2>2, <2>3, SelectedFits
<1> HIDE DEF d
<1>8. d \in Nat /\ d <= Len(ds) /\ (ds = <<>> => Len(ds) = 0) /\ (ds # <<>> => d # 0)
  BY <1>2, <1>7
<1>9. d <= 1 \/ d <= gateway[s].final
  <2>1. CASE r.final # 0
    BY <2>1, <1>3, <1>7
  <2>2. CASE r.final = 0 /\ d \notin {0, 1}
    <3>1. d \in DOMAIN ds /\ ds[d].kind = "final"
      BY <2>2, <1>7
    <3> QED
      BY <3>1, <1>4, <1>5
  <2> QED
    BY <2>1, <2>2
<1>10. latest[s] <= d
  <2>1. CASE r.final # 0
    BY <2>1, <1>1, <1>2, <1>3, <1>7
  <2>2. CASE r.final = 0
    <3>1. latest[s] <= 1
      BY <2>2, <1>1, <1>3
    <3>2. latest[s] # 0 => ds # <<>>
      BY <1>1, <1>3, <1>8
    <3> QED
      BY <3>1, <3>2, <1>1, <1>8
  <2> QED
    BY <2>1, <2>2
<1>11. r.status = "completed" =>
         /\ d # 0 /\ published[s][d].kind # "preliminary"
         /\ published[s][d].basis <= evidenceRows[s]
  BY <1>3, <1>7
<1>12. d <= Len(published[s])
  BY <1>2, <1>3, <1>8
<1> QED
  BY <1>8, <1>9, <1>10, <1>11, <1>12 DEF d, r, ds

LEMMA GiveKeeps ==
  ASSUME HistoryTypeOK, ScansInv, NEW list, NEW isWhole, Give(list, isWhole),
         \A s \in list \cap GatewayScans : s \in DOMAIN gatewayRows /\ load = "both"
  PROVE  ScansInv'
<1>1. UNCHANGED <<gateway, published, recorded, made>> /\ load' = "idle"
  BY DEF Give, DatabaseRests, databaseVars
<1>2. ASSUME NEW s \in GatewayScans, s \in list
      PROVE  LET d == SelectDecision(gatewayRows[s], decisionRows[s])
             IN /\ told'[s] = [status |-> gatewayRows[s].status, decision |-> d, evidence |-> evidenceRows[s]]
                /\ latest'[s] = d
  <2>1. told'[s] = NormalizeGatewayScan(s)
    BY <1>2 DEF Give
  <2>2. latest'[s] = IF told'[s].decision > latest[s] THEN told'[s].decision ELSE latest[s]
    BY <1>2 DEF Give
  <2>3. latest[s] \in Nat
    BY DEF HistoryTypeOK
  <2>4. latest[s] <= told'[s].decision /\ told'[s].decision \in Nat
    BY <1>2, <2>1, NormalizedFits DEF NormalizeGatewayScan
  <2> QED
    BY <2>1, <2>2, <2>3, <2>4 DEF NormalizeGatewayScan
<1>3. ASSUME NEW s \in GatewayScans, s \notin list
      PROVE  told'[s] = NotShown /\ latest'[s] = latest[s]
  BY <1>3 DEF Give
<1>4. LatestInv'
  <2> SUFFICES ASSUME NEW s \in GatewayScans
               PROVE  latest'[s] <= Len(published[s]) /\ (latest'[s] <= 1 \/ latest'[s] <= gateway[s].final)
    BY <1>1 DEF LatestInv
  <2>1. CASE s \in list
    BY <1>2, <2>1, NormalizedFits
  <2>2. CASE s \notin list
    BY <1>3, <2>2 DEF ScansInv, LatestInv
  <2> QED
    BY <2>1, <2>2
<1>5. ShownInv'
  <2> SUFFICES ASSUME NEW s \in GatewayScans
               PROVE  /\ told'[s].status # "none" => told'[s].decision = latest'[s]
                      /\ told'[s].status = "completed" =>
                           /\ told'[s].decision # 0 /\ told'[s].decision <= Len(published[s])
                           /\ published[s][told'[s].decision].kind # "preliminary"
                           /\ published[s][told'[s].decision].basis <= told'[s].evidence
    BY <1>1 DEF ShownInv
  <2>1. CASE s \in list
    <3> DEFINE d == SelectDecision(gatewayRows[s], decisionRows[s])
    <3>1. told'[s] = [status |-> gatewayRows[s].status, decision |-> d, evidence |-> evidenceRows[s]] /\ latest'[s] = d
      BY <1>2, <2>1
    <3>2. s \in DOMAIN gatewayRows /\ load = "both"
      BY <2>1
    <3>3. /\ d <= Len(published[s])
          /\ gatewayRows[s].status = "completed" =>
               /\ d # 0 /\ published[s][d].kind # "preliminary" /\ published[s][d].basis <= evidenceRows[s]
      BY <3>2, NormalizedFits
    <3> HIDE DEF d
    <3> QED
      BY <3>1, <3>3
  <2>2. CASE s \notin list
    BY <1>3, <2>2 DEF NotShown
  <2> QED
    BY <2>1, <2>2
<1>6. RowsInv' /\ ReadInv'
  BY <1>1 DEF ScansInv, RowsInv, ReadInv
<1> QED
  BY <1>4, <1>5, <1>6 DEF ScansInv

LEMMA ScansInvNext == HistoryTypeOK /\ ScansInv /\ [HistoryNext]_historyVars => ScansInv'
<1> SUFFICES ASSUME HistoryTypeOK, ScansInv, [HistoryNext]_historyVars PROVE ScansInv'
  OBVIOUS
<1>1. CASE UNCHANGED historyVars
  BY <1>1 DEF historyVars, databaseVars, loadVars, viewVars, ScansInv, RowsInv, LatestInv, ReadInv, ShownInv
<1>2. CASE ShowList
  <2>1. MergeScanHistories(siteRows, DOMAIN gatewayRows) \subseteq siteRows \cup DOMAIN gatewayRows
    BY DEF MergeScanHistories, Newest
  <2>2. siteRows \cap GatewayScans = {}
    BY HistoryAssumption DEF HistoryTypeOK
  <2> QED
    BY <1>2, <2>1, <2>2, GiveKeeps DEF ShowList
<1>3. CASE ShowSiteScans
  <2>1. siteRows \cap GatewayScans = {}
    BY HistoryAssumption DEF HistoryTypeOK
  <2> QED
    BY <1>3, <2>1, GiveKeeps DEF ShowSiteScans
<1> QED
  BY <1>1, <1>2, <1>3, MakeKeeps, EvidenceKeeps, ScanFailsKeeps, PublishKeeps, ReadsKeep DEF HistoryNext

-------------------------------------------------------------------------------

\* As many newer scans as a list has.
Many(x) == Cardinality({y \in Made : Newer(y, x)}) >= ListLimit

\* A scan that was there when a load began is among what it read, or has many newer ones.
ListInv ==
  /\ known <= Len(made)
  /\ siteRows \subseteq Made
  /\ load # "idle" =>
       \A i \in 1..known : made[i] \in SiteScans => made[i] \in siteRows \cup SwitchedOff \/ Many(made[i])
  /\ load \in {"rows", "decisions", "evidence", "both"} =>
       \A i \in 1..known : made[i] \in GatewayScans => made[i] \in DOMAIN gatewayRows \/ Many(made[i])
  /\ NewestListed

\* A scan that is not among the newest of some scans has many newer ones.
LEMMA NotNewest ==
  ASSUME HistoryTypeOK, NEW scans, NEW x \in scans, x \notin Newest(scans)
  PROVE  Many(x)
<1> DEFINE some == {y \in scans : Newer(y, x)}
           all == {y \in Made : Newer(y, x)}
<1>1. some \subseteq all
  BY DEF Newer, Made
<1>2. IsFiniteSet(all)
  <2>1. IsFiniteSet(AllScans)
    BY HistoryAssumption, FS_Union DEF AllScans
  <2>2. all \subseteq AllScans
    BY DEF HistoryTypeOK, Made
  <2> QED
    BY <2>1, <2>2, FS_Subset
<1>3. Cardinality(some) <= Cardinality(all) /\ Cardinality(some) \in Nat /\ Cardinality(all) \in Nat
  BY <1>1, <1>2, FS_Subset, FS_CardinalityType
<1>4. Cardinality(some) >= ListLimit
  BY <1>1, <1>2, <1>3, HistoryAssumption DEF Newest
<1> QED
  BY <1>3, <1>4, HistoryAssumption DEF Many

\* When a scan is made, newer scans stay newer.
LEMMA ManyStay ==
  ASSUME HistoryTypeOK, HistoryTypeOK', NEW x \in AllScans, MakeScan(x), NEW z, Many(z)
  PROVE  Many(z)'
<1> DEFINE before == {y \in Made : Newer(y, z)}
           after == {y \in Made' : Newer(y, z)'}
<1>1. made' = Append(made, x) /\ made \in Seq(AllScans)
  BY DEF MakeScan, HistoryTypeOK
<1>2. DOMAIN made \subseteq DOMAIN made' /\ \A i \in DOMAIN made : made'[i] = made[i]
  BY <1>1
<1>3. before \subseteq after
  BY <1>2 DEF Made, Newer
<1>4. IsFiniteSet(after)
  <2>1. IsFiniteSet(AllScans)
    BY HistoryAssumption, FS_Union DEF AllScans
  <2>2. after \subseteq AllScans
    BY DEF HistoryTypeOK, Made
  <2> QED
    BY <2>1, <2>2, FS_Subset
<1>5. Cardinality(before) <= Cardinality(after) /\ Cardinality(before) \in Nat /\ Cardinality(after) \in Nat
  BY <1>3, <1>4, FS_Subset, FS_CardinalityType
<1> QED
  BY <1>5, HistoryAssumption DEF Many

\* Scans that a step does not make, and lists it does not show.
LEMMA ListRests ==
  ASSUME ListInv, UNCHANGED <<made, load, known, siteRows, gatewayRows, listed, whole>>
  PROVE  ListInv'
<1>1. Made' = Made /\ (\A x : Many(x)' <=> Many(x))
  BY DEF Made, Newer, Many
<1>2. NewestListed'
  <2> SUFFICES ASSUME load = "idle", NEW i \in 1..known, NEW z, z = made'[i]
               PROVE  z \in listed \cup SwitchedOff \/ (z \in GatewayScans /\ ~whole) \/ Many(z)'
    BY DEF NewestListed, Many, Newer
  <2>1. z \in listed \cup SwitchedOff \/ (z \in GatewayScans /\ ~whole) \/ Many(z)
    BY DEF ListInv, NewestListed, Many
  <2> QED
    BY <1>1, <2>1
<1> QED
  BY <1>1, <1>2 DEF ListInv

LEMMA ListMade ==
  ASSUME HistoryTypeOK, HistoryTypeOK', ListInv, NEW x \in AllScans, MakeScan(x)
  PROVE  ListInv'
<1>1. /\ made' = Append(made, x) /\ made \in Seq(AllScans)
      /\ UNCHANGED <<load, known, siteRows, gatewayRows, listed, whole>>
  BY DEF MakeScan, HistoryTypeOK, loadVars, viewVars
<1>2. known \in Nat /\ known <= Len(made) /\ Len(made') = Len(made) + 1 /\ Len(made) \in Nat
  BY <1>1 DEF ListInv, HistoryTypeOK
<1>3. \A i \in 1..known : made'[i] = made[i]
  BY <1>1, <1>2
<1>4. \A z : Many(z) => Many(z)'
  BY ManyStay
<1>5. siteRows \subseteq Made'
  <2>1. DOMAIN made \subseteq DOMAIN made' /\ \A i \in DOMAIN made : made'[i] = made[i]
    BY <1>1
  <2> QED
    BY <2>1 DEF ListInv, Made
<1>6. NewestListed'
  <2> SUFFICES ASSUME load = "idle", NEW i \in 1..known, NEW z, z = made'[i]
               PROVE  z \in listed \cup SwitchedOff \/ (z \in GatewayScans /\ ~whole) \/ Many(z)'
    BY <1>1 DEF NewestListed, Many, Newer
  <2>1. z = made[i]
    BY <1>3
  <2>2. z \in listed \cup SwitchedOff \/ (z \in GatewayScans /\ ~whole) \/ Many(z)
    BY <2>1 DEF ListInv, NewestListed, Many
  <2> QED
    BY <2>2, <1>4
<1> QED
  BY <1>1, <1>2, <1>3, <1>4, <1>5, <1>6 DEF ListInv

LEMMA ListRead ==
  ASSUME HistoryTypeOK, ListInv, ReadSiteScans \/ ReadGatewayRows \/ ReadDecisions \/ ReadEvidence
  PROVE  ListInv'
<1>1. UNCHANGED made /\ load' # "idle"
  BY DEF ReadSiteScans, ReadGatewayRows, ReadDecisions, ReadEvidence, DatabaseRests, databaseVars
<1>2. Made' = Made /\ (\A x : Many(x)' <=> Many(x))
  BY <1>1 DEF Made, Newer, Many
<1>3. NewestListed'
  BY <1>1 DEF NewestListed
<1>4. CASE ReadSiteScans
  <2>1. load' = "site" /\ known' = Len(made) /\ made \in Seq(AllScans)
    BY <1>4 DEF ReadSiteScans, HistoryTypeOK
  <2>2. siteRows' \in {Newest(Made \cap SiteScans), Newest(Made \cap SiteScans) \ SwitchedOff}
    BY <1>4 DEF ReadSiteScans, FilterEnabled
  <2>3. siteRows' \subseteq Made
    BY <2>2 DEF Newest
  <2>4. ASSUME NEW i \in 1..Len(made), made[i] \in SiteScans
        PROVE  made[i] \in siteRows' \cup SwitchedOff \/ Many(made[i])
    <3>1. made[i] \in Made \cap SiteScans
      BY <2>1, <2>4 DEF Made
    <3> QED
      BY <2>2, <3>1, NotNewest
  <2> QED
    BY <1>1, <1>2, <1>3, <2>1, <2>3, <2>4 DEF ListInv
<1>5. CASE ReadGatewayRows
  <2>1. load = "site" /\ load' = "rows" /\ UNCHANGED <<known, siteRows>> /\ DOMAIN gatewayRows' = Newest(Made \cap GatewayScans)
    BY <1>5 DEF ReadGatewayRows
  <2>2. ASSUME NEW i \in 1..known, made[i] \in GatewayScans
        PROVE  made[i] \in DOMAIN gatewayRows' \/ Many(made[i])
    <3>1. i \in DOMAIN made
      BY DEF ListInv, HistoryTypeOK
    <3>2. made[i] \in Made \cap GatewayScans
      BY <2>2, <3>1 DEF Made
    <3> QED
      BY <2>1, <3>2, NotNewest
  <2> QED
    BY <1>1, <1>2, <1>3, <2>1, <2>2 DEF ListInv
<1>6. CASE ReadDecisions \/ ReadEvidence
  <2>1. /\ load \in {"rows", "decisions", "evidence"} /\ load' \in {"decisions", "evidence", "both"}
        /\ UNCHANGED <<known, siteRows, gatewayRows>>
    BY <1>6 DEF ReadDecisions, ReadEvidence
  <2> QED
    BY <1>1, <1>2, <1>3, <2>1 DEF ListInv
<1> QED
  BY <1>4, <1>5, <1>6

LEMMA ListGiven ==
  ASSUME HistoryTypeOK, ListInv, NEW list, NEW isWhole, Give(list, isWhole), load # "idle",
         \A i \in 1..known :
           \/ made[i] \in list \cup SwitchedOff
           \/ made[i] \in GatewayScans /\ ~isWhole
           \/ Many(made[i])
  PROVE  ListInv'
<1>1. /\ UNCHANGED <<made, known>> /\ load' = "idle" /\ siteRows' = {}
      /\ listed' = list \ SwitchedOff /\ whole' = isWhole
  BY DEF Give, DatabaseRests, databaseVars, FilterEnabled
<1>2. Made' = Made /\ (\A x : Many(x)' <=> Many(x))
  BY <1>1 DEF Made, Newer, Many
<1>3. NewestListed'
  <2> SUFFICES ASSUME NEW i \in 1..known
               PROVE  \/ made[i] \in listed' \cup SwitchedOff
                      \/ made[i] \in GatewayScans /\ ~whole'
                      \/ Many(made[i])'
    BY <1>1 DEF NewestListed, Many
  <2> QED
    BY <1>1, <1>2
<1> QED
  BY <1>1, <1>3 DEF ListInv

LEMMA ListInvNext == HistoryTypeOK /\ HistoryTypeOK' /\ ListInv /\ [HistoryNext]_historyVars => ListInv'
<1> SUFFICES ASSUME HistoryTypeOK, HistoryTypeOK', ListInv, [HistoryNext]_historyVars PROVE ListInv'
  OBVIOUS
<1>1. CASE UNCHANGED historyVars
  BY <1>1, ListRests DEF historyVars, databaseVars, loadVars, viewVars
<1>2. ASSUME NEW s \in GatewayScans,
             RecordEvidence(s) \/ ScanFails(s) \/ \E kind \in DecisionKinds : Publish(s, kind)
      PROVE  ListInv'
  BY <1>2, ListRests DEF RecordEvidence, ScanFails, Publish, loadVars, viewVars
<1>3. ASSUME NEW i \in 1..known PROVE made[i] \in AllScans /\ i \in DOMAIN made
  BY DEF ListInv, HistoryTypeOK
<1>4. CASE ShowList
  <2>1. /\ load \in {"rows", "both"}
        /\ Give(Newest(siteRows \cup DOMAIN gatewayRows), TRUE)
    BY <1>4 DEF ShowList, MergeScanHistories
  <2>2. ASSUME NEW i \in 1..known
        PROVE  made[i] \in Newest(siteRows \cup DOMAIN gatewayRows) \cup SwitchedOff \/ Many(made[i])
    <3>1. made[i] \in (siteRows \cup DOMAIN gatewayRows) \cup SwitchedOff \/ Many(made[i])
      BY <1>3, <2>1 DEF ListInv, AllScans
    <3> QED
      BY <3>1, NotNewest
  <2> QED
    BY <2>1, <2>2, ListGiven
<1>5. CASE ShowSiteScans
  <2>1. load # "idle" /\ Give(siteRows, FALSE)
    BY <1>5 DEF ShowSiteScans
  <2>2. ASSUME NEW i \in 1..known
        PROVE  \/ made[i] \in siteRows \cup SwitchedOff
               \/ made[i] \in GatewayScans
               \/ Many(made[i])
    BY <1>3, <2>1 DEF ListInv, AllScans
  <2> QED
    BY <2>1, <2>2, ListGiven
<1> QED
  BY <1>1, <1>2, <1>4, <1>5, ListMade, ListRead DEF HistoryNext

\* The list of recent scans is so: a scan shown as completed is shown with a final decision
\* or an override and with the evidence it rests on, no list shows an older decision than one
\* before it, and a scan is only left out for as many newer ones, whatever happens between
\* the reads that the list is put together from (supabase-server.js:351-387,534-589,
\* dashboard-history.js).
THEOREM HistoryAlwaysHonest == HistorySpec => []HistoryHonest
<1>1. HistoryInit => ListInv
  BY HistoryAssumption DEF HistoryInit, ListInv, NewestListed
<1>2. ScansInv /\ ListInv => HistoryHonest
  BY DEF ScansInv, ShownInv, ListInv, HistoryHonest, CompletedIsFinal, NeverOlder
<1>3. HistoryTypeOK /\ ScansInv /\ ListInv /\ [HistoryNext]_historyVars => HistoryTypeOK' /\ ScansInv' /\ ListInv'
  BY HistoryTypeNext, ScansInvNext, ListInvNext
<1> QED
  BY <1>1, <1>2, <1>3, HistoryTypeInit, ScansInvInit, PTL DEF HistorySpec

-------------------------------------------------------------------------------
(* The components side by side, as the platform run has them *)

\* A step of the platform is a step of one component, which leaves the others alone.
LEMMA PartSteps ==
  ASSUME [PartNext]_allVars
  PROVE  /\ [MeteringNext]_meteringVars /\ [AccountsNext]_accountsVars /\ [PlatformNext]_platformVars
         /\ [WebhooksNext]_hookVars /\ [CaseworkNext]_caseworkVars /\ [WorkspacesNext]_workspacesVars
         /\ [SessionsNext]_sessionsVars /\ [EmailPageNext]_pageVars /\ [DetectionNext]_subject
         /\ [InferenceNext]_inferenceVars /\ [PassportNext]_passportVars /\ [CampaignNext]_campaignVars
         /\ [CheckoutNext]_checkoutVars /\ [EnrichmentNext]_enrichmentVars /\ [HistoryNext]_historyVars
<1>1. CASE UNCHANGED allVars
  BY <1>1 DEF allVars, restVars
<1>2. CASE PartNext
  <2>1. [MeteringNext]_meteringVars /\ [AccountsNext]_accountsVars /\ [PlatformNext]_platformVars
    BY <1>2 DEF PartNext, OthersRest
  <2>2. [WebhooksNext]_hookVars /\ [CaseworkNext]_caseworkVars /\ [WorkspacesNext]_workspacesVars
    BY <1>2 DEF PartNext, OthersRest
  <2>3. [SessionsNext]_sessionsVars /\ [EmailPageNext]_pageVars /\ [DetectionNext]_subject
    BY <1>2 DEF PartNext, OthersRest
  <2>4. /\ [InferenceNext]_inferenceVars /\ [PassportNext]_passportVars /\ [CampaignNext]_campaignVars
        /\ [CheckoutNext]_checkoutVars /\ [EnrichmentNext]_enrichmentVars /\ [HistoryNext]_historyVars
    BY <1>2 DEF PartNext, OthersRest
  <2> QED
    BY <2>1, <2>2, <2>3, <2>4
<1> QED
  BY <1>1, <1>2

\* A behaviour of the platform run is a behaviour of every component, so that what is
\* proved of a component holds of it.
LEMMA PartsRun ==
  MCSpec => /\ MeteringSpec /\ AccountsSpec /\ PlatformSpec /\ WebhooksSpec
            /\ CaseworkSpec /\ WorkspacesSpec /\ SessionsSpec /\ EmailPageSpec
            /\ DetectionSpec /\ InferenceSpec /\ PassportSpec /\ CampaignSpec
            /\ CheckoutSpec /\ EnrichmentSpec /\ HistorySpec
<1>1. PartInit => /\ MeteringInit /\ AccountsInit /\ PlatformInit /\ WebhooksInit
                  /\ CaseworkInit /\ WorkspacesInit /\ SessionsInit /\ EmailPageInit
                  /\ DetectionInit /\ InferenceInit /\ PassportInit /\ CampaignInit
                  /\ CheckoutInit /\ EnrichmentInit /\ HistoryInit
  BY DEF PartInit
<1> QED
  BY <1>1, PartSteps, PTL
     DEF MCSpec, MeteringSpec, AccountsSpec, PlatformSpec, WebhooksSpec, CaseworkSpec, WorkspacesSpec,
         SessionsSpec, EmailPageSpec, DetectionSpec, InferenceSpec, PassportSpec, CampaignSpec, CheckoutSpec,
         EnrichmentSpec, HistorySpec

\* Every variable of every component around the gateway keeps its type.
THEOREM TypesAlwaysOK == MCSpec => []TypesOK
<1>1. DetectionSpec => []DetectionTypeOK
  BY DetectionType
<1> QED
  BY <1>1, PartsRun, MeteringTypeCorrect, AccountsTypeCorrect, PlatformTypeCorrect, WebhooksTypeCorrect,
     CaseworkTypeCorrect, WorkspacesTypeCorrect, SessionsTypeCorrect, PageTypeCorrect,
     InferenceTypeCorrect, PassportTypeCorrect, CampaignTypeCorrect, CheckoutTypeCorrect,
     EnrichmentTypeCorrect, HistoryTypeCorrect, PTL DEF TypesOK
===============================================================================
