------------------------- MODULE IdentityVerification -------------------------
(***************************************************************************)
(* Identity verification of one candidate: the phone page                  *)
(* (CandidateMobileIdentityVerification), the two requests it makes        *)
(* (createCandidateIdentitySession, verifyCandidateIdentity) and the rows  *)
(* they write.                                                             *)
(*                                                                         *)
(* The page may be open more than once.  A request reads the invite, and   *)
(* what it read decides; consent and verification are written later.  The  *)
(* newest verification row decides whether the exam opens.  A release may  *)
(* bring a new privacy policy and drops the requests in flight; pages keep *)
(* the version they were loaded with.                                      *)
(***************************************************************************)
EXTENDS Naturals, Sequences, Absence

CONSTANTS
    Pages,
    MaxVersions,         \* bound on policy versions
    MaxMoment,           \* bound on the clock
    MaxVerifications     \* bound on verification rows

ASSUME IdentityAssumption ==
    MaxVersions \in Nat \ {0} /\ MaxMoment \in Nat /\ MaxVerifications \in Nat

VARIABLES
    moment,              \* the clock, which dates consents
    policyVersion,       \* CURRENT_PRIVACY_POLICY_VERSION of the running release
    identityEnabled,     \* exam.identityVerificationEnabled
    consent,             \* the candidate's consent columns, or None
    recorded,            \* every consent ever written
    opened,              \* policy versions provider sessions were opened under
    verifications,       \* the verification rows, oldest first
    form                 \* form[p]: page p, or None

identityVars == <<moment, policyVersion, identityEnabled, consent, recorded, opened,
                  verifications, form>>

Consents == [version : 1..MaxVersions, at : 0..MaxMoment]

\* Where the page's mutation stands, on the server or between its two requests.
FormSteps == {"form", "consenting", "opening", "holding", "asking", "saving"}

IdentityInit ==
    /\ moment = 0
    /\ policyVersion = 1
    /\ identityEnabled \in BOOLEAN
    /\ consent = None /\ recorded = {} /\ opened = {}
    /\ verifications = <<>>
    /\ form = [p \in Pages |-> None]

Doing(p, step) == form[p] # None /\ form[p].step = step

\* What a page remembers.  Row numbers stand for what it has been told: "data"
\* of the query, "own" answer of its mutation, and "basis", what it showed when
\* the button was pressed.
Form == [step : FormSteps, version : 1..MaxVersions, session : BOOLEAN,
         data : Nat, own : Nat, basis : Nat, consent : Consents \cup {None},
         enabled : BOOLEAN, status : {"VERIFIED", "FAILED"}]

Becomes(p, f) == form' = [form EXCEPT ![p] = f]

Idle(f) == [f EXCEPT !.step = "form", !.basis = 0, !.consent = None, !.enabled = FALSE,
                     !.status = "FAILED"]

BackToForm(p) == Becomes(p, Idle(form[p]))

-----------------------------------------------------------------------------
(* The page. *)

Load(p) ==
    /\ Becomes(p, [step |-> "form", version |-> policyVersion, session |-> FALSE,
                   data |-> Len(verifications), own |-> 0, basis |-> 0,
                   consent |-> None, enabled |-> FALSE, status |-> "FAILED"])
    /\ UNCHANGED <<moment, policyVersion, identityEnabled, consent, recorded, opened,
                   verifications>>

\* The query is repeated when the window gets the focus.
Refetch(p) ==
    /\ form[p] # None
    /\ Becomes(p, [form[p] EXCEPT !.data = Len(verifications)])
    /\ UNCHANGED <<moment, policyVersion, identityEnabled, consent, recorded, opened,
                   verifications>>

\* mutation.data ?? data.identityVerification
Shown(p) == IF form[p].own # 0 THEN form[p].own ELSE form[p].data

\* Wrong: the button stays enabled.
ButtonAlways(p) == TRUE

ButtonEnabled(p) == ~(Shown(p) # 0 /\ verifications[Shown(p)].status = "VERIFIED")

\* A page that has a provider session does not ask for another one.
Mutate(p) ==
    /\ Doing(p, "form") /\ ButtonEnabled(p)
    /\ LET next == [form[p] EXCEPT !.own = 0, !.basis = Shown(p)] IN
       IF form[p].session
       THEN Becomes(p, [next EXCEPT !.step = "holding"])
       ELSE /\ form[p].version = policyVersion        \* assertIdentityPrivacyConsent
            /\ Becomes(p, [next EXCEPT !.step = "consenting", !.enabled = identityEnabled,
                               !.consent = [version |-> policyVersion, at |-> moment]])
    /\ UNCHANGED <<moment, policyVersion, identityEnabled, consent, recorded, opened,
                   verifications>>

-----------------------------------------------------------------------------
(* createCandidateIdentitySession *)

\* The consent is kept although an exam without verification refuses then.
WriteConsent(p) ==
    /\ Doing(p, "consenting")
    /\ consent' = form[p].consent
    /\ recorded' = recorded \cup {form[p].consent}
    /\ IF form[p].enabled
       THEN Becomes(p, [form[p] EXCEPT !.step = "opening", !.consent = None,
                                       !.enabled = FALSE])
       ELSE BackToForm(p)
    /\ UNCHANGED <<moment, policyVersion, identityEnabled, opened, verifications>>

OpenSession(p) ==
    /\ Doing(p, "opening")
    /\ opened' = opened \cup {policyVersion}
    /\ Becomes(p, [form[p] EXCEPT !.step = "holding", !.session = TRUE])
    /\ UNCHANGED <<moment, policyVersion, identityEnabled, consent, recorded, verifications>>

-----------------------------------------------------------------------------
(* verifyCandidateIdentity *)

\* Wrong: any consent will do.
ConsentOfAnyVersion == consent # None

ConsentInForce == consent # None /\ consent.version = policyVersion

Verify(p) ==
    /\ Doing(p, "holding")
    /\ IF identityEnabled /\ ConsentInForce
       THEN Becomes(p, [form[p] EXCEPT !.step = "asking", !.consent = consent])
       ELSE BackToForm(p)
    /\ UNCHANGED <<moment, policyVersion, identityEnabled, consent, recorded, opened,
                   verifications>>

Decisions == {"VERIFIED", "REJECTED", "REVIEW_REQUIRED"}

\* The provider's results, with the scores next to their thresholds; "checks"
\* says whether all required ones are listed.
EngineResults == [decision : Decisions, document : {84, 85}, face : {79, 80},
                  liveness : {79, 80}, ocr : BOOLEAN, checks : BOOLEAN]

DidPassIdentityProviderChecks(r) ==
    /\ r.decision = "VERIFIED"
    /\ r.document >= 85 /\ r.face >= 80 /\ r.liveness >= 80
    /\ r.ocr /\ r.checks

Verdicts == {IF DidPassIdentityProviderChecks(r) THEN "VERIFIED" ELSE "FAILED" :
                r \in EngineResults}

EngineAnswers(p) ==
    /\ Doing(p, "asking")
    /\ \E verdict \in Verdicts :
          Becomes(p, [form[p] EXCEPT !.step = "saving", !.status = verdict])
    /\ UNCHANGED <<moment, policyVersion, identityEnabled, consent, recorded, opened,
                   verifications>>

SaveVerification(p) ==
    /\ Doing(p, "saving") /\ Len(verifications) < MaxVerifications
    /\ verifications' = Append(verifications,
           [status |-> form[p].status, basis |-> form[p].basis,
            consent |-> [version |-> policyVersion, at |-> form[p].consent.at]])
    /\ Becomes(p, [Idle(form[p]) EXCEPT !.own = Len(verifications) + 1])
    /\ UNCHANGED <<moment, policyVersion, identityEnabled, consent, recorded, opened>>

\* A provider that cannot be reached or answers nonsense, a refusal of the
\* input, a failed statement: the mutation ends, what was written stays.
RequestFails(p) ==
    /\ form[p] # None /\ form[p].step # "form"
    /\ BackToForm(p)
    /\ UNCHANGED <<moment, policyVersion, identityEnabled, consent, recorded, opened,
                   verifications>>

-----------------------------------------------------------------------------
\* updateExamInStore may switch verification on and off at any time.
SwitchIdentity ==
    /\ identityEnabled' = ~identityEnabled
    /\ UNCHANGED <<moment, policyVersion, consent, recorded, opened, verifications, form>>

Release ==
    /\ policyVersion < MaxVersions
    /\ policyVersion' = policyVersion + 1
    /\ form' = [p \in Pages |-> IF form[p] = None \/ Doing(p, "holding") THEN form[p]
                                ELSE Idle(form[p])]
    /\ UNCHANGED <<moment, identityEnabled, consent, recorded, opened, verifications>>

IdentityTick ==
    /\ moment < MaxMoment
    /\ moment' = moment + 1
    /\ UNCHANGED <<policyVersion, identityEnabled, consent, recorded, opened,
                   verifications, form>>

IdentityNext ==
    \/ \E p \in Pages :
          \/ Load(p) \/ Refetch(p) \/ Mutate(p) \/ WriteConsent(p) \/ OpenSession(p)
          \/ Verify(p) \/ EngineAnswers(p) \/ SaveVerification(p) \/ RequestFails(p)
    \/ SwitchIdentity \/ Release \/ IdentityTick

IdentitySpec == IdentityInit /\ [][IdentityNext]_identityVars

-----------------------------------------------------------------------------
(* A verification row names a policy version and the time its consent was given
   (verifyCandidateIdentityInStore): the candidate gave exactly this consent, of
   this version at this time, although the row is written two calls later, pages
   keep provider sessions across releases, and the version is the constant of
   the release that writes.  And nobody was led to the provider's capture without
   a consent of the version in force on record. *)
ConsentIsOnRecord ==
    /\ \A i \in DOMAIN verifications : verifications[i].consent \in recorded
    /\ \A v \in opened : \E c \in recorded : c.version = v

(* The newest row decides, and overlapping verifications save theirs in any order
   (hasPassed of the entry conditions reads one row): a candidate who is verified
   loses that only to a page that had not been told when its button was pressed. *)
VerifiedUntilContradicted ==
    [][\A i \in DOMAIN verifications :
          /\ i = Len(verifications) /\ verifications[i].status = "VERIFIED"
          /\ verifications' # verifications
          /\ verifications'[i + 1].status = "FAILED"
          => verifications'[i + 1].basis < i]_identityVars
===============================================================================
