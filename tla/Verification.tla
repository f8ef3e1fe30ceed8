---------------------------- MODULE Verification ----------------------------
(***************************************************************************)
(* What others verify of an identity: answers to challenges and the        *)
(* attestations it issued, each against a public state the verifier was    *)
(* given.  internal/auth/challenge.go, internal/attestation/attestation.go *)
(* and their callers in internal/app/service.go, over the identity, clock  *)
(* and file of IdentityChain.                                              *)
(*                                                                         *)
(* A verifier keeps nothing: verifying is an operator on a public state,   *)
(* a response or attestation, and the clock, so it may happen at any time  *)
(* and with any state exported so far, an outdated one too.  Of the        *)
(* owner's operations only those on keys are steps here: the others change *)
(* neither the keys nor the clock.                                         *)
(***************************************************************************)
EXTENDS IdentityChain

CONSTANTS
    Lifetimes,     \* ttl of a challenge, validity of an attestation
    MaxIssued,     \* bound: challenges created and attestations issued, together
    MaxResponses   \* bound: responses ever given

ASSUME LifetimesAssumption == Lifetimes \subseteq Nat \ {0}

VARIABLES
    states,       \* the public states the owner exported, all still around
    challenges,   \* the challenges verifiers created
    responses,    \* the responses the owner gave
    attestations  \* the attestations the owner issued about others

outside == <<states, challenges, responses, attestations>>
allVars == <<vars, outside>>

(* identity is the id asked for: this one's, or one not known here.        *)
Challenge == [identity: KeyIds, nonce: Nat, issuedAt: Times, expiresAt: Nat]

Response == [challenge: Challenge, signer: KeyIds, signedBy: KeyIds]

(* Subject, claim and evidence are left out: nothing depends on them.      *)
Attestation == [issuer: KeyIds, issuerKey: KeyIds, signedBy: KeyIds,
                validFrom: Times, validTo: Nat]

Refused == [refused |-> "challenge"]

SignedState(id) == [doc |-> id.doc, events |-> id.events]

Loads == file # NoFile /\ VerifyState(file)

-----------------------------------------------------------------------------
(* Challenge and response.                                                 *)

NewChallenge(identity, nonce, ttl) ==
    [identity |-> identity, nonce |-> nonce, issuedAt |-> clock, expiresAt |-> clock + ttl]

ActiveDevice(doc, k) == Resolvable(doc, k, {DeviceRole})

(* Mutant of SignChallenge: the signer is not looked up in the document.   *)
SignChallengeUnresolved(c, k, id) ==
    LET signer == IF k = Nobody THEN DeviceKeyID(id.doc, id.preferredDevice) ELSE k
    IN  IF c.identity = id.doc.id
        THEN [challenge |-> c, signer |-> signer, signedBy |-> signer]
        ELSE Refused

(* k is the signer asked for, Nobody for the device the identity prefers.  *)
SignChallenge(c, k, id) ==
    LET signer == IF k = Nobody THEN DeviceKeyID(id.doc, id.preferredDevice) ELSE k
    IN  IF /\ c.identity = id.doc.id
           /\ ResolveKey(id.doc, signer)
           /\ ActiveDevice(id.doc, signer)
           /\ signer \in id.local
        THEN [challenge |-> c, signer |-> signer, signedBy |-> signer]
        ELSE Refused

(* Mutant of VerifyChallenge: any signing key of the document will do.     *)
VerifyChallengeAnyRole(response, doc) ==
    /\ clock <= response.challenge.expiresAt
    /\ response.challenge.identity = doc.id
    /\ \E i \in DOMAIN doc.keys : doc.keys[i].id = response.signer
    /\ response.signedBy = response.signer

VerifyChallenge(response, doc) ==
    /\ clock <= response.challenge.expiresAt
    /\ response.challenge.identity = doc.id
    /\ ActiveDevice(doc, response.signer)
    /\ ResolveKey(doc, response.signer)
    /\ response.signedBy = response.signer

VerifyChallengeResponse(state, response) ==
    /\ VerifyState(state)
    /\ response # Refused
    /\ VerifyChallenge(response, state.doc)

(* Service.SelfCheck: a challenge, its response and its verification.      *)
SelfCheck ==
    \A ttl \in Lifetimes :
        VerifyChallengeResponse(SignedState(file),
            SignChallenge(NewChallenge(file.doc.id, 0, ttl), Nobody, file))

-----------------------------------------------------------------------------
(* Attestations: the issuer's side, and the verifier's.                    *)

(* Attestation.New takes the root of the document, Sign the preferred one. *)
NewAttestation(id, validFor) ==
    [issuer |-> id.doc.id, issuerKey |-> id.doc.root, signedBy |-> id.preferredRoot,
     validFrom |-> clock, validTo |-> clock + validFor]

(* Mutant of Verify: the start of the validity is not looked at.           *)
VerifyUntil(att) ==
    /\ clock <= att.validTo
    /\ att.signedBy = att.issuerKey

Verify(att) ==
    /\ clock <= att.validTo
    /\ clock >= att.validFrom
    /\ att.signedBy = att.issuerKey

VerifyAttestationWithState(state, att) ==
    /\ VerifyState(state)
    /\ ResolveKey(state.doc, att.issuerKey)
    /\ Verify(att)

-----------------------------------------------------------------------------
(* Steps.                                                                  *)

KeyOperation ==
    \/ AddDevice
    \/ \E k \in KnownKeys \cup {UnknownKey} : RevokeDevice(k)
    \/ RotateRoot

Owner ==
    /\ KeyOperation \/ New \/ Load \/ Save \/ Discard \/ Tick \/ StepBack
    /\ UNCHANGED outside

(* Service.PublicState and ExportState: states are handed out, never taken *)
(* back.                                                                   *)
ExportState ==
    /\ Loads
    /\ states' = states \cup {SignedState(file)}
    /\ UNCHANGED <<vars, challenges, responses, attestations>>

(* Challenges and attestations do not bear on each other.                  *)
RoomForIssued == Cardinality(challenges) + Cardinality(attestations) < MaxIssued

(* Service.CreateChallenge: anyone, for any identity id.                   *)
CreateChallenge ==
    /\ RoomForIssued
    /\ \E identity \in {FirstRoot, UnknownKey}, ttl \in Lifetimes :
          challenges' = challenges \cup
              {NewChallenge(identity, Cardinality(challenges) + 1, ttl)}
    /\ UNCHANGED <<vars, states, responses, attestations>>

(* Service.RespondToChallenge: expiry is not looked at by the responder.   *)
RespondToChallenge ==
    /\ Loads
    /\ Cardinality(responses) < MaxResponses
    /\ \E c \in challenges, k \in {Nobody} \cup file.local :
          LET response == SignChallenge(c, k, file)
          IN  /\ response # Refused
              /\ responses' = responses \cup {response}
    /\ UNCHANGED <<vars, states, challenges, attestations>>

(* Service.IssueAttestation.                                               *)
IssueAttestation ==
    /\ Loads
    /\ RoomForIssued
    /\ file.preferredRoot \in file.local
    /\ \E validFor \in Lifetimes :
          attestations' = attestations \cup {NewAttestation(file, validFor)}
    /\ UNCHANGED <<vars, states, challenges, responses>>

VerificationInit ==
    Init /\ states = {} /\ challenges = {} /\ responses = {} /\ attestations = {}

VerificationNext ==
    \/ Owner
    \/ ExportState
    \/ CreateChallenge
    \/ RespondToChallenge
    \/ IssueAttestation

VerificationSpec == VerificationInit /\ [][VerificationNext]_allVars

-----------------------------------------------------------------------------
(* Properties.                                                             *)

(* The types of what is handed out (types.go: Challenge, Attestation).     *)
VerificationTypeOK ==
    /\ TypeOK
    /\ states \subseteq [doc: Document, events: Seq(Event)]
    /\ challenges \subseteq Challenge
    /\ responses \subseteq Response
    /\ attestations \subseteq Attestation

DevicesWithin(events) ==
    {FirstDevice} \cup
    {events[i].key : i \in {j \in DOMAIN events : events[j].type = "AddDeviceKey"}}

Superseded(events) == RevokedWithin(events, Len(events))

(* The owner of a file that loads can prove it is theirs as long as one    *)
(* device is left: the preferred one, or the first active, has its private *)
(* key in the key ring and the public state agrees (Service.SelfCheck).    *)
SelfCheckPasses ==
    Loads /\ FirstActive(file.doc, DeviceRole) # Nobody => SelfCheck

(* A response is accepted with a public state exactly when, by the chain   *)
(* of that state, the signer is a device the identity added and has not    *)
(* revoked, and the challenge has not expired (VerifyChallengeResponse).   *)
AcceptedMeansDevice ==
    \A s \in states, r \in responses :
        VerifyChallengeResponse(s, r) <=>
            /\ clock <= r.challenge.expiresAt
            /\ r.signer \in DevicesWithin(s.events) \ Superseded(s.events)

(* An attestation is accepted with a state of its issuer exactly when the  *)
(* chain of that state has the issuing root, as yet neither rotated away   *)
(* nor revoked, and the time is within its validity                        *)
(* (VerifyAttestationWithState).                                           *)
AttestedByCurrentRoot ==
    \A s \in states, a \in attestations :
        VerifyAttestationWithState(s, a) <=>
            /\ a.validFrom <= clock /\ clock <= a.validTo
            /\ a.issuerKey \in KeysWithin(s.events, Len(s.events)) \ Superseded(s.events)

=============================================================================
