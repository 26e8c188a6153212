---------------------------- MODULE PoHRegistry ----------------------------
(***************************************************************************)
(* The registry of attestations (contracts/src/PoHRegistry.sol): which     *)
(* subjects an attestor vouched for, of which kind, and until when.        *)
(*                                                                         *)
(* An attestation is the record an attestor signs off chain. Its signature *)
(* pins subject, kind, times, nonce and signer; that is the only thing the *)
(* model keeps of it. SignedAttestation are the attestations ever signed;  *)
(* anybody may submit any of them at any time. The block timestamp `now`   *)
(* advances by itself.                                                     *)
(***************************************************************************)
EXTENDS Integers

CONSTANTS
  Subject,      \* the addresses attestations are about
  Attestor,     \* the accounts that may hold ATTESTOR_ROLE
  Nonce,        \* attestation nonces
  Timestamp,    \* the block timestamps, and the times attestations carry
  SignedAttestation, \* the attestations the attestors sign
  NoAttestor    \* the zero address of a deleted record

ASSUME TimestampAssumption == Timestamp \subseteq Nat \ {0}
ASSUME NoAttestorAssumption == NoAttestor \notin Attestor

HUMANITY == 1
BUSINESS == 2
HUMANITY_AND_BUSINESS == 3
Kind == {HUMANITY, BUSINESS, HUMANITY_AND_BUSINESS}

Attestation == [attestor : Attestor, subject : Subject, kind : Kind \union {0},
                issuedAt : Timestamp, expiresAt : Timestamp, nonce : Nonce]

ASSUME AttestationAssumption == SignedAttestation \subseteq Attestation

VARIABLES
  now,            \* block.timestamp
  records,        \* records[s][k]: _records
  consumedNonces, \* consumedNonces[a]: the nonces of a already used
  attestors       \* the holders of ATTESTOR_ROLE

pohVars == <<records, consumedNonces, attestors>>
registryVars == <<now, pohVars>>

Record == [issuedAt : Timestamp \union {0},
           expiresAt : Timestamp \union {0},
           attestor : Attestor \union {NoAttestor}]
NoRecord == [issuedAt |-> 0, expiresAt |-> 0, attestor |-> NoAttestor]

RegistryTypeOK ==
  /\ now \in Timestamp
  /\ records \in [Subject -> [Kind -> Record]]
  /\ consumedNonces \in [Attestor -> SUBSET Nonce]
  /\ attestors \subseteq Attestor

---------------------------------------------------------------------------
IsVerified(s, k) == records[s][k].expiresAt > now
IsFullyVerified(s) == IsVerified(s, HUMANITY) /\ IsVerified(s, BUSINESS)

(* The slots _storeRecord writes for an attestation of kind k. *)
StoredKinds(k) == IF k = HUMANITY_AND_BUSINESS THEN {HUMANITY, BUSINESS} ELSE {k}

EmptyRegistry ==
  /\ now \in Timestamp
  /\ records = [s \in Subject |-> [k \in Kind |-> NoRecord]]
  /\ consumedNonces = [a \in Attestor |-> {}]

RegistryInit == EmptyRegistry /\ attestors = {}

(* Faulty variant: expiresAt taken for a duration. *)
StoreAttestationFor(t) ==
  /\ consumedNonces' = [consumedNonces EXCEPT ![t.attestor] = @ \union {t.nonce}]
  /\ records' = [records EXCEPT ![t.subject] =
       [k \in Kind |->
          IF k \in StoredKinds(t.kind)
          THEN [issuedAt |-> t.issuedAt, expiresAt |-> now + t.expiresAt, attestor |-> t.attestor]
          ELSE @[k]]]
  /\ UNCHANGED <<now, attestors>>
StoreAttestation(t) ==
  /\ consumedNonces' = [consumedNonces EXCEPT ![t.attestor] = @ \union {t.nonce}]
  /\ records' = [records EXCEPT ![t.subject] =
       [k \in Kind |->
          IF k \in StoredKinds(t.kind)
          THEN [issuedAt |-> t.issuedAt, expiresAt |-> t.expiresAt, attestor |-> t.attestor]
          ELSE @[k]]]
  /\ UNCHANGED <<now, attestors>>

(* Faulty variants: without the replay check, and without the expiry check. *)
RecordReplayable(t) ==
  /\ t.kind \in Kind
  /\ t.issuedAt <= now /\ t.expiresAt > now
  /\ t.attestor \in attestors
  /\ StoreAttestation(t)
RecordExpired(t) ==
  /\ t.kind \in Kind
  /\ t.issuedAt <= now
  /\ t.attestor \in attestors
  /\ t.nonce \notin consumedNonces[t.attestor]
  /\ StoreAttestation(t)

RecordAttestation(t) ==
  /\ t.kind \in Kind
  /\ t.issuedAt <= now
  /\ t.expiresAt > now
  /\ t.attestor \in attestors
  /\ t.nonce \notin consumedNonces[t.attestor]
  /\ StoreAttestation(t)

(* ADMIN_ROLE deletes the slot of exactly this kind, whatever it holds. *)
Revoke(s, k) ==
  /\ records' = [records EXCEPT ![s][k] = NoRecord]
  /\ UNCHANGED <<now, consumedNonces, attestors>>

GrantAttestor(a) ==
  /\ attestors' = attestors \union {a}
  /\ UNCHANGED <<now, records, consumedNonces>>

RevokeAttestor(a) ==
  /\ attestors' = attestors \ {a}
  /\ UNCHANGED <<now, records, consumedNonces>>

Tick ==
  /\ \E t \in Timestamp : t > now /\ now' = t
  /\ UNCHANGED pohVars

RegistryNext ==
  \/ \E t \in SignedAttestation : RecordAttestation(t)
  \/ \E s \in Subject, k \in Kind : Revoke(s, k)
  \/ \E a \in Attestor : GrantAttestor(a) \/ RevokeAttestor(a)

RegistrySpec == RegistryInit /\ [][RegistryNext \/ Tick]_registryVars

---------------------------------------------------------------------------
(* A stored record was paid for with a nonce of the attestor it names: an  *)
(* attestor whose nonces are all unused vouches for nobody, and no record  *)
(* was issued in the future (consumedNonces and the two time checks of     *)
(* recordAttestation; revoke deletes the whole record).                    *)
RecordIsAttested ==
  \A s \in Subject, k \in Kind :
    LET r == records[s][k] IN
    IF r.attestor = NoAttestor THEN r = NoRecord
    ELSE /\ r.issuedAt <= now
         /\ r.expiresAt > r.issuedAt
         /\ consumedNonces[r.attestor] # {}

(* Replay protection: a slot that gets a new record spends, in the same    *)
(* step, one nonce that the record's attestor had not used, and that       *)
(* attestor held its role. One signature therefore writes once.            *)
RecordSpendsFreshNonce ==
  [][\A s \in Subject, k \in Kind :
       records'[s][k] \notin {records[s][k], NoRecord} =>
         LET a == records'[s][k].attestor IN
         /\ a \in attestors
         /\ \E n \in Nonce \ consumedNonces[a] :
              consumedNonces' = [consumedNonces EXCEPT ![a] = @ \union {n}]]_registryVars

(* Recording an attestation never costs a subject its verification, though *)
(* it overwrites the slot whatever the old expiry was: only time and an    *)
(* explicit revoke of that subject's record end it.                        *)
VerificationEndsByTimeOrRevoke ==
  [][\A s \in Subject :
       IsFullyVerified(s) /\ ~IsFullyVerified(s)' =>
         \/ now' > now
         \/ \E k \in {HUMANITY, BUSINESS} : records'[s][k] = NoRecord]_registryVars
============================================================================
