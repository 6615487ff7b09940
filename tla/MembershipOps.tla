--------------------------- MODULE MembershipOps ---------------------------
(***************************************************************************)
(* What one ZeroTier node remembers about one other member of a network:   *)
(* src/generator/node/Membership.{hpp,cpp} as operators on a record.       *)
(*                                                                         *)
(* A Hashtable entry that does not exist is the value with timestamp (or   *)
(* threshold) 0: the code itself compares an absent certificate of         *)
(* membership through its timestamp 0, Hashtable::operator[] creates       *)
(* thresholds as 0, and the controller issues no timestamp 0.              *)
(***************************************************************************)
EXTENDS Integers

CONSTANTS
    CredTypes,      \* credential types stored by ID: TAG, CAPABILITY, COO
    CredIds,        \* credential IDs (32 bit integers in the code)
    Bodies,         \* what a tag, capability or ownership certificate says
    ComMaxDelta,    \* maxDelta of the timestamp qualifier of a COM
    CredMaxDelta    \* NetworkConfig::credentialTimeMaxDelta

ASSUME DeltasAssumption == ComMaxDelta \in Nat /\ CredMaxDelta \in Nat
ASSUME TypesAssumption == "COM" \notin CredTypes
ASSUME BodiesAssumption == Bodies # {}

Key == CredTypes \X CredIds

(* A certificate of membership: its timestamp and whether the identity     *)
(* hash it carries is the one of the peer it was presented for.            *)
Com == [ts : Nat, identityMatches : BOOLEAN]
NoCom == [ts |-> 0, identityMatches |-> FALSE]

Cred == [ts : Nat, body : Bodies]
NoCred == [ts |-> 0, body |-> CHOOSE b \in Bodies : TRUE]

(* "OTHER" is any revoked type Membership does not know.                   *)
Revocation == [type : CredTypes \union {"COM", "OTHER"}, id : CredIds,
               threshold : Nat]

(* The fields of NetworkConfig that decide about other members.            *)
Config == [ts : Nat, public : BOOLEAN, com : Com]

Membership == [com : Com, comThreshold : Nat,
               revocations : [Key -> Nat], creds : [Key -> Cred]]

NewMembership == [com |-> NoCom, comThreshold |-> 0,
                  revocations |-> [k \in Key |-> 0],
                  creds |-> [k \in Key |-> NoCred]]

----------------------------------------------------------------------------
(* verify() of every credential type: only the controller's signature      *)
(* counts, and an unknown controller identity asks for a WHOIS.            *)
Signatures == {"genuine", "forged", "foreign"}

Verdict(signature, controllerKnown) ==
    IF signature = "foreign" THEN "BAD"
    ELSE IF ~controllerKnown THEN "WHOIS"
    ELSE IF signature = "genuine" THEN "OK" ELSE "BAD"

Results == {"REJECTED", "NEW", "REDUNDANT", "DEFERRED"}

ResultOf(verdict) ==
    [v \in {"OK", "WHOIS", "BAD"} |->
        IF v = "OK" THEN "NEW" ELSE IF v = "WHOIS" THEN "DEFERRED"
        ELSE "REJECTED"][verdict]

----------------------------------------------------------------------------
(* Mutant: an older certificate of membership is not refused.              *)
AddComResult_OldAccepted(m, com, verdict) ==
    IF com.ts <= m.comThreshold THEN "REJECTED"
    ELSE IF com = m.com THEN "REDUNDANT"
    ELSE ResultOf(verdict)

(* Membership::addCredential for a certificate of membership.              *)
AddComResult(m, com, verdict) ==
    IF com.ts <= m.comThreshold \/ com.ts < m.com.ts THEN "REJECTED"
    ELSE IF com = m.com THEN "REDUNDANT"
    ELSE ResultOf(verdict)

AddCom(m, com, verdict) ==
    IF AddComResult(m, com, verdict) = "NEW" THEN [m EXCEPT !.com = com] ELSE m

(* Mutant: an older credential is not refused.                             *)
AddCredResult_OldAccepted(m, key, cred, verdict) ==
    IF m.creds[key] = cred THEN "REDUNDANT"
    ELSE IF m.revocations[key] >= cred.ts THEN "REJECTED"
    ELSE ResultOf(verdict)

(* _addCredImpl: tags, capabilities and certificates of ownership.  The    *)
(* identical credential is redundant even when it has been revoked.        *)
AddCredResult(m, key, cred, verdict) ==
    IF m.creds[key].ts > cred.ts THEN "REJECTED"
    ELSE IF m.creds[key] = cred THEN "REDUNDANT"
    ELSE IF m.revocations[key] >= cred.ts THEN "REJECTED"
    ELSE ResultOf(verdict)

AddCred(m, key, cred, verdict) ==
    IF AddCredResult(m, key, cred, verdict) = "NEW"
    THEN [m EXCEPT !.creds[key] = cred] ELSE m

(* Membership::addCredential for a revocation.                             *)
IsNews(m, rev) ==
    \/ rev.type = "COM" /\ rev.threshold > m.comThreshold
    \/ rev.type \in CredTypes
       /\ m.revocations[<<rev.type, rev.id>>] < rev.threshold

AddRevocationResult(m, rev, verdict) ==
    IF verdict # "OK" THEN ResultOf(verdict)
    ELSE IF rev.type = "OTHER" THEN "REJECTED"
    ELSE IF IsNews(m, rev) THEN "NEW" ELSE "REDUNDANT"

(* Mutant: a grace period is subtracted without a lower bound.             *)
RecordRevocation_Grace(m, rev) ==
    [m EXCEPT !.comThreshold = rev.threshold - (ComMaxDelta + 1)]

(* The threshold of the COM is assigned for every type of revocation.      *)
RecordRevocation(m, rev) ==
    [m EXCEPT !.comThreshold = rev.threshold,
              !.revocations = IF rev.type \in CredTypes
                              THEN [@ EXCEPT ![<<rev.type, rev.id>>] = rev.threshold]
                              ELSE @]

AddRevocation(m, rev, verdict) ==
    IF AddRevocationResult(m, rev, verdict) = "NEW"
    THEN RecordRevocation(m, rev) ELSE m

----------------------------------------------------------------------------
Distance(a, b) == IF a >= b THEN a - b ELSE b - a

(* Mutant: a revocation covers only what is older than its threshold.      *)
IsTimestampValid_ThresholdExcluded(m, config, key) ==
    /\ Distance(m.creds[key].ts, config.ts) <= CredMaxDelta
    /\ m.creds[key].ts >= m.revocations[key]

(* _isCredentialTimestampValid for the entry stored under a key.           *)
IsTimestampValid(m, config, key) ==
    /\ Distance(m.creds[key].ts, config.ts) <= CredMaxDelta
    /\ m.creds[key].ts > m.revocations[key]

(* getTag(), CapabilityIterator and hasCertificateOfOwnershipFor(): the    *)
(* rule engine and the ownership checks see an entry exactly then.         *)
InUse(m, config, key) ==
    m.creds[key].ts # 0 /\ IsTimestampValid(m, config, key)

(* Membership::clean.                                                      *)
CleanCreds(m, config) ==
    [m EXCEPT !.creds = [k \in Key |-> IF IsTimestampValid(m, config, k)
                                       THEN m.creds[k] ELSE NoCred]]

(* CertificateOfMembership::agreesWith, mine being this node's own.        *)
AgreesWith(mine, other) ==
    /\ mine.ts # 0 /\ other.ts # 0
    /\ Distance(mine.ts, other.ts) <= ComMaxDelta
    /\ other.identityMatches

(* Mutant: the certificate with exactly the revoked timestamp is good.     *)
IsAllowed_ThresholdIncluded(m, config) ==
    config.public \/ (m.com.ts >= m.comThreshold /\ AgreesWith(config.com, m.com))

(* Membership::isAllowedOnNetwork, the decision of Network::gate.          *)
IsAllowed(m, config) ==
    config.public \/ (m.com.ts > m.comThreshold /\ AgreesWith(config.com, m.com))
=============================================================================
