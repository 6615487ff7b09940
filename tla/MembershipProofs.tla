-------------------------- MODULE MembershipProofs --------------------------
(***************************************************************************)
(* The invariants of Membership, proved for every set of peers, credential *)
(* types and IDs, timestamps and configurations, and at the end those of   *)
(* CredentialExchange, which brings a membership its credentials.          *)
(***************************************************************************)
EXTENDS Membership, CredentialExchange, TLAPS

----------------------------------------------------------------------------
(* The operators on one membership.                                        *)

LEMMA NoCredType == NoCred \in Cred /\ NoCred.ts = 0
BY BodiesAssumption DEF NoCred, Cred

LEMMA NewMembershipType == NewMembership \in Membership
BY NoCredType DEF NewMembership, Membership, NoCom, Com

LEMMA AddComType ==
    ASSUME NEW m \in Membership, NEW com \in Com, NEW verdict
    PROVE  AddCom(m, com, verdict) \in Membership
BY DEF AddCom, Membership

LEMMA AddCredType ==
    ASSUME NEW m \in Membership, NEW key \in Key, NEW cred \in Cred, NEW verdict
    PROVE  AddCred(m, key, cred, verdict) \in Membership
BY DEF AddCred, Membership

LEMMA AddRevocationType ==
    ASSUME NEW m \in Membership, NEW rev \in Revocation, NEW verdict
    PROVE  AddRevocation(m, rev, verdict) \in Membership
BY DEF AddRevocation, RecordRevocation, Membership, Revocation, Key

LEMMA CleanCredsType ==
    ASSUME NEW m \in Membership, NEW c \in Config
    PROVE  CleanCreds(m, c) \in Membership
BY NoCredType DEF CleanCreds, Membership
----------------------------------------------------------------------------
(* Every state is well typed: in particular a membership survives every    *)
(* sequence of credentials, revocations, cleanings and reconfigurations.   *)

LEMMA InitTypeOK == Init => TypeOK
<1>1. NothingSeen \in Seen
  BY DEF NothingSeen, Seen
<1> QED
  BY <1>1, NewMembershipType, ConfigsAssumption DEF Init, TypeOK

LEMMA NextTypeOK == TypeOK /\ [Next]_vars => TypeOK'
<1> SUFFICES ASSUME TypeOK, [Next]_vars PROVE TypeOK'
  OBVIOUS
<1> USE DEF TypeOK
<1>1. ASSUME NEW p \in Peers, NEW signature \in Signatures,
             NEW com \in [ts : Timestamps, identityMatches : BOOLEAN],
             ReceiveCom(p, com, signature)
      PROVE  TypeOK'
  <2>1. com \in Com
    BY TimestampsAssumption DEF Com
  <2>2. memberships' \in [Peers -> Membership]
    BY <1>1, <2>1, AddComType DEF ReceiveCom
  <2>3. seen' \in [Peers -> Seen]
    BY <1>1, <2>1 DEF ReceiveCom, Seen
  <2> QED
    BY <1>1, <2>2, <2>3 DEF ReceiveCom, topology
<1>2. ASSUME NEW p \in Peers, NEW signature \in Signatures,
             NEW key \in Key, NEW cred \in [ts : Timestamps, body : Bodies],
             ReceiveCred(p, key, cred, signature)
      PROVE  TypeOK'
  <2>1. cred \in Cred
    BY TimestampsAssumption DEF Cred
  <2>2. memberships' \in [Peers -> Membership]
    BY <1>2, <2>1, AddCredType DEF ReceiveCred
  <2>3. seen' \in [Peers -> Seen]
    BY <1>2, <2>1, SMTT(30) DEF ReceiveCred, Seen, SeenCred
  <2> QED
    BY <1>2, <2>2, <2>3 DEF ReceiveCred, topology
<1>3. ASSUME NEW p \in Peers, NEW signature \in Signatures,
             NEW rev \in [type : CredTypes \union {"COM", "OTHER"}, id : CredIds,
                          threshold : Timestamps],
             ReceiveRevocation(p, rev, signature)
      PROVE  TypeOK'
  <2>1. rev \in Revocation
    BY TimestampsAssumption DEF Revocation
  <2>2. memberships' \in [Peers -> Membership]
    BY <1>3, <2>1, AddRevocationType DEF ReceiveRevocation
  <2>3. seen' \in [Peers -> Seen]
    BY <1>3, <2>1 DEF ReceiveRevocation, Seen
  <2> QED
    BY <1>3, <2>2, <2>3 DEF ReceiveRevocation, topology
<1>4. ASSUME NEW p \in Peers, CreateMembership(p) \/ LearnOrForgetPeer(p)
      PROVE  TypeOK'
  BY <1>4 DEF CreateMembership, LearnOrForgetPeer, topology
<1>5. CASE Clean
  <2>1. memberships' \in [Peers -> Membership]
    BY <1>5, CleanCredsType, NewMembershipType DEF Clean
  <2>2. seen' \in [Peers -> Seen]
    BY <1>5 DEF Clean, Seen, NothingSeen
  <2> QED
    BY <1>5, <2>1, <2>2 DEF Clean, topology
<1>6. CASE SetConfig \/ LearnOrForgetController
  BY <1>6, ConfigsAssumption DEF SetConfig, LearnOrForgetController, topology
<1>7. CASE UNCHANGED vars
  BY <1>7 DEF vars
<1> QED
  BY <1>1, <1>2, <1>3, <1>4, <1>5, <1>6, <1>7 DEF Next

THEOREM TypeCorrect == Spec => []TypeOK
BY InitTypeOK, NextTypeOK, PTL DEF Spec
----------------------------------------------------------------------------
(* The inductive invariant: per peer and credential ID, what the table and *)
(* the revocation thresholds owe to the history of what was received.      *)

Received(p, key) == {s.cred : s \in {s \in seen[p].creds : s.key = key}}

(* A revocation threshold is the largest of the revocations seen.          *)
ThresholdInv ==
    \A p \in Peers, key \in Key :
        /\ \A r \in seen[p].revs :
              <<r.type, r.id>> = key => r.threshold <= memberships[p].revocations[key]
        /\ \/ memberships[p].revocations[key] = 0
           \/ \E r \in seen[p].revs :
                 /\ <<r.type, r.id>> = key
                 /\ r.threshold = memberships[p].revocations[key]

(* A stored credential was received, and whatever was received is not      *)
(* newer than the stored credential or is revoked.                         *)
CredInv ==
    \A p \in Peers, key \in Key :
        /\ \/ Stored(p, key).ts = 0
           \/ Stored(p, key) \in Received(p, key)
        /\ \A c \in Received(p, key) :
              /\ c.ts # 0
              /\ c.ts <= Stored(p, key).ts \/ c.ts <= memberships[p].revocations[key]

(* The same for the COM, as long as nothing but COMs has been revoked.     *)
ComInv ==
    \A p \in Peers :
        /\ memberships[p].com.ts = 0 \/ memberships[p].com \in seen[p].coms
        /\ (\A r \in seen[p].revs : r.type = "COM") =>
             /\ \A r \in seen[p].revs : r.threshold <= memberships[p].comThreshold
             /\ \A c \in seen[p].coms :
                   \/ c.ts <= memberships[p].com.ts
                   \/ c.ts <= memberships[p].comThreshold

IInv == TypeOK /\ ThresholdInv /\ CredInv /\ ComInv
LEMMA InitIInv == Init => IInv
<1> SUFFICES ASSUME Init PROVE IInv
  OBVIOUS
<1>1. ASSUME NEW p \in Peers, NEW key \in Key
      PROVE  /\ memberships[p].revocations[key] = 0
             /\ Stored(p, key).ts = 0
             /\ memberships[p].com.ts = 0
             /\ memberships[p].comThreshold = 0
             /\ seen[p] = NothingSeen
  BY <1>1, NoCredType DEF Init, NewMembership, Stored, NoCom
<1>2. \A p \in Peers : /\ memberships[p].com.ts = 0
                       /\ seen[p] = NothingSeen
  BY DEF Init, NewMembership, NoCom
<1>3. ThresholdInv /\ CredInv
  BY <1>1 DEF ThresholdInv, CredInv, Received, NothingSeen
<1>4. ComInv
  BY <1>2 DEF ComInv, NothingSeen
<1> QED
  BY InitTypeOK, <1>3, <1>4 DEF IInv

(* Nothing about a peer changes the invariants of the others.              *)
LEMMA NextIInv == IInv /\ [Next]_vars => IInv'
<1> SUFFICES ASSUME IInv, [Next]_vars PROVE IInv'
  OBVIOUS
<1>0. TypeOK /\ TypeOK'
  BY NextTypeOK DEF IInv
<1> USE <1>0
<1>1. ASSUME NEW p \in Peers, NEW signature \in Signatures,
             NEW com \in [ts : Timestamps, identityMatches : BOOLEAN],
             ReceiveCom(p, com, signature)
      PROVE  IInv'
  <2>0. com \in Com
    BY TimestampsAssumption DEF Com
  <2>1. \A q \in Peers, key \in Key :
          /\ memberships'[q].revocations[key] = memberships[q].revocations[key]
          /\ memberships'[q].creds[key] = memberships[q].creds[key]
          /\ seen'[q].creds = seen[q].creds
          /\ seen'[q].revs = seen[q].revs
    BY <1>1 DEF ReceiveCom, AddCom, TypeOK, Membership, Seen
  <2>2. ThresholdInv' /\ CredInv'
    <3>1. \A q \in Peers, key \in Key :
            Stored(q, key)' = Stored(q, key) /\ Received(q, key)' = Received(q, key)
      BY <2>1 DEF Stored, Received
    <3> QED
      BY <2>1, <3>1 DEF IInv, ThresholdInv, CredInv
  <2>3. ASSUME NEW q \in Peers
        PROVE  /\ memberships'[q].com.ts = 0 \/ memberships'[q].com \in seen'[q].coms
               /\ (\A r \in seen'[q].revs : r.type = "COM") =>
                    /\ \A r \in seen'[q].revs :
                          r.threshold <= memberships'[q].comThreshold
                    /\ \A c \in seen'[q].coms :
                          \/ c.ts <= memberships'[q].com.ts
                          \/ c.ts <= memberships'[q].comThreshold
    <3>1. CASE q # p
      BY <1>1, <3>1 DEF ReceiveCom, IInv, ComInv, TypeOK
    <3>2. CASE q = p
      <4> DEFINE verdict == Verdict(signature, controllerKnown)
      <4>1. /\ memberships'[p] = AddCom(memberships[p], com, verdict)
            /\ seen'[p].revs = seen[p].revs
            /\ seen'[p].coms = IF verdict = "OK" THEN seen[p].coms \union {com}
                               ELSE seen[p].coms
        BY <1>1 DEF ReceiveCom, TypeOK, Seen
      <4>2. verdict \in {"OK", "WHOIS", "BAD"}
        BY DEF Verdict
      <4>3. memberships[p] \in Membership /\ seen[p].coms \subseteq Com
        BY DEF TypeOK, Seen
      <4>4. \/ verdict # "OK" /\ memberships'[p] = memberships[p]
            \/ /\ verdict = "OK"
               /\ memberships'[p] = memberships[p]
               /\ com.ts <= memberships[p].comThreshold \/ com.ts <= memberships[p].com.ts
            \/ /\ verdict = "OK"
               /\ com.ts > memberships[p].comThreshold
               /\ com.ts >= memberships[p].com.ts
               /\ memberships'[p] = [memberships[p] EXCEPT !.com = com]
        BY <4>1, <4>2, <4>3, <2>0 DEF AddCom, AddComResult, ResultOf, Membership, Com
      <4> HIDE DEF verdict
      <4> QED
        BY <2>0, <3>2, <4>1, <4>3, <4>4 DEF IInv, ComInv, Membership, Com
    <3> QED
      BY <3>1, <3>2
  <2>4. ComInv'
    BY <2>3 DEF ComInv
  <2> QED
    BY <2>2, <2>4 DEF IInv
<1>2. ASSUME NEW p \in Peers, NEW signature \in Signatures,
             NEW key \in Key, NEW cred \in [ts : Timestamps, body : Bodies],
             ReceiveCred(p, key, cred, signature)
      PROVE  IInv'
  <2>0. cred \in Cred /\ cred.ts \in Nat /\ cred.ts # 0
    <3>1. cred.ts \in Timestamps /\ cred.ts \in Nat \ {0}
      BY TimestampsAssumption
    <3> QED
      BY <3>1 DEF Cred
  <2>1. \A q \in Peers :
          /\ memberships'[q].revocations = memberships[q].revocations
          /\ memberships'[q].com = memberships[q].com
          /\ memberships'[q].comThreshold = memberships[q].comThreshold
          /\ seen'[q].coms = seen[q].coms
          /\ seen'[q].revs = seen[q].revs
    BY <1>2 DEF ReceiveCred, AddCred, TypeOK, Membership, Seen
  <2>2. ThresholdInv' /\ ComInv'
    BY <2>1 DEF IInv, ThresholdInv, ComInv
  <2>3. ASSUME NEW q \in Peers, NEW k \in Key
        PROVE  /\ \/ Stored(q, k)'.ts = 0
                  \/ Stored(q, k)' \in Received(q, k)'
               /\ \A c \in Received(q, k)' : c.ts # 0
               /\ \A c \in Received(q, k)' :
                     \/ c.ts <= Stored(q, k)'.ts
                     \/ c.ts <= memberships'[q].revocations[k]
    <3>1. CASE q # p
      BY <1>2, <3>1 DEF ReceiveCred, IInv, CredInv, TypeOK, Stored, Received
    <3>2. CASE q = p /\ k # key
      <4>1. /\ memberships'[p].creds[k] = memberships[p].creds[k]
            /\ memberships'[p].revocations[k] = memberships[p].revocations[k]
            /\ \A s : s.key = k => (s \in seen'[p].creds <=> s \in seen[p].creds)
        BY <1>2, <3>2 DEF ReceiveCred, AddCred, TypeOK, Membership, Seen
      <4>2. Received(p, k)' = Received(p, k)
        BY <4>1 DEF Received
      <4> QED
        BY <3>2, <4>1, <4>2 DEF IInv, CredInv, Stored
    <3>3. CASE q = p /\ k = key
      <4> DEFINE verdict == Verdict(signature, controllerKnown)
      <4>1. /\ memberships'[p] = AddCred(memberships[p], key, cred, verdict)
            /\ seen'[p].creds = IF verdict = "OK"
                                THEN seen[p].creds \union {[key |-> key, cred |-> cred]}
                                ELSE seen[p].creds
        BY <1>2 DEF ReceiveCred, TypeOK, Seen
      <4>2. verdict \in {"OK", "WHOIS", "BAD"}
        BY DEF Verdict
      <4>3. memberships[p] \in Membership /\ Stored(p, key) \in Cred
        BY DEF TypeOK, Membership, Stored
      <4>4. Received(p, key)' = IF verdict = "OK" THEN Received(p, key) \union {cred}
                                ELSE Received(p, key)
        <5>1. CASE verdict = "OK"
          <6>1. \A s : s \in seen'[p].creds
                        <=> s \in seen[p].creds \/ s = [key |-> key, cred |-> cred]
            BY <4>1, <5>1
          <6>2. \A c : c \in Received(p, key)'
                        <=> \E s : s \in seen'[p].creds /\ s.key = key /\ c = s.cred
            BY DEF Received
          <6>3. \A c : c \in Received(p, key)
                        <=> \E s : s \in seen[p].creds /\ s.key = key /\ c = s.cred
            BY DEF Received
          <6>4. \A c : c \in Received(p, key)'
                        <=> c \in Received(p, key) \/ c = cred
            <7> DEFINE new == [key |-> key, cred |-> cred]
            <7>1. new.key = key /\ new.cred = cred
              OBVIOUS
            <7>2. \A s : s \in seen'[p].creds <=> s \in seen[p].creds \/ s = new
              BY <6>1
            <7> HIDE DEF new
            <7> QED
              BY <6>2, <6>3, <7>1, <7>2
          <6> QED
            BY <5>1, <6>4
        <5>2. CASE verdict # "OK"
          BY <4>1, <5>2 DEF Received
        <5> QED
          BY <5>1, <5>2
      <4>5. \/ verdict # "OK" /\ memberships'[p] = memberships[p]
            \/ /\ verdict = "OK"
               /\ memberships'[p] = memberships[p]
               /\ \/ cred.ts <= Stored(p, key).ts
                  \/ cred.ts <= memberships[p].revocations[key]
            \/ /\ verdict = "OK"
               /\ cred.ts >= Stored(p, key).ts
               /\ memberships'[p] = [memberships[p] EXCEPT !.creds[key] = cred]
        BY <4>1, <4>2, <4>3, <2>0
           DEF AddCred, AddCredResult, ResultOf, Membership, Cred, Stored
      <4>6. \A c \in Received(p, key) : c \in Cred
        BY DEF Received, TypeOK, Seen, SeenCred
      <4>7. /\ \/ Stored(p, key).ts = 0
               \/ Stored(p, key) \in Received(p, key)
            /\ \A c \in Received(p, key) :
                  /\ c.ts # 0
                  /\ \/ c.ts <= Stored(p, key).ts
                     \/ c.ts <= memberships[p].revocations[key]
        BY DEF IInv, CredInv
      <4> HIDE DEF verdict
      <4>8. CASE memberships'[p] = memberships[p]
        BY <2>0, <3>3, <4>3, <4>4, <4>5, <4>6, <4>7, <4>8
           DEF Membership, Stored, Cred
      <4>9. CASE /\ verdict = "OK"
                 /\ cred.ts >= Stored(p, key).ts
                 /\ memberships'[p] = [memberships[p] EXCEPT !.creds[key] = cred]
        <5>1. /\ Stored(p, key)' = cred
              /\ memberships'[p].revocations = memberships[p].revocations
          BY <4>3, <4>9 DEF Stored, Membership
        <5> QED
          BY <2>0, <3>3, <4>3, <4>4, <4>6, <4>7, <4>9, <5>1 DEF Cred, Membership
      <4> QED
        BY <4>5, <4>8, <4>9
    <3> QED
      BY <3>1, <3>2, <3>3
  <2>4. CredInv'
    BY <2>3 DEF CredInv
  <2> QED
    BY <2>2, <2>4 DEF IInv
<1>3. ASSUME NEW p \in Peers, NEW signature \in Signatures,
             NEW rev \in [type : CredTypes \union {"COM", "OTHER"}, id : CredIds,
                          threshold : Timestamps],
             ReceiveRevocation(p, rev, signature)
      PROVE  IInv'
  <2>0. /\ rev \in Revocation
        /\ rev.threshold \in Nat
        /\ rev.type = "OTHER" \/ rev.type = "COM" \/ rev.type \in CredTypes
        /\ rev.type \in CredTypes => <<rev.type, rev.id>> \in Key
    BY TimestampsAssumption DEF Revocation, Key
  <2>1. /\ \A q \in Peers : q # p => /\ memberships'[q] = memberships[q]
                                     /\ seen'[q] = seen[q]
        /\ memberships'[p].com = memberships[p].com
        /\ memberships'[p].creds = memberships[p].creds
        /\ seen'[p].coms = seen[p].coms
        /\ seen'[p].creds = seen[p].creds
    BY <1>3 DEF ReceiveRevocation, AddRevocation, RecordRevocation, TypeOK,
                Membership, Seen
  <2>2. \/ memberships'[p] = memberships[p] /\ seen'[p].revs = seen[p].revs
        \/ /\ memberships'[p] = memberships[p]
           /\ seen'[p].revs = seen[p].revs \union {rev}
           /\ rev.type # "OTHER"
           /\ ~IsNews(memberships[p], rev)
        \/ /\ memberships'[p] = RecordRevocation(memberships[p], rev)
           /\ seen'[p].revs = seen[p].revs \union {rev}
           /\ rev.type # "OTHER"
           /\ IsNews(memberships[p], rev)
    <3> DEFINE verdict == Verdict(signature, controllerKnown)
    <3>1. /\ memberships'[p] = AddRevocation(memberships[p], rev, verdict)
          /\ seen'[p].revs = IF verdict = "OK" /\ rev.type # "OTHER"
                             THEN seen[p].revs \union {rev} ELSE seen[p].revs
      BY <1>3 DEF ReceiveRevocation, TypeOK, Seen
    <3>2. verdict \in {"OK", "WHOIS", "BAD"}
      BY DEF Verdict
    <3> HIDE DEF verdict
    <3> QED
      BY <3>1, <3>2 DEF AddRevocation, AddRevocationResult, ResultOf
  <2>3. /\ memberships[p] \in Membership /\ memberships'[p] \in Membership
        /\ \A q \in Peers : \A r \in seen[q].revs : r \in Revocation
    BY DEF TypeOK, Seen
  <2>4. ASSUME NEW q \in Peers, NEW key \in Key
        PROVE  /\ \A r \in seen'[q].revs :
                     <<r.type, r.id>> = key =>
                        r.threshold <= memberships'[q].revocations[key]
               /\ \/ memberships'[q].revocations[key] = 0
                  \/ \E r \in seen'[q].revs :
                        /\ <<r.type, r.id>> = key
                        /\ r.threshold = memberships'[q].revocations[key]
               /\ memberships'[q].revocations[key] >= memberships[q].revocations[key]
    <3>0. /\ \A r \in seen[q].revs :
               <<r.type, r.id>> = key => r.threshold <= memberships[q].revocations[key]
          /\ \/ memberships[q].revocations[key] = 0
             \/ \E r \in seen[q].revs :
                   /\ <<r.type, r.id>> = key
                   /\ r.threshold = memberships[q].revocations[key]
          /\ memberships[q].revocations[key] \in Nat
      BY DEF IInv, ThresholdInv, TypeOK, Membership
    <3>1. CASE q # p \/ (memberships'[q] = memberships[q] /\ seen'[q].revs = seen[q].revs)
      BY <2>1, <3>0, <3>1
    <3>2. CASE /\ q = p
               /\ memberships'[p] = memberships[p]
               /\ seen'[p].revs = seen[p].revs \union {rev}
               /\ rev.type # "OTHER"
               /\ ~IsNews(memberships[p], rev)
      <4>1. <<rev.type, rev.id>> = key =>
                rev.threshold <= memberships[p].revocations[key]
        BY <2>0, <3>0, <3>2 DEF IsNews, Key
      <4> QED
        BY <3>0, <3>2, <4>1
    <3>3. CASE /\ q = p
               /\ memberships'[p] = RecordRevocation(memberships[p], rev)
               /\ seen'[p].revs = seen[p].revs \union {rev}
               /\ IsNews(memberships[p], rev)
      <4>1. CASE <<rev.type, rev.id>> = key
        <5>1. rev.type \in CredTypes /\ rev.type # "COM"
          BY <4>1, TypesAssumption DEF Key
        <5>2. /\ memberships'[p].revocations[key] = rev.threshold
              /\ rev.threshold > memberships[p].revocations[key]
          BY <2>0, <2>3, <3>0, <3>3, <4>1, <5>1
             DEF IsNews, RecordRevocation, Membership
        <5> QED
          BY <2>0, <2>3, <3>0, <3>3, <4>1, <5>2 DEF Revocation
      <4>2. CASE <<rev.type, rev.id>> # key
        <5>1. memberships'[p].revocations[key] = memberships[p].revocations[key]
          BY <2>0, <2>3, <3>3, <4>2 DEF RecordRevocation, Membership
        <5> QED
          BY <3>0, <3>3, <4>2, <5>1
      <4> QED
        BY <4>1, <4>2
    <3> QED
      BY <2>2, <3>1, <3>2, <3>3
  <2>5. ThresholdInv'
    BY <2>4 DEF ThresholdInv
  <2>6. CredInv'
    <3>1. ASSUME NEW q \in Peers, NEW key \in Key
          PROVE  Stored(q, key)' = Stored(q, key) /\ Received(q, key)' = Received(q, key)
      BY <2>1 DEF Stored, Received
    <3>2. \A q \in Peers, key \in Key :
            /\ memberships'[q].revocations[key] \in Nat
            /\ memberships[q].revocations[key] \in Nat
            /\ \A c \in Received(q, key) : c.ts \in Nat
      BY DEF TypeOK, Membership, Received, Seen, SeenCred, Cred
    <3> QED
      BY <2>4, <3>1, <3>2 DEF IInv, CredInv
  <2>7. ASSUME NEW q \in Peers
        PROVE  /\ memberships'[q].com.ts = 0 \/ memberships'[q].com \in seen'[q].coms
               /\ (\A r \in seen'[q].revs : r.type = "COM") =>
                    /\ \A r \in seen'[q].revs :
                          r.threshold <= memberships'[q].comThreshold
                    /\ \A c \in seen'[q].coms :
                          \/ c.ts <= memberships'[q].com.ts
                          \/ c.ts <= memberships'[q].comThreshold
    <3>0. /\ memberships[q].com.ts = 0 \/ memberships[q].com \in seen[q].coms
          /\ (\A r \in seen[q].revs : r.type = "COM") =>
               /\ \A r \in seen[q].revs : r.threshold <= memberships[q].comThreshold
               /\ \A c \in seen[q].coms :
                     \/ c.ts <= memberships[q].com.ts
                     \/ c.ts <= memberships[q].comThreshold
          /\ memberships[q].comThreshold \in Nat
          /\ \A c \in seen[q].coms : c.ts \in Nat
          /\ \A r \in seen[q].revs : r.threshold \in Nat
      <4>1. ComInv
        BY DEF IInv
      <4>2. memberships[q] \in Membership /\ seen[q] \in Seen
        BY DEF TypeOK
      <4>3. /\ memberships[q].comThreshold \in Nat
            /\ \A c \in seen[q].coms : c.ts \in Nat
            /\ \A r \in seen[q].revs : r.threshold \in Nat
        BY <4>2 DEF Membership, Seen, Com, Revocation
      <4> QED
        BY <4>1, <4>3 DEF ComInv
    <3>1. CASE q # p \/ (memberships'[q] = memberships[q] /\ seen'[q].revs = seen[q].revs)
      BY <2>1, <3>0, <3>1
    <3>2. CASE /\ q = p
               /\ memberships'[p] = memberships[p]
               /\ seen'[p].revs = seen[p].revs \union {rev}
               /\ ~IsNews(memberships[p], rev)
      BY <2>0, <2>1, <3>0, <3>2 DEF IsNews
    <3>3. CASE /\ q = p
               /\ memberships'[p] = RecordRevocation(memberships[p], rev)
               /\ seen'[p].revs = seen[p].revs \union {rev}
               /\ IsNews(memberships[p], rev)
      <4>1. memberships'[p].comThreshold = rev.threshold
        BY <2>3, <3>3 DEF RecordRevocation, Membership
      <4>2. rev.type = "COM" => rev.threshold > memberships[p].comThreshold
        BY <3>3, TypesAssumption DEF IsNews
      <4> QED
        BY <2>0, <2>1, <3>0, <3>3, <4>1, <4>2
    <3> QED
      BY <2>2, <3>1, <3>2, <3>3
  <2>8. ComInv'
    BY <2>7 DEF ComInv
  <2> QED
    BY <2>5, <2>6, <2>8 DEF IInv
<1>4. CASE Clean
  <2>1. ASSUME NEW p \in Peers, p \notin tracked'
        PROVE  memberships'[p] = NewMembership /\ seen'[p] = NothingSeen
    BY <1>4, <2>1 DEF Clean
  <2>2. ASSUME NEW p \in Peers, p \in tracked'
        PROVE  /\ memberships'[p] = CleanCreds(memberships[p], config)
               /\ seen'[p].coms = seen[p].coms
               /\ seen'[p].revs = seen[p].revs
               /\ seen'[p].creds = {s \in seen[p].creds :
                     memberships'[p].creds[s.key] = memberships[p].creds[s.key]}
    BY <1>4, <2>2 DEF Clean, TypeOK, Seen
  <2>3. ASSUME NEW p \in Peers, p \in tracked'
        PROVE  /\ memberships'[p].com = memberships[p].com
               /\ memberships'[p].comThreshold = memberships[p].comThreshold
               /\ memberships'[p].revocations = memberships[p].revocations
               /\ \A key \in Key : memberships'[p].creds[key]
                                      \in {memberships[p].creds[key], NoCred}
    BY <2>2, <2>3 DEF CleanCreds, TypeOK, Membership
  <2>4. ThresholdInv'
    BY <2>1, <2>2, <2>3 DEF IInv, ThresholdInv, NewMembership, NothingSeen
  <2>5. ComInv'
    BY <2>1, <2>2, <2>3 DEF IInv, ComInv, NewMembership, NothingSeen, NoCom
  <2>6. ASSUME NEW p \in Peers, NEW key \in Key
        PROVE  /\ \/ Stored(p, key)'.ts = 0
                  \/ Stored(p, key)' \in Received(p, key)'
               /\ \A c \in Received(p, key)' : c.ts # 0
               /\ \A c \in Received(p, key)' :
                     \/ c.ts <= Stored(p, key)'.ts
                     \/ c.ts <= memberships'[p].revocations[key]
    <3>1. CASE p \notin tracked'
      BY <2>1, <3>1, NoCredType DEF NewMembership, NothingSeen, Stored, Received
    <3>2. CASE p \in tracked' /\ Stored(p, key)' = Stored(p, key)
      <4>1. Received(p, key)' = Received(p, key)
        BY <2>2, <3>2 DEF Received, Stored
      <4> QED
        BY <2>3, <3>2, <4>1 DEF IInv, CredInv
    <3>3. CASE p \in tracked' /\ Stored(p, key)' # Stored(p, key)
      <4>1. Received(p, key)' = {}
        BY <2>2, <3>3 DEF Received, Stored
      <4>2. Stored(p, key)' = NoCred
        BY <2>3, <3>3 DEF Stored
      <4> QED
        BY <4>1, <4>2, NoCredType
    <3> QED
      BY <3>1, <3>2, <3>3
  <2>7. CredInv'
    BY <2>6 DEF CredInv
  <2> QED
    BY <2>4, <2>5, <2>7 DEF IInv
<1>5. ASSUME UNCHANGED <<memberships, seen>>
      PROVE  IInv'
  BY <1>5 DEF IInv, ThresholdInv, CredInv, ComInv, Stored, Received
<1>6. ASSUME NEW p \in Peers, CreateMembership(p) \/ LearnOrForgetPeer(p)
      PROVE  IInv'
  BY <1>5, <1>6 DEF CreateMembership, LearnOrForgetPeer
<1>7. CASE SetConfig \/ LearnOrForgetController \/ UNCHANGED vars
  BY <1>5, <1>7 DEF SetConfig, LearnOrForgetController, vars
<1> QED
  BY <1>1, <1>2, <1>3, <1>4, <1>6, <1>7 DEF Next
THEOREM InductiveInvariant == Spec => []IInv
BY InitIInv, NextIInv, PTL DEF Spec

----------------------------------------------------------------------------
(* What the invariant gives.                                               *)

(* No order of credentials, revocations, cleanings and reconfigurations    *)
(* makes a revoked tag, capability or certificate of ownership visible.    *)
THEOREM RevocationSafety == Spec => []RevokedCredUnusable
<1>1. IInv => RevokedCredUnusable
  <2> SUFFICES ASSUME IInv, NEW p \in Peers, NEW key \in Key,
                      Usable(p, key), Revoked(p, key, Stored(p, key).ts)
               PROVE  FALSE
    BY DEF RevokedCredUnusable
  <2>1. PICK r \in seen[p].revs :
          <<r.type, r.id>> = key /\ Stored(p, key).ts <= r.threshold
    BY DEF Revoked
  <2>2. r.threshold <= memberships[p].revocations[key]
    BY <2>1 DEF IInv, ThresholdInv
  <2>3. /\ r.threshold \in Nat
        /\ Stored(p, key).ts \in Nat
        /\ memberships[p].revocations[key] \in Nat
    BY DEF IInv, TypeOK, Membership, Seen, Revocation, Stored, Cred
  <2>4. Stored(p, key).ts > memberships[p].revocations[key]
    BY DEF Usable, InUse, IsTimestampValid, Stored
  <2> QED
    BY <2>1, <2>2, <2>3, <2>4
<1> QED
  BY <1>1, InductiveInvariant, PTL

(* The credential in use is the newest one that was received and not       *)
(* revoked, whatever the order of arrival.                                 *)
THEOREM OrderIndependence == Spec => []NewestCredInUse
<1>1. ASSUME IInv, NEW p \in Peers, NEW key \in Key
      PROVE  /\ Usable(p, key) =>
                  /\ Stored(p, key) \in Received(p, key)
                  /\ \A c \in Received(p, key) : c.ts <= Stored(p, key).ts
             /\ \A c \in Received(p, key) :
                  ( /\ \A d \in Received(p, key) : d.ts <= c.ts
                    /\ ~Revoked(p, key, c.ts)
                    /\ Distance(c.ts, config.ts) <= CredMaxDelta )
                  => Usable(p, key) /\ Stored(p, key).ts = c.ts
  <2> DEFINE st == Stored(p, key)
             thr == memberships[p].revocations[key]
  <2>1. /\ st.ts \in Nat /\ thr \in Nat
        /\ \A c \in Received(p, key) : c.ts \in Nat
        /\ \A r \in seen[p].revs : r.threshold \in Nat
    BY <1>1 DEF IInv, TypeOK, Membership, Seen, SeenCred, Revocation, Stored,
                Cred, Received
  <2>2. /\ st.ts = 0 \/ st \in Received(p, key)
        /\ \A c \in Received(p, key) :
              c.ts # 0 /\ (c.ts <= st.ts \/ c.ts <= thr)
    BY <1>1 DEF IInv, CredInv
  <2>3. Usable(p, key) <=> /\ st.ts # 0
                           /\ Distance(st.ts, config.ts) <= CredMaxDelta
                           /\ st.ts > thr
    BY DEF Usable, InUse, IsTimestampValid, Stored
  <2>4. thr = 0 \/ \E r \in seen[p].revs : <<r.type, r.id>> = key /\ r.threshold = thr
    BY <1>1 DEF IInv, ThresholdInv
  <2> HIDE DEF st, thr
  <2>5. Usable(p, key) => /\ st \in Received(p, key)
                          /\ \A c \in Received(p, key) : c.ts <= st.ts
    BY <2>1, <2>2, <2>3
  <2>6. ASSUME NEW c \in Received(p, key),
               \A d \in Received(p, key) : d.ts <= c.ts,
               ~Revoked(p, key, c.ts),
               Distance(c.ts, config.ts) <= CredMaxDelta
        PROVE  Usable(p, key) /\ st.ts = c.ts
    <3>1. c.ts > thr
      BY <2>1, <2>2, <2>4, <2>6 DEF Revoked
    <3> QED
      BY <2>1, <2>2, <2>3, <2>6, <3>1
  <2> QED
    BY <2>5, <2>6 DEF st
<1>2. IInv => NewestCredInUse
  BY <1>1 DEF NewestCredInUse, Received
<1> QED
  BY <1>2, InductiveInvariant, PTL

(* A private network admits a peer only with a certificate of membership   *)
(* it received, and, if nothing but certificates of membership has been    *)
(* revoked, only with the newest one and never with a revoked one.         *)
THEOREM AdmissionSafety == Spec => []AdmittedWithNewestCom
<1>1. ASSUME IInv, NEW p \in Peers, Allowed(p), ~config.public
      PROVE  /\ memberships[p].com \in seen[p].coms
             /\ (\A r \in seen[p].revs : r.type = "COM") =>
                  /\ \A c \in seen[p].coms : c.ts <= memberships[p].com.ts
                  /\ \A r \in seen[p].revs :
                        r.type = "COM" => memberships[p].com.ts > r.threshold
  <2>1. memberships[p] \in Membership /\ seen[p] \in Seen
    BY <1>1 DEF IInv, TypeOK
  <2>2. /\ memberships[p].com.ts \in Nat /\ memberships[p].comThreshold \in Nat
        /\ \A c \in seen[p].coms : c.ts \in Nat
        /\ \A r \in seen[p].revs : r.threshold \in Nat
    BY <2>1 DEF Membership, Seen, Com, Revocation
  <2>3. memberships[p].com.ts > memberships[p].comThreshold
    BY <1>1 DEF Allowed, IsAllowed
  <2> QED
    BY <1>1, <2>2, <2>3 DEF IInv, ComInv
<1>2. IInv => AdmittedWithNewestCom
  BY <1>1 DEF AdmittedWithNewestCom
<1> QED
  BY <1>2, InductiveInvariant, PTL

----------------------------------------------------------------------------
(* How credentials come: CredentialExchange, over the same operators.      *)
USE PartAssumption, LimitsAssumption

(* Until it has a configuration the sender is silent, so that every push   *)
(* is that of some version: nothing asks for credentials before a frame.   *)
Silent == senderConfig = 0 => net = {} /\ waiting = {}

ExchangeInv == ExchangeTypeOK /\ Silent

(* A packet changes the certificate only to its own, which is no older.    *)
LEMMA AddedFacts ==
    ASSUME member \in Membership, NEW packet \in Credentials
    PROVE  /\ Added(packet) \in Membership
           /\ Added(packet).comThreshold = member.comThreshold
           /\ \/ Added(packet).com = member.com
              \/ /\ Added(packet).com
                        = [ts |-> packet.version, identityMatches |-> TRUE]
                 /\ packet.version > member.comThreshold
                 /\ packet.version >= member.com.ts
<1> DEFINE com == [ts |-> packet.version, identityMatches |-> packet.version # 0]
           withCom == IF packet.part = 1 THEN AddCom(member, com, "OK") ELSE member
           cred == Issued(packet.version)
<1>1. packet.version \in Nat /\ packet.version # 0
  BY DEF Credentials, Versions
<1>2. com \in Com /\ com = [ts |-> packet.version, identityMatches |-> TRUE]
  BY <1>1 DEF Com
<1>3. cred \in Cred
  BY <1>1, BodiesAssumption DEF Issued, Cred
<1>4. AddComResult(member, com, "OK") = "NEW" =>
          com.ts > member.comThreshold /\ com.ts >= member.com.ts
  BY <1>1, <1>2 DEF AddComResult, Membership, Com
<1>5. /\ withCom \in Membership
      /\ withCom.comThreshold = member.comThreshold
      /\ \/ withCom.com = member.com
         \/ withCom.com = com /\ com.ts > member.comThreshold /\ com.ts >= member.com.ts
  BY <1>2, <1>4 DEF AddCom, Membership
<1>6. Added(packet) =
        [withCom EXCEPT !.creds = [k \in Key |->
            IF k \in InPart(packet)
            THEN AddCred(withCom, k, cred, "OK").creds[k]
            ELSE @[k]]]
  BY Zenon DEF Added, ComOf, ConfigOf
<1> HIDE DEF withCom, com, cred
<1>7. \A k \in Key :
        AddCred(withCom, k, cred, "OK").creds[k] \in Cred
  BY <1>3, <1>5 DEF AddCred, Membership
<1> DEFINE new == [k \in Key |->
            IF k \in InPart(packet)
            THEN AddCred(withCom, k, cred, "OK").creds[k]
            ELSE withCom.creds[k]]
<1>8. new \in [Key -> Cred]
  BY <1>5, <1>7 DEF Membership
<1>9. Added(packet) = [withCom EXCEPT !.creds = new]
  BY <1>6
<1> HIDE DEF new
<1> QED
  BY <1>2, <1>5, <1>8, <1>9 DEF Membership, com

(* What is done with a packet, on arrival and when it is tried again.      *)
LEMMA ProcessFacts ==
    ASSUME ExchangeTypeOK,
           NEW packet \in Credentials, NEW age \in Ages,
           NEW queue \in SUBSET [packet : Credentials, age : Ages],
           Process(packet, age, queue)
    PROVE  /\ member' = member \/ member' = Added(packet)
           /\ member' \in Membership
           /\ sinceGate' \in 0..RateLimit /\ asked' \in BOOLEAN /\ foreign' \in BOOLEAN
           /\ deferred' \subseteq [packet : Credentials, age : Ages]
<1>1. member \in Membership /\ Added(packet) \in Membership
  BY AddedFacts DEF ExchangeTypeOK
<1>2. sinceGate \in 0..RateLimit /\ 0 \in 0..RateLimit
  BY DEF ExchangeTypeOK
<1>3. asked' \in BOOLEAN /\ foreign' \in BOOLEAN
  BY Zenon DEF Process, RequestWhois, ExchangeTypeOK
<1> SUFFICES /\ member' = member \/ member' = Added(packet)
             /\ sinceGate' \in 0..RateLimit
             /\ deferred' \subseteq [packet : Credentials, age : Ages]
  BY <1>1, <1>3
<1>4. CASE ~GateOpen
  BY <1>2, <1>4 DEF Process
<1>5. CASE GateOpen /\ Unverifiable(packet)
  <2>1. [packet |-> packet, age |-> age] \in [packet : Credentials, age : Ages]
    OBVIOUS
  <2> QED
    BY <1>2, <1>5, <2>1 DEF Process
<1>6. CASE GateOpen /\ ~Unverifiable(packet)
  BY <1>2, <1>6 DEF Process
<1> QED
  BY <1>4, <1>5, <1>6

(* A push that is due is one of a version the sender has.                  *)
LEMMA PushFacts ==
    ASSUME ExchangeTypeOK,
           senderConfig # 0, NEW limit,
           NEW rest \in SUBSET (Credentials
                                    \union {Frame, NeedCredentials}),
           PushIfOlder(limit, rest)
    PROVE  /\ net' \subseteq Credentials
                                 \union {Frame, NeedCredentials}
           /\ sincePush' \in 0..ActivityTimeout + 1 /\ stale' \in BOOLEAN
<1>1. senderConfig \in Versions
  BY DEF ExchangeTypeOK, Versions
<1>2. Packets \subseteq Credentials
  BY <1>1 DEF Packets, Credentials
<1>3. 0 \in 0..ActivityTimeout + 1 /\ sincePush \in 0..ActivityTimeout + 1 /\ stale \in BOOLEAN
  BY DEF ExchangeTypeOK
<1> QED
  BY <1>2, <1>3 DEF PushIfOlder

LEMMA ExchangeStarts ==
    ExchangeInit => ExchangeInv
<1>1. NewMembership \in Membership
  BY BodiesAssumption DEF NewMembership, Membership, NoCom,
     Com, NoCred, Cred
<1>2. /\ 0 \in 0..MaxVersion /\ RateLimit \in 0..RateLimit
      /\ ActivityTimeout + 1 \in 0..ActivityTimeout + 1
  OBVIOUS
<1>3. ExchangeInit => ExchangeTypeOK
  BY <1>1, <1>2, Zenon DEF ExchangeInit, ExchangeTypeOK
<1> QED
  BY <1>3 DEF ExchangeInit, ExchangeInv, Silent

LEMMA ExchangeSteps ==
    ASSUME ExchangeInv, [ExchangeNext]_exchange
    PROVE  ExchangeInv'
<1> USE DEF ExchangeInv, Silent, sender, receiver
<1>1. ASSUME NEW version \in Versions, ConfigureSender(version)
      PROVE  ExchangeInv'
  BY <1>1 DEF ConfigureSender, ExchangeTypeOK, Versions
<1>2. ASSUME NEW version \in Versions, ConfigureReceiver(version)
      PROVE  ExchangeInv'
  BY <1>2 DEF ConfigureReceiver, ExchangeTypeOK, Versions
<1>3. CASE SendFrame
  <2>1. net \union {Frame} \in SUBSET (Credentials
             \union {Frame, NeedCredentials})
    BY DEF ExchangeTypeOK
  <2>2. senderConfig # 0 /\ PushIfOlder(ActivityTimeout, net \union {Frame})
    BY <1>3 DEF SendFrame
  <2>3. /\ net' \subseteq Credentials
                              \union {Frame, NeedCredentials}
        /\ sincePush' \in 0..ActivityTimeout + 1 /\ stale' \in BOOLEAN
    BY <2>1, <2>2, PushFacts
  <2> QED
    BY <1>3, <2>2, <2>3 DEF SendFrame, ExchangeTypeOK
<1>4. CASE ReceiveError
  <2>1. net \ {NeedCredentials} \in SUBSET (Credentials
             \union {Frame, NeedCredentials})
    BY DEF ExchangeTypeOK
  <2>2. /\ senderConfig # 0
        /\ PushIfOlder(RequestLimit, net \ {NeedCredentials})
    BY <1>4 DEF ReceiveError
  <2>3. /\ net' \subseteq Credentials
                              \union {Frame, NeedCredentials}
        /\ sincePush' \in 0..ActivityTimeout + 1 /\ stale' \in BOOLEAN
    BY <2>1, <2>2, PushFacts
  <2> QED
    BY <1>4, <2>2, <2>3 DEF ReceiveError, ExchangeTypeOK
<1>5. CASE ReceiveFrame
  <2>1. 0 \in Ages
    BY DEF Ages
  <2>2. /\ net' \subseteq Credentials
                              \union {Frame, NeedCredentials}
        /\ waiting' \subseteq Ages
    BY <1>5, <2>1 DEF ReceiveFrame, ExchangeTypeOK
  <2>3. /\ senderConfig # 0
        /\ UNCHANGED <<senderConfig, sincePush, stale, receiverConfig, member, sinceGate>>
        /\ UNCHANGED <<signerKnown, asked, deferred, foreign>>
    BY <1>5, Zenon DEF ReceiveFrame
  <2> QED
    BY <2>2, <2>3 DEF ExchangeTypeOK
<1>6. ASSUME NEW age \in Ages, RetryFrame(age) PROVE ExchangeInv'
  BY <1>6 DEF RetryFrame, ExchangeTypeOK
<1>7. ASSUME NEW packet \in Credentials, ReceiveCredentials(packet)
      PROVE  ExchangeInv'
  <2>1. 0 \in Ages
    BY DEF Ages
  <2>2. deferred \in SUBSET [packet : Credentials, age : Ages]
    BY DEF ExchangeTypeOK
  <2>3. Process(packet, 0, deferred)
    BY <1>7 DEF ReceiveCredentials
  <2>4. /\ member' \in Membership
        /\ sinceGate' \in 0..RateLimit /\ asked' \in BOOLEAN /\ foreign' \in BOOLEAN
        /\ deferred' \subseteq [packet : Credentials, age : Ages]
    BY <2>1, <2>2, <2>3, ProcessFacts
  <2> QED
    BY <1>7, <2>4 DEF ReceiveCredentials, ExchangeTypeOK
<1>8. ASSUME NEW entry \in deferred, RetryCredentials(entry) PROVE ExchangeInv'
  <2>1. entry.packet \in Credentials /\ entry.age \in Ages
    BY DEF ExchangeTypeOK
  <2>2. deferred \ {entry} \in SUBSET [packet : Credentials, age : Ages]
    BY DEF ExchangeTypeOK
  <2>3. Process(entry.packet, entry.age, deferred \ {entry})
    BY <1>8 DEF RetryCredentials
  <2>4. /\ member' \in Membership
        /\ sinceGate' \in 0..RateLimit /\ asked' \in BOOLEAN /\ foreign' \in BOOLEAN
        /\ deferred' \subseteq [packet : Credentials, age : Ages]
    BY <2>1, <2>2, <2>3, ProcessFacts
  <2> QED
    BY <1>8, <2>4 DEF RetryCredentials, ExchangeTypeOK
<1>9. CASE LearnController
  BY <1>9 DEF LearnController, ExchangeTypeOK
<1>10. CASE ReceiveOther
  BY <1>10 DEF ReceiveOther, ExchangeTypeOK
<1>11. ASSUME NEW packet \in net, Lose(packet) PROVE ExchangeInv'
  BY <1>11 DEF Lose, ExchangeTypeOK
<1>12. CASE Tick
  <2>1. ASSUME NEW most \in Nat, NEW age \in 0..most PROVE Older(age, most) \in 0..most
    BY DEF Older
  <2>2. \A age \in Ages : Older(age, ReceiveTimeout + 1) \in Ages
    BY <2>1 DEF Ages
  <2>3. deferred' \subseteq [packet : Credentials, age : Ages]
    <3>1. ASSUME NEW d \in deferred
          PROVE  [d EXCEPT !.age = Older(@, ReceiveTimeout + 1)]
                     \in [packet : Credentials, age : Ages]
      BY <2>2 DEF ExchangeTypeOK
    <3> QED
      BY <1>12, <3>1 DEF Tick
  <2>4. waiting' \subseteq Ages /\ (waiting = {} => waiting' = {})
    <3>1. waiting' = {Older(age, ReceiveTimeout + 1) : age \in waiting} /\ waiting \subseteq Ages
      BY <1>12 DEF Tick, ExchangeTypeOK
    <3> QED
      BY <2>2, <3>1
  <2>5. sincePush' \in 0..ActivityTimeout + 1 /\ sinceGate' \in 0..RateLimit
    <3>1. /\ sincePush' = Older(sincePush, ActivityTimeout + 1)
          /\ sinceGate' = Older(sinceGate, RateLimit)
      BY <1>12 DEF Tick
    <3>2. /\ ActivityTimeout + 1 \in Nat /\ RateLimit \in Nat
          /\ sincePush \in 0..ActivityTimeout + 1 /\ sinceGate \in 0..RateLimit
      BY DEF ExchangeTypeOK
    <3> QED
      BY <2>1, <3>1, <3>2
  <2> QED
    BY <1>12, <2>3, <2>4, <2>5 DEF Tick, ExchangeTypeOK
<1>13. CASE UNCHANGED exchange
  BY <1>13 DEF exchange, ExchangeTypeOK
<1> QED
  BY <1>1, <1>2, <1>3, <1>4, <1>5, <1>6, <1>7, <1>8, <1>9, <1>10, <1>11, <1>12, <1>13
     DEF ExchangeNext

(* Every state of the exchange is well typed: what is pushed is always of  *)
(* a version the sender had, also when it is pushed on request             *)
(* (pushCredentials, peerRequestedCredentials).                            *)
THEOREM ExchangeTypeCorrect == ExchangeSpec => []ExchangeTypeOK
<1>1. ExchangeInv => ExchangeTypeOK
  BY DEF ExchangeInv
<1> QED
  BY <1>1, ExchangeStarts, ExchangeSteps, PTL DEF ExchangeSpec

----------------------------------------------------------------------------
(* Only a credentials packet changes the membership.                       *)
LEMMA OnlyCredentials ==
    ASSUME ExchangeTypeOK, [ExchangeNext]_exchange
    PROVE  \/ member' = member
           \/ \E packet \in Credentials : member' = Added(packet)
<1> USE DEF sender, receiver
<1>1. ASSUME NEW packet \in Credentials, ReceiveCredentials(packet)
      PROVE  member' = member \/ member' = Added(packet)
  BY <1>1, Zenon DEF ReceiveCredentials, Process
<1>2. ASSUME NEW entry \in deferred, RetryCredentials(entry)
      PROVE  member' = member \/ \E packet \in Credentials :
                                     member' = Added(packet)
  <2>1. entry.packet \in Credentials
    BY DEF ExchangeTypeOK
  <2>2. member' = member \/ member' = Added(entry.packet)
    BY <1>2, Zenon DEF RetryCredentials, Process
  <2> QED
    BY <2>1, <2>2
<1>3. \/ \E packet \in Credentials : ReceiveCredentials(packet)
      \/ \E entry \in deferred : RetryCredentials(entry)
      \/ member' = member
  BY DEF ExchangeNext, exchange, ConfigureSender, ConfigureReceiver,
     SendFrame, ReceiveError, ReceiveFrame, RetryFrame,
     LearnController, ReceiveOther, Lose, Tick
<1> QED
  BY <1>1, <1>2, <1>3

(* A certificate that takes the place of one that agreed agrees as well:   *)
(* it is no older, and no newer than this node's own, so it is closer.     *)
LEMMA CloserAgrees ==
    ASSUME NEW a \in Nat, NEW b \in Nat, NEW own \in Nat, a <= b, b <= own,
           Distance(own, a) <= ComMaxDelta
    PROVE  Distance(own, b) <= ComMaxDelta
BY DeltasAssumption DEF Distance

(* No credential that arrives late or is tried again shuts out a member    *)
(* that is let in; only a new configuration does, that of the receiver or  *)
(* that the certificate comes from (addCredential, gate).                  *)
THEOREM ExchangeStaysAdmitted == ExchangeSpec => StaysAdmitted
<1>1. ASSUME ExchangeTypeOK, [ExchangeNext]_exchange,
             LetIn, receiverConfig' = receiverConfig,
             ~(member'.com.ts > receiverConfig)
      PROVE  LetIn'
  <2>1. CASE member' = member
    BY <1>1, <2>1 DEF LetIn
  <2>2. ASSUME NEW packet \in Credentials, member' = Added(packet)
        PROVE  LetIn'
    <3> DEFINE own == [ts |-> receiverConfig, identityMatches |-> receiverConfig # 0]
    <3>1. ConfigOf(receiverConfig) = [ts |-> receiverConfig, public |-> FALSE, com |-> own]
      BY DEF ConfigOf
    <3>2. /\ receiverConfig \in Nat /\ packet.version \in Nat /\ packet.version # 0
          /\ member.com.ts \in Nat /\ member \in Membership
      BY <1>1 DEF ExchangeTypeOK, Membership, Com, Credentials,
         Versions
    <3>3. /\ receiverConfig # 0 /\ member.com.ts > member.comThreshold
          /\ member.com.ts # 0 /\ member.com.identityMatches
          /\ Distance(receiverConfig, member.com.ts) <= ComMaxDelta
      BY <1>1, <3>1 DEF LetIn, IsAllowed, AgreesWith
    <3>4. member'.comThreshold = member.comThreshold
      BY <2>2, <3>2, AddedFacts
    <3>5. CASE member'.com = member.com
      BY <1>1, <3>3, <3>4, <3>5, <3>1
         DEF LetIn, IsAllowed, AgreesWith, ConfigOf
    <3>6. CASE /\ member'.com = [ts |-> packet.version, identityMatches |-> TRUE]
               /\ packet.version > member.comThreshold
               /\ packet.version >= member.com.ts
      <4>1. packet.version <= receiverConfig
        BY <1>1, <3>2, <3>6
      <4>2. Distance(receiverConfig, packet.version) <= ComMaxDelta
        BY <3>2, <3>3, <3>6, <4>1, CloserAgrees
      <4> QED
        BY <1>1, <3>1, <3>2, <3>3, <3>4, <3>6, <4>2
           DEF LetIn, IsAllowed, AgreesWith, ConfigOf
    <3> QED
      BY <2>2, <3>2, <3>5, <3>6, AddedFacts
  <2> QED
    BY <1>1, <2>1, <2>2, OnlyCredentials
<1>2. ExchangeTypeOK /\ [ExchangeNext]_exchange =>
        [LetIn /\ ~LetIn' =>
            receiverConfig' # receiverConfig \/ member'.com.ts > receiverConfig]_exchange
  BY <1>1
<1> QED
  BY <1>2, ExchangeTypeCorrect, PTL DEF ExchangeSpec, StaysAdmitted

----------------------------------------------------------------------------
(* Nothing is newer than what the sender has, wherever it is: on its way,  *)
(* put off, or kept by the receiver.                                       *)
NothingNewer ==
    /\ \A packet \in net \intersect Credentials : packet.version <= senderConfig
    /\ \A entry \in deferred : entry.packet.version <= senderConfig
    /\ member.com.ts <= senderConfig
    /\ \A k \in Key : member.creds[k].ts <= senderConfig

(* What is kept is not replaced by what is older.                          *)
LEMMA AddedIsNoOlder ==
    ASSUME member \in Membership, NEW packet \in Credentials
    PROVE  /\ Added(packet).com.ts >= member.com.ts
           /\ Added(packet).com.ts \in {member.com.ts, packet.version}
           /\ \A k \in Key :
                /\ Added(packet).creds[k].ts >= member.creds[k].ts
                /\ Added(packet).creds[k].ts \in {member.creds[k].ts, packet.version}
<1> DEFINE com == [ts |-> packet.version, identityMatches |-> packet.version # 0]
           withCom == IF packet.part = 1 THEN AddCom(member, com, "OK") ELSE member
           cred == Issued(packet.version)
<1>1. packet.version \in Nat /\ member.com.ts \in Nat /\ cred.ts = packet.version
  BY DEF Credentials, Versions, Membership, Com, Issued
<1>2. withCom.creds = member.creds /\ withCom \in Membership
  <2>1. com \in Com
    BY <1>1 DEF Com
  <2> HIDE DEF com
  <2> QED
    BY <2>1 DEF AddCom, Membership
<1>3. Added(packet) =
        [withCom EXCEPT !.creds = [k \in Key |->
            IF k \in InPart(packet)
            THEN AddCred(withCom, k, cred, "OK").creds[k]
            ELSE @[k]]]
  BY Zenon DEF Added, ComOf, ConfigOf
<1> HIDE DEF withCom, com, cred
<1>4. ASSUME NEW k \in Key
      PROVE  /\ AddCred(withCom, k, cred, "OK").creds[k].ts >= member.creds[k].ts
             /\ AddCred(withCom, k, cred, "OK").creds[k].ts
                    \in {member.creds[k].ts, packet.version}
  <2>1. member.creds[k].ts \in Nat /\ withCom.creds \in [Key -> Cred]
    BY <1>2 DEF Membership, Cred
  <2>2. AddCredResult(withCom, k, cred, "OK") = "NEW" => ~(member.creds[k].ts > packet.version)
    BY <1>1, <1>2 DEF AddCredResult
  <2>3. \/ AddCred(withCom, k, cred, "OK") = withCom
        \/ /\ AddCredResult(withCom, k, cred, "OK") = "NEW"
           /\ AddCred(withCom, k, cred, "OK") = [withCom EXCEPT !.creds[k] = cred]
    BY DEF AddCred
  <2>4. [withCom EXCEPT !.creds[k] = cred].creds[k] = cred
    BY <1>2, <2>1 DEF Membership
  <2>5. CASE AddCred(withCom, k, cred, "OK") = withCom
    <3>1. AddCred(withCom, k, cred, "OK").creds[k].ts = member.creds[k].ts
      BY <1>2, <2>5
    <3> QED
      BY <2>1, <3>1
  <2>6. CASE AddCredResult(withCom, k, cred, "OK") = "NEW"
             /\ AddCred(withCom, k, cred, "OK") = [withCom EXCEPT !.creds[k] = cred]
    <3>1. AddCred(withCom, k, cred, "OK").creds[k].ts = packet.version
      BY <1>1, <2>4, <2>6
    <3>2. packet.version >= member.creds[k].ts
      BY <1>1, <2>1, <2>2, <2>6
    <3> QED
      BY <3>1, <3>2
  <2> QED
    BY <2>3, <2>5, <2>6
<1>5. \A k \in Key :
        /\ Added(packet).creds[k].ts >= member.creds[k].ts
        /\ Added(packet).creds[k].ts \in {member.creds[k].ts, packet.version}
  <2>1. \A k \in Key : member.creds[k].ts \in Nat
    BY DEF Membership, Cred
  <2>2. \A k \in Key : Added(packet).creds[k] =
            IF k \in InPart(packet) THEN AddCred(withCom, k, cred, "OK").creds[k]
            ELSE member.creds[k]
    BY <1>2, <1>3 DEF Membership
  <2> QED
    BY <1>4, <2>1, <2>2
<1>6. /\ Added(packet).com.ts >= member.com.ts
      /\ Added(packet).com.ts \in {member.com.ts, packet.version}
  <2>1. CASE Added(packet).com = member.com
    BY <1>1, <2>1
  <2>2. CASE /\ Added(packet).com = [ts |-> packet.version, identityMatches |-> TRUE]
             /\ packet.version >= member.com.ts
    BY <1>1, <2>2
  <2>3. packet \in Credentials /\ member \in Membership
    OBVIOUS
  <2> QED
    BY <2>1, <2>2, <2>3, AddedFacts
<1> QED
  BY <1>5, <1>6

(* A packet that is processed is on its way or was put off.                *)
LEMMA KeptStaysNew ==
    ASSUME ExchangeInv, NothingNewer, [ExchangeNext]_exchange
    PROVE  /\ senderConfig' >= senderConfig
           /\ member'.com.ts >= member.com.ts /\ member'.com.ts <= senderConfig'
           /\ \A k \in Key : /\ member'.creds[k].ts >= member.creds[k].ts
                             /\ member'.creds[k].ts <= senderConfig'
<1> USE DEF ExchangeInv, sender, receiver
<1>1. senderConfig \in Nat /\ member \in Membership
  BY DEF ExchangeTypeOK
<1>2. member.com.ts \in Nat /\ \A k \in Key : member.creds[k].ts \in Nat
  BY <1>1 DEF Membership, Com, Cred
<1>3. senderConfig' \in Nat /\ senderConfig' >= senderConfig
  <2>1. ASSUME NEW version \in Versions, ConfigureSender(version)
        PROVE  senderConfig' \in Nat /\ senderConfig' >= senderConfig
    BY <1>1, <2>1 DEF ConfigureSender, Versions
  <2>2. \/ \E version \in Versions : ConfigureSender(version)
        \/ senderConfig' = senderConfig
    BY DEF ExchangeNext, exchange, ConfigureReceiver,
       SendFrame, ReceiveError, ReceiveFrame, RetryFrame, ReceiveCredentials, RetryCredentials,
       LearnController, ReceiveOther, Lose, Tick
  <2> QED
    BY <1>1, <2>1, <2>2
<1>4. \/ member' = member
      \/ \E packet \in Credentials :
            packet.version <= senderConfig /\ member' = Added(packet)
  <2>1. ASSUME NEW packet \in Credentials, ReceiveCredentials(packet)
        PROVE  packet.version <= senderConfig /\ member' \in {member, Added(packet)}
    <3>1. packet.version <= senderConfig
      BY <2>1 DEF ReceiveCredentials, NothingNewer
    <3>2. member' = member \/ member' = Added(packet)
      BY <2>1, Zenon DEF ReceiveCredentials, Process
    <3> QED
      BY <3>1, <3>2
  <2>2. ASSUME NEW entry \in deferred, RetryCredentials(entry)
        PROVE  /\ entry.packet \in Credentials /\ entry.packet.version <= senderConfig
               /\ member' \in {member, Added(entry.packet)}
    <3>1. entry.packet \in Credentials /\ entry.packet.version <= senderConfig
      BY <2>2 DEF ExchangeTypeOK, NothingNewer
    <3>2. member' = member \/ member' = Added(entry.packet)
      BY <2>2, Zenon DEF RetryCredentials, Process
    <3> QED
      BY <3>1, <3>2
  <2>3. \/ \E packet \in Credentials : ReceiveCredentials(packet)
        \/ \E entry \in deferred : RetryCredentials(entry)
        \/ member' = member
    BY DEF ExchangeNext, exchange, ConfigureSender, ConfigureReceiver,
       SendFrame, ReceiveError, ReceiveFrame, RetryFrame,
       LearnController, ReceiveOther, Lose, Tick
  <2> QED
    BY <2>1, <2>2, <2>3
<1>5. CASE member' = member
  BY <1>1, <1>2, <1>3, <1>5 DEF NothingNewer
<1>6. ASSUME NEW packet \in Credentials, packet.version <= senderConfig, member' = Added(packet)
      PROVE  /\ member'.com.ts >= member.com.ts /\ member'.com.ts <= senderConfig'
             /\ \A k \in Key : /\ member'.creds[k].ts >= member.creds[k].ts
                               /\ member'.creds[k].ts <= senderConfig'
  <2>1. packet.version \in Nat
    BY DEF Credentials, Versions
  <2> QED
    BY <1>1, <1>2, <1>3, <1>6, <2>1, AddedIsNoOlder DEF NothingNewer
<1> QED
  BY <1>3, <1>4, <1>5, <1>6

LEMMA NothingNewerStep ==
    ASSUME ExchangeInv, NothingNewer, [ExchangeNext]_exchange
    PROVE  NothingNewer'
<1> USE DEF ExchangeInv, sender, receiver
<1>1. senderConfig \in Nat /\ senderConfig' \in Nat /\ senderConfig' >= senderConfig
  BY KeptStaysNew, ExchangeSteps DEF ExchangeTypeOK
<1>2. \A packet \in Credentials : packet.version \in Nat
  BY DEF Credentials, Versions
<1>3. \A packet \in net' \intersect Credentials :
            packet \in net \/ packet.version = senderConfig
  <2>1. ASSUME NEW limit, NEW rest, rest \intersect Credentials \subseteq net,
               PushIfOlder(limit, rest)
        PROVE  \A packet \in net' \intersect Credentials :
                    packet \in net \/ packet.version = senderConfig
    BY <2>1 DEF PushIfOlder, Packets
  <2>2. Frame \notin Credentials /\ NeedCredentials \notin Credentials
    BY DEF Frame, NeedCredentials, Credentials
  <2>3. CASE SendFrame
    BY <2>1, <2>2, <2>3 DEF SendFrame
  <2>4. CASE ReceiveError
    BY <2>1, <2>4 DEF ReceiveError
  <2>5. CASE ~SendFrame /\ ~ReceiveError
    <3>1. net' \subseteq net \union {NeedCredentials}
      BY <2>5 DEF ExchangeNext, exchange, ConfigureSender, ConfigureReceiver,
         ReceiveFrame, RetryFrame, ReceiveCredentials, RetryCredentials,
         LearnController, ReceiveOther, Lose, Tick
    <3> QED
      BY <2>2, <3>1
  <2> QED
    BY <2>3, <2>4, <2>5
<1>4. \A entry \in deferred' :
        \/ \E packet \in net \intersect Credentials : entry.packet = packet
        \/ \E old \in deferred : entry.packet = old.packet
  <2>1. ASSUME NEW packet \in Credentials, ReceiveCredentials(packet)
        PROVE  packet \in net
               /\ \A entry \in deferred' : entry.packet = packet \/ entry \in deferred
    BY <2>1 DEF ReceiveCredentials, Process
  <2>2. ASSUME NEW old \in deferred, RetryCredentials(old)
        PROVE  \A entry \in deferred' : entry.packet = old.packet \/ entry \in deferred
    BY <2>2 DEF RetryCredentials, Process
  <2>3. ASSUME Tick PROVE \A entry \in deferred' : \E old \in deferred : entry.packet = old.packet
    <3>1. \A old \in deferred :
            [old EXCEPT !.age = Older(@, ReceiveTimeout + 1)].packet = old.packet
      BY DEF ExchangeTypeOK
    <3> QED
      BY <2>3, <3>1 DEF Tick
  <2>4. \/ \E packet \in Credentials : ReceiveCredentials(packet)
        \/ \E entry \in deferred : RetryCredentials(entry)
        \/ Tick
        \/ deferred' = deferred
    BY DEF ExchangeNext, exchange, ConfigureSender, ConfigureReceiver,
       SendFrame, ReceiveError, ReceiveFrame, RetryFrame,
       LearnController, ReceiveOther, Lose
  <2> QED
    BY <2>1, <2>2, <2>3, <2>4
<1>5. /\ \A packet \in net' \intersect Credentials : packet.version <= senderConfig
      /\ \A entry \in deferred' : entry.packet.version <= senderConfig
  BY <1>1, <1>3, <1>4 DEF NothingNewer
<1>6. \A entry \in deferred' : entry.packet \in Credentials
  BY ExchangeSteps DEF ExchangeTypeOK
<1>7. /\ \A packet \in net' \intersect Credentials : packet.version <= senderConfig'
      /\ \A entry \in deferred' : entry.packet.version <= senderConfig'
  BY <1>1, <1>2, <1>5, <1>6
<1> QED
  BY <1>7, KeptStaysNew DEF NothingNewer

(* Nothing but the sender's present credentials, and what it had before,   *)
(* is ever under way or kept (pushCredentials, addCredential).             *)
THEOREM ExchangeNothingNewer == ExchangeSpec => []NothingNewer
<1>1. ExchangeInit => NothingNewer
  BY DEF ExchangeInit, NothingNewer, NewMembership, NoCom, NoCred
<1> QED
  BY <1>1, ExchangeStarts, ExchangeSteps, NothingNewerStep, PTL DEF ExchangeSpec

(* Once the receiver has the sender's present credentials it keeps them    *)
(* until the sender gets others: nothing late, deferred or tried again     *)
(* takes the place of one of them (addCredential, _addCredImpl).  This is  *)
(* what CredentialsArrive needs beyond fairness.                           *)
StaysCurrent ==
    [][Holds(senderConfig) /\ senderConfig' = senderConfig => Holds(senderConfig)']_exchange

THEOREM ExchangeStaysCurrent == ExchangeSpec => StaysCurrent
<1>1. ASSUME ExchangeInv, NothingNewer, [ExchangeNext]_exchange,
             Holds(senderConfig), senderConfig' = senderConfig
      PROVE  Holds(senderConfig)'
  <2>1. member' \in Membership /\ senderConfig \in Nat
    BY <1>1, ExchangeSteps DEF ExchangeInv, ExchangeTypeOK
  <2>2. member'.com.ts \in Nat /\ \A k \in Key : member'.creds[k].ts \in Nat
    BY <2>1 DEF Membership, Com, Cred
  <2> QED
    BY <1>1, <2>1, <2>2, KeptStaysNew DEF Holds
<1>2. ExchangeInv /\ NothingNewer /\ [ExchangeNext]_exchange =>
        [Holds(senderConfig) /\ senderConfig' = senderConfig => Holds(senderConfig)']_exchange
  BY <1>1
<1> QED
  BY <1>2, ExchangeStarts, ExchangeSteps, ExchangeNothingNewer, PTL DEF ExchangeSpec, StaysCurrent

----------------------------------------------------------------------------
(* A sender whose configuration changed is due to push until it pushes.    *)
StaysDue == [][stale /\ ~stale' => Packets' \subseteq net' /\ sincePush' = 0]_exchange

(* A change is noticed as one only when some time passed since the last    *)
(* push; so no later change in the same instant can hide it.               *)
StaleInv == stale => sincePush > 0

LEMMA StaleStep ==
    ASSUME ExchangeTypeOK, StaleInv, [ExchangeNext]_exchange
    PROVE  /\ StaleInv'
           /\ stale /\ ~stale' => Packets' \subseteq net' /\ sincePush' = 0
<1> USE DEF sender, receiver
<1>1. sincePush \in 0..ActivityTimeout + 1 /\ ActivityTimeout \in Nat
  BY DEF ExchangeTypeOK
<1>2. ASSUME UNCHANGED <<sincePush, stale>>
      PROVE  StaleInv' /\ (stale => stale')
  BY <1>2 DEF StaleInv
<1>3. ASSUME NEW version \in Versions, ConfigureSender(version)
      PROVE  StaleInv' /\ (stale => stale')
  <2>1. sincePush' = sincePush /\ stale' = (sincePush > 0)
    BY <1>3 DEF ConfigureSender
  <2> QED
    BY <2>1, Zenon DEF StaleInv
<1>4. ASSUME NEW limit, NEW rest, PushIfOlder(limit, rest), senderConfig' = senderConfig
      PROVE  /\ StaleInv'
             /\ stale /\ ~stale' => Packets' \subseteq net' /\ sincePush' = 0
  <2>1. CASE stale \/ sincePush > limit
    <3>1. net' = rest \union Packets /\ sincePush' = 0 /\ stale' = FALSE
      BY <1>4, <2>1, Zenon DEF PushIfOlder
    <3>2. Packets' = Packets
      BY <1>4 DEF Packets
    <3> QED
      BY <3>1, <3>2 DEF StaleInv
  <2>2. CASE ~(stale \/ sincePush > limit)
    BY <1>2, <1>4, <2>2, Zenon DEF PushIfOlder
  <2> QED
    BY <2>1, <2>2
<1>5. CASE SendFrame
  BY <1>4, <1>5 DEF SendFrame
<1>6. CASE ReceiveError
  BY <1>4, <1>6 DEF ReceiveError
<1>7. CASE Tick
  <2>1. stale' = stale /\ sincePush' = Older(sincePush, ActivityTimeout + 1)
    BY <1>7 DEF Tick
  <2>2. sincePush > 0 => sincePush' > 0
    BY <1>1, <2>1 DEF Older
  <2> QED
    BY <2>1, <2>2, Zenon DEF StaleInv
<1>8. \/ UNCHANGED <<sincePush, stale>>
      \/ \E version \in Versions : ConfigureSender(version)
      \/ SendFrame \/ ReceiveError \/ Tick
  BY DEF ExchangeNext, exchange, ConfigureReceiver, ReceiveFrame, RetryFrame,
     ReceiveCredentials, RetryCredentials, LearnController, ReceiveOther, Lose
<1> QED
  BY <1>2, <1>3, <1>5, <1>6, <1>7, <1>8

(* Whatever the sender does with a change it noticed, the credentials of   *)
(* the configuration it has then go out before it counts as not due        *)
(* (pushCredentialsIfNeeded, Network::_lastConfigUpdate).                  *)
THEOREM ExchangeStaysDue == ExchangeSpec => StaysDue
<1>1. ExchangeInit => StaleInv
  BY Zenon DEF ExchangeInit, StaleInv
<1>2. ExchangeTypeOK /\ StaleInv /\ [ExchangeNext]_exchange => StaleInv'
  BY StaleStep
<1>3. ExchangeTypeOK /\ StaleInv /\ [ExchangeNext]_exchange =>
        [stale /\ ~stale' => Packets' \subseteq net' /\ sincePush' = 0]_exchange
  BY StaleStep
<1> QED
  BY <1>1, <1>2, <1>3, ExchangeTypeCorrect, PTL DEF ExchangeSpec, StaysDue
=============================================================================
