----------------------------- MODULE Membership -----------------------------
(***************************************************************************)
(* The memberships a node keeps for one network it has joined              *)
(* (src/generator/node/Network.{hpp,cpp}, the functions that create,       *)
(* feed, consult and clean Network::_memberships), over MembershipOps.     *)
(*                                                                         *)
(* Every action is one critical section of Network::_lock.  Credentials    *)
(* arrive in any order, repeatedly or not at all; the own configuration    *)
(* changes at any time; the topology learns and forgets peers and the      *)
(* controller's identity at any time.                                      *)
(***************************************************************************)
EXTENDS MembershipOps

CONSTANTS
    Peers,          \* addresses of other members
    Timestamps,     \* timestamps the controller issues
    Configs         \* configurations this node can hold

ASSUME TimestampsAssumption == Timestamps \subseteq Nat \ {0}
ASSUME ConfigsAssumption == Configs \subseteq Config

VARIABLES
    config,             \* Network::_config
    memberships,        \* values of Network::_memberships
    tracked,            \* keys of Network::_memberships
    controllerKnown,    \* Topology::getIdentity(controller) succeeds
    knownPeers,         \* Topology::getPeerNoCache(a) succeeds
    seen                \* history: what verified, since the entry exists

vars == <<config, memberships, tracked, controllerKnown, knownPeers, seen>>
topology == <<controllerKnown, knownPeers>>

SeenCred == [key : Key, cred : Cred]
Seen == [coms : SUBSET Com, creds : SUBSET SeenCred, revs : SUBSET Revocation]
NothingSeen == [coms |-> {}, creds |-> {}, revs |-> {}]

TypeOK ==
    /\ config \in Config
    /\ memberships \in [Peers -> Membership]
    /\ tracked \subseteq Peers
    /\ controllerKnown \in BOOLEAN
    /\ knownPeers \subseteq Peers
    /\ seen \in [Peers -> Seen]

Init ==
    /\ config \in Configs
    /\ memberships = [p \in Peers |-> NewMembership]
    /\ tracked = {}
    /\ controllerKnown = FALSE
    /\ knownPeers = {}
    /\ seen = [p \in Peers |-> NothingSeen]

----------------------------------------------------------------------------
(* Network::addCredential(com): the membership is created on demand, even  *)
(* when the credential is then rejected.                                   *)
ReceiveCom(p, com, signature) ==
    LET verdict == Verdict(signature, controllerKnown)
    IN  /\ tracked' = tracked \union {p}
        /\ memberships' = [memberships EXCEPT ![p] = AddCom(@, com, verdict)]
        /\ seen' = [seen EXCEPT ![p].coms =
                        IF verdict = "OK" THEN @ \union {com} ELSE @]
        /\ UNCHANGED <<config, topology>>

(* Network::addCredential(cap), (tag) and (coo).                           *)
ReceiveCred(p, key, cred, signature) ==
    LET verdict == Verdict(signature, controllerKnown)
    IN  /\ tracked' = tracked \union {p}
        /\ memberships' = [memberships EXCEPT ![p] = AddCred(@, key, cred, verdict)]
        /\ seen' = [seen EXCEPT ![p].creds =
                        IF verdict = "OK" THEN @ \union {[key |-> key, cred |-> cred]}
                        ELSE @]
        /\ UNCHANGED <<config, topology>>

(* Network::addCredential(sentFrom, rev); forwarding it to other members   *)
(* changes nothing here and is left out.                                   *)
ReceiveRevocation(p, rev, signature) ==
    LET verdict == Verdict(signature, controllerKnown)
    IN  /\ tracked' = tracked \union {p}
        /\ memberships' = [memberships EXCEPT ![p] = AddRevocation(@, rev, verdict)]
        /\ seen' = [seen EXCEPT ![p].revs =
                        IF verdict = "OK" /\ rev.type # "OTHER"
                        THEN @ \union {rev} ELSE @]
        /\ UNCHANGED <<config, topology>>

(* Network::gate of a public network and Network::peerRequestedCredentials *)
(* and pushCredentialsIfNeeded of any network: the entry appears.          *)
CreateMembership(p) ==
    /\ tracked' = tracked \union {p}
    /\ UNCHANGED <<config, memberships, topology, seen>>

(* Network::clean: entries of peers the topology has forgotten go away     *)
(* with their revocations, the others lose what is not valid any more.     *)
Clean ==
    /\ tracked' = tracked \intersect knownPeers
    /\ memberships' = [p \in Peers |->
            IF p \in tracked' THEN CleanCreds(memberships[p], config)
            ELSE NewMembership]
    /\ seen' = [p \in Peers |->
            IF p \in tracked'
            THEN [seen[p] EXCEPT !.creds =
                    {s \in @ : memberships'[p].creds[s.key] = memberships[p].creds[s.key]}]
            ELSE NothingSeen]
    /\ UNCHANGED <<config, topology>>

(* Network::setConfiguration, for any configuration: nothing orders them.  *)
SetConfig ==
    /\ config' \in Configs
    /\ UNCHANGED <<memberships, tracked, topology, seen>>

LearnOrForgetController ==
    /\ controllerKnown' = ~controllerKnown
    /\ UNCHANGED <<config, memberships, tracked, knownPeers, seen>>

LearnOrForgetPeer(p) ==
    /\ knownPeers' = IF p \in knownPeers THEN knownPeers \ {p}
                     ELSE knownPeers \union {p}
    /\ UNCHANGED <<config, memberships, tracked, controllerKnown, seen>>

Next ==
    \/ \E p \in Peers, signature \in Signatures :
        \/ \E com \in [ts : Timestamps, identityMatches : BOOLEAN] :
                ReceiveCom(p, com, signature)
        \/ \E key \in Key, cred \in [ts : Timestamps, body : Bodies] :
                ReceiveCred(p, key, cred, signature)
        \/ \E rev \in [type : CredTypes \union {"COM", "OTHER"}, id : CredIds,
                       threshold : Timestamps] :
                ReceiveRevocation(p, rev, signature)
    \/ \E p \in Peers : CreateMembership(p) \/ LearnOrForgetPeer(p)
    \/ Clean
    \/ SetConfig
    \/ LearnOrForgetController

Spec == Init /\ [][Next]_vars

----------------------------------------------------------------------------
Allowed(p) == IsAllowed(memberships[p], config)
Usable(p, key) == InUse(memberships[p], config, key)
Stored(p, key) == memberships[p].creds[key]
Revoked(p, key, ts) ==
    \E r \in seen[p].revs : <<r.type, r.id>> = key /\ ts <= r.threshold

(* No tag, capability or certificate of ownership that a verified          *)
(* revocation covers is visible to the rule engine, in whatever order the  *)
(* credential and its revocation arrived (_addCredImpl,                    *)
(* _isCredentialTimestampValid, addCredential(rev)).                       *)
RevokedCredUnusable ==
    \A p \in Peers, key \in Key :
        Usable(p, key) => ~Revoked(p, key, Stored(p, key).ts)

(* The table is a function of what was received, not of the order: if the  *)
(* newest credential that verified is inside the time window and not       *)
(* revoked it is the one in use, and nothing older ever is.                *)
NewestCredInUse ==
    \A p \in Peers, key \in Key :
        LET received == {s.cred : s \in {s \in seen[p].creds : s.key = key}}
        IN  /\ Usable(p, key) =>
                 /\ Stored(p, key) \in received
                 /\ \A c \in received : c.ts <= Stored(p, key).ts
            /\ \A c \in received :
                 ( /\ \A d \in received : d.ts <= c.ts
                   /\ ~Revoked(p, key, c.ts)
                   /\ Distance(c.ts, config.ts) <= CredMaxDelta )
                 => Usable(p, key) /\ Stored(p, key).ts = c.ts

(* On a private network a peer is admitted only with the newest            *)
(* certificate of membership that verified and is newer than every         *)
(* revocation of it, as long as no other credential of the peer was        *)
(* revoked (Network::gate, addCredential(com), addCredential(rev)).        *)
AdmittedWithNewestCom ==
    \A p \in Peers :
        Allowed(p) /\ ~config.public =>
            /\ memberships[p].com \in seen[p].coms
            /\ (\A r \in seen[p].revs : r.type = "COM") =>
                 /\ \A c \in seen[p].coms : c.ts <= memberships[p].com.ts
                 /\ \A r \in seen[p].revs :
                        r.type = "COM" => memberships[p].com.ts > r.threshold

----------------------------------------------------------------------------
(* What the documentation promises and the code does not do.               *)

(* Membership.hpp calls _comRevocationThreshold the revocation threshold   *)
(* for the COM, Revocation.hpp says a revocation covers the credential     *)
(* type it names: a certificate of membership that was revoked admits      *)
(* nobody to a private network.                                            *)
RevokedComRefused ==
    \A p \in Peers :
        Allowed(p) /\ ~config.public =>
            \A r \in seen[p].revs :
                r.type = "COM" => memberships[p].com.ts > r.threshold
=============================================================================
