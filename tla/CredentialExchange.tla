------------------------- MODULE CredentialExchange -------------------------
(***************************************************************************)
(* How the credentials of one member of a network get to another one:      *)
(* the sender's side of src/generator/node/Network.hpp and Membership.cpp, *)
(* the receiver's side of IncomingPacket.cpp and Peer.hpp.                 *)
(*                                                                         *)
(* A sender of frames pushes its credentials when they changed, when the   *)
(* last push is long ago, and when the receiver asks for them because it   *)
(* refused a frame.  The receiver takes at most one credentials packet of  *)
(* a peer per interval, whatever networks they are for, and puts a packet  *)
(* off while it does not know the controller that signed it.  Packets are  *)
(* lost and overtake each other.  Version v of a configuration carries     *)
(* credentials issued at v; the receiver keeps them as in MembershipOps.   *)
(* Some names differ from those of Membership only so that proofs can      *)
(* speak of both modules.                                                  *)
(***************************************************************************)
EXTENDS MembershipOps

CONSTANTS
    MaxVersion,     \* bound of the model: configurations
    Part,           \* which packet of a push a credential fits in; a COM is in the first
    RateLimit,      \* ZT_PEER_CREDENTIALS_RATE_LIMIT
    RequestLimit,   \* ZT_PEER_CREDENTIALS_REQUEST_RATE_LIMIT
    ActivityTimeout,\* ZT_PEER_ACTIVITY_TIMEOUT
    ReceiveTimeout  \* ZT_RECEIVE_QUEUE_TIMEOUT

ASSUME PartAssumption == Part \in [Key -> Nat \ {0}]
ASSUME LimitsAssumption ==
    /\ {MaxVersion, RateLimit, RequestLimit, ReceiveTimeout} \subseteq Nat
    /\ ActivityTimeout \in Nat /\ ActivityTimeout >= RequestLimit

Versions == 1..MaxVersion
Parts == {1} \union {Part[k] : k \in Key}

VARIABLES
    senderConfig,   \* version of the sender's Network::_config, 0 if none
    receiverConfig, \* version of the receiver's
    sincePush,      \* age of Membership::_lastPushedCredentials
    stale,          \* _lastPushedCredentials < Network::_lastConfigUpdate
    net,            \* packets on their way
    member,         \* the receiver's Membership of the sender
    sinceGate,      \* age of Peer::_lastCredentialsReceived
    signerKnown,    \* the receiver knows the identity of the controller
    asked,          \* the receiver has asked for it
    deferred,       \* credentials packets in the receive queue
    waiting,        \* ages of the frames in the receive queue
    foreign         \* history: a packet for another network shut the gate last

sender == <<senderConfig, sincePush, stale>>
receiver == <<receiverConfig, member, sinceGate, signerKnown, asked, deferred, waiting>>
exchange == <<sender, receiver, net, foreign>>

Frame == [type |-> "FRAME"]
NeedCredentials == [type |-> "ERROR_NEED_MEMBERSHIP_CERTIFICATE"]
Credentials == [type : {"NETWORK_CREDENTIALS"}, version : Versions, part : Parts]
Ages == 0..ReceiveTimeout + 1

ExchangeTypeOK ==
    /\ senderConfig \in 0..MaxVersion /\ receiverConfig \in 0..MaxVersion
    /\ sincePush \in 0..ActivityTimeout + 1 /\ stale \in BOOLEAN
    /\ net \subseteq Credentials \union {Frame, NeedCredentials}
    /\ member \in Membership
    /\ sinceGate \in 0..RateLimit
    /\ signerKnown \in BOOLEAN /\ asked \in BOOLEAN
    /\ deferred \subseteq [packet : Credentials, age : Ages]
    /\ waiting \subseteq Ages
    /\ foreign \in BOOLEAN

ExchangeInit ==
    /\ senderConfig = 0 /\ receiverConfig = 0
    /\ sincePush = ActivityTimeout + 1 /\ stale = FALSE
    /\ net = {} /\ foreign = FALSE
    /\ member = NewMembership
    /\ sinceGate = RateLimit
    /\ signerKnown \in BOOLEAN /\ asked = FALSE
    /\ deferred = {} /\ waiting = {}

ConfigOf(version) ==
    [ts |-> version, public |-> FALSE, com |-> [ts |-> version, identityMatches |-> version # 0]]

(* Network::gate of the receiver's private network.                        *)
LetIn == receiverConfig # 0 /\ IsAllowed(member, ConfigOf(receiverConfig))

----------------------------------------------------------------------------
(* Network::setConfiguration.  The times of the last push and of this      *)
(* change are compared: a change in the same instant goes unnoticed.       *)
ConfigureSender(version) ==
    /\ version > senderConfig
    /\ senderConfig' = version
    /\ stale' = (sincePush > 0)
    /\ UNCHANGED <<sincePush, receiver, net, foreign>>

ConfigureReceiver(version) ==
    /\ version > receiverConfig
    /\ receiverConfig' = version
    /\ UNCHANGED <<sender, member, sinceGate, signerKnown, asked, deferred, waiting, net, foreign>>

(* Membership::pushCredentials: the packets of one push.                   *)
Packets == [type : {"NETWORK_CREDENTIALS"}, version : {senderConfig}, part : Parts]

(* Credentials go out if they changed or the last push is too long ago.    *)
PushIfOlder(limit, rest) ==
    IF stale \/ sincePush > limit
    THEN /\ net' = rest \union Packets
         /\ sincePush' = 0 /\ stale' = FALSE
    ELSE /\ net' = rest
         /\ UNCHANGED <<sincePush, stale>>

(* Mutant: a network without a configuration sends frames, too.            *)
SendFrame_Unconfigured ==
    /\ PushIfOlder(ActivityTimeout, net \union {Frame})
    /\ UNCHANGED <<senderConfig, receiver, foreign>>

(* Mutant: credentials are pushed when they change, and on request.        *)
SendFrame_OnChange ==
    /\ senderConfig # 0
    /\ IF stale THEN PushIfOlder(RequestLimit, net \union {Frame})
       ELSE net' = net \union {Frame} /\ UNCHANGED <<sincePush, stale>>
    /\ UNCHANGED <<senderConfig, receiver, foreign>>

(* Switch::onLocalEthernet, OutboundMulticast::sendOnly:                   *)
(* pushCredentialsIfNeeded, and the frame.                                 *)
SendFrame ==
    /\ senderConfig # 0
    /\ PushIfOlder(ActivityTimeout, net \union {Frame})
    /\ UNCHANGED <<senderConfig, receiver, foreign>>

(* peerRequestedCredentials.                                               *)
ReceiveError ==
    /\ NeedCredentials \in net
    /\ PushIfOlder(RequestLimit, net \ {NeedCredentials})
    /\ UNCHANGED <<senderConfig, receiver, foreign>>

----------------------------------------------------------------------------
(* The receiver refuses a frame, says so, and keeps it.                    *)
ReceiveFrame ==
    /\ Frame \in net
    /\ \/ LetIn /\ net' = net \ {Frame} /\ UNCHANGED waiting
       \/ ~LetIn /\ net' = (net \ {Frame}) \union {NeedCredentials}
                   /\ waiting' = waiting \union {0}
    /\ UNCHANGED <<sender, receiverConfig, member, sinceGate, signerKnown, asked, deferred, foreign>>

(* doTimerTasks, doAnythingWaitingForPeer: it is tried again, and given up *)
(* in the end.                                                             *)
RetryFrame(age) ==
    /\ age \in waiting
    /\ net' = IF LetIn THEN net ELSE net \union {NeedCredentials}
    /\ waiting' = IF LetIn \/ age > ReceiveTimeout THEN waiting \ {age} ELSE waiting
    /\ UNCHANGED <<sender, receiverConfig, member, sinceGate, signerKnown, asked, deferred, foreign>>

----------------------------------------------------------------------------
(* Peer::rateGateCredentialsReceived, for all networks of the sender.      *)
GateOpen == sinceGate >= RateLimit

Issued(version) == [ts |-> version, body |-> CHOOSE b \in Bodies : TRUE]
ComOf(version) == ConfigOf(version).com

InPart(packet) == {k \in Key : Part[k] = packet.part}

(* The packet cannot be checked: the identity of the signer is asked for.  *)
Unverifiable(packet) ==
    LET verdict == Verdict("genuine", signerKnown)
    IN  \/ packet.part = 1 /\ AddComResult(member, ComOf(packet.version), verdict) = "DEFERRED"
        \/ \E k \in InPart(packet) :
              AddCredResult(member, k, Issued(packet.version), verdict) = "DEFERRED"

(* The membership with what the packet carries.                            *)
Added(packet) ==
    LET withCom == IF packet.part = 1 THEN AddCom(member, ComOf(packet.version), "OK") ELSE member
    IN  [withCom EXCEPT !.creds = [k \in Key |->
            IF k \in InPart(packet) THEN AddCred(withCom, k, Issued(packet.version), "OK").creds[k]
            ELSE @[k]]]

(* Mutant: nobody is asked for the signer.                                 *)
RequestWhois_Dropped == UNCHANGED asked

(* What verify() does about a signer that is not known.                    *)
RequestWhois == asked' = TRUE

(* _doNETWORK_CREDENTIALS of a packet that is, or was, in the queue.       *)
Process(packet, age, queue) ==
    IF ~GateOpen
    THEN deferred' = queue /\ UNCHANGED <<member, sinceGate, foreign, asked>>
    ELSE /\ sinceGate' = 0 /\ foreign' = FALSE
         /\ IF Unverifiable(packet)
            THEN /\ deferred' = IF age > ReceiveTimeout THEN queue
                                ELSE queue \union {[packet |-> packet, age |-> age]}
                 /\ RequestWhois
                 /\ UNCHANGED member
            ELSE /\ member' = Added(packet)
                 /\ deferred' = queue
                 /\ UNCHANGED asked

ReceiveCredentials(packet) ==
    /\ packet \in net
    /\ net' = net \ {packet}
    /\ Process(packet, 0, deferred)
    /\ UNCHANGED <<sender, receiverConfig, signerKnown, waiting>>

(* A deferred packet is tried again, and meets the gate it passed before.  *)
RetryCredentials(entry) ==
    /\ entry \in deferred
    /\ Process(entry.packet, entry.age, deferred \ {entry})
    /\ UNCHANGED <<sender, receiverConfig, signerKnown, waiting, net>>

(* OK(WHOIS) for the controller.                                           *)
LearnController ==
    /\ asked
    /\ signerKnown' = TRUE
    /\ UNCHANGED <<sender, receiverConfig, member, sinceGate, asked, deferred, waiting, net, foreign>>

(* The same sender's credentials for another network pass the gate.        *)
ReceiveOther ==
    /\ GateOpen
    /\ sinceGate' = 0 /\ foreign' = TRUE
    /\ UNCHANGED <<sender, receiverConfig, member, signerKnown, asked, deferred, waiting, net>>

----------------------------------------------------------------------------
Lose(packet) ==
    /\ packet \in net
    /\ net' = net \ {packet}
    /\ UNCHANGED <<sender, receiver, foreign>>

Older(age, most) == IF age < most THEN age + 1 ELSE age

Tick ==
    /\ sincePush' = Older(sincePush, ActivityTimeout + 1)
    /\ sinceGate' = Older(sinceGate, RateLimit)
    /\ deferred' = {[d EXCEPT !.age = Older(@, ReceiveTimeout + 1)] : d \in deferred}
    /\ waiting' = {Older(age, ReceiveTimeout + 1) : age \in waiting}
    /\ UNCHANGED <<senderConfig, stale, receiverConfig, member, signerKnown, asked, net, foreign>>

ExchangeNext ==
    \/ \E version \in Versions : ConfigureSender(version) \/ ConfigureReceiver(version)
    \/ SendFrame
    \/ ReceiveError
    \/ ReceiveFrame
    \/ \E age \in Ages : RetryFrame(age)
    \/ \E packet \in Credentials : ReceiveCredentials(packet)
    \/ \E entry \in deferred : RetryCredentials(entry)
    \/ LearnController
    \/ ReceiveOther
    \/ \E packet \in net : Lose(packet)
    \/ Tick

ExchangeSpec == ExchangeInit /\ [][ExchangeNext]_exchange

(* Frames keep being sent, time passes, a WHOIS is answered, and a packet  *)
(* that is sent again and again arrives now and then.  Configurations need *)
(* not come, and nothing makes the receiver try anything again.            *)
FairSpec ==
    /\ ExchangeSpec
    /\ WF_exchange(SendFrame)
    /\ WF_exchange(Tick)
    /\ WF_exchange(LearnController)
    /\ SF_exchange(ReceiveError)
    /\ SF_exchange(ReceiveFrame)
    /\ \A packet \in Credentials : SF_exchange(ReceiveCredentials(packet))

----------------------------------------------------------------------------
(* Credentials arrive while the gate is shut by those for another network. *)
CrowdedOut ==
    /\ ~GateOpen /\ foreign
    /\ \E packet \in Credentials : ReceiveCredentials(packet)

(* The receiver ends with the sender's credentials of the day, whatever is *)
(* lost, deferred, late or gated now and then, unless the sender has got   *)
(* others or is crowded out for ever: two networks in common whose pushes  *)
(* always fall into one interval do that, the second gets nothing through. *)
(* This also needs a push that fits one packet: later ones meet the gate   *)
(* the first shut                                                          *)
(* (pushCredentials, rateGateCredentialsReceived, _doNETWORK_CREDENTIALS). *)
Holds(version) ==
    /\ member.com.ts = version
    /\ \A k \in Key : member.creds[k].ts = version

CredentialsArrive ==
    \/ []<><<CrowdedOut>>_exchange
    \/ \A version \in Versions :
           senderConfig = version ~> senderConfig # version \/ Holds(version)

(* A member whose COM agrees with the receiver's is let in in the end,     *)
(* unless it is crowded out for ever                                       *)
(* (_sendErrorNeedCredentials, peerRequestedCredentials, gate).            *)
Agree == senderConfig # 0 /\ AgreesWith(ComOf(receiverConfig), ComOf(senderConfig))

Admitted == []<><<CrowdedOut>>_exchange \/ (Agree ~> LetIn \/ ~Agree)

(* Nothing that arrives late shuts a member out that is let in: only a new *)
(* configuration does, the receiver's own or the one its COM comes from    *)
(* (addCredential, gate).                                                  *)
StaysAdmitted ==
    [][LetIn /\ ~LetIn' =>
         receiverConfig' # receiverConfig \/ member'.com.ts > receiverConfig]_exchange
=============================================================================
