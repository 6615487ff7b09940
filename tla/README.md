# TLA+ models of the ZeroTier core in zerotier-aio

The repository packages a ZeroTier node, a planet generator, a controller web
interface and two small plugins into one container. What it computes on its own
is in `src/generator/node/`: a node that takes frames from virtual networks,
encrypts them, and moves them between peers. This directory models that core in
TLA+, checks the models with TLC and proves the central invariants with TLAPS.

## The system

| Part | State | Operations | Hard parts |
|---|---|---|---|
| Membership (`Membership.*`, `Network::gate`, `addCredential`) | per peer: certificate of membership, tags, capabilities, certificates of ownership, revocation thresholds | add a credential or revocation, test admission, clean | credentials and revocations in any order and repeatedly; a verdict that waits for WHOIS; configuration changes in between |
| Receive queue (`Switch::onRemotePacket`, `RXQueueEntry`) | ring of 32 entries, an atomic pointer, a lock per entry | receive a head, a fragment or a whole packet; retry what waits for an identity | several threads; the entry is chosen before its lock is taken; duplicates; entries taken over |
| Network configuration (`Network::handleConfigChunk`, `setConfiguration`) | three slots of chunks, the configuration in memory, at the port and on disk | receive a chunk, install, fail, leave, restart | interleaved updates; steps outside the lock; leaving and crashing in the middle |
| Multicast (`Multicaster`, `OutboundMulticast`) | members of a group with the time of their last LIKE, a queue of multicasts with the addresses each was sent to | LIKE, gather, send, clean | a multicast is completed by members that become known later; limits; expiry |
| Transmit queue and WHOIS (`Switch::send`, `requestWhois`, `doAnythingWaitingForPeer`, `doTimerTasks`) | queue of packets, time of the last WHOIS per address | send, ask for an identity, retry, give up | answers racing timeouts; queue at its limit |
| Node (`Node`) | table of networks, expected replies, controller authorizations | join, leave, background tasks | three critical sections in `leave` |
| Topology (`Topology`, `World`; HELLO and its answer) | peers, planet, moons, seeds of moons, upstreams, state store | look up a peer, orbit and deorbit moons, take worlds from contacts, forget silent peers | updates must not go back; files read outside the lock; restarts; lost and repeated answers |
| Peers and paths (`Peer`, `Path`) | up to 64 paths per peer, rate gates | learn, choose, expire, introduce | check and update in two critical sections; two path locks at once |
| Credential exchange (`Membership::pushCredentials`, `Network::gate`, `Peer::rateGateCredentialsReceived`) | times of the last push and the last packet taken, packets put off | push, refuse and ask, take, put off | two rate gates, loss, a signer that is not known yet |
| Bonding (`Bond`) | nominated paths, flows, failover queue, active path | nominate, curate, assign, fail over | slots change hands while flows, the queue and the active path refer to them by number |
| Self-awareness, AQM, rules engine, containers, packet format, tracing | see `PROJECT.json` | | |
| Web interface, plugins, scripts | password file, calls to the controller | | read-modify-write of one network by two requests |

How they interact: `Switch::onRemotePacket` reassembles a packet and calls
`IncomingPacket::tryDecode`, which looks the sender up in `Topology`, checks the
packet, and calls `Network`, `Membership`, `Multicaster` or `Peer`. A packet
whose sender, or the signer of a credential in it, is unknown stays in the
receive queue while `Switch::requestWhois` asks an upstream; the answer runs
`doAnythingWaitingForPeer`, which decodes it again. All of this runs on the
threads that call `Node::processWirePacket`, `processVirtualNetworkFrame` and
`processBackgroundTasks`; each component has its own locks.

`PROJECT.json` lists the hazards of this code line by line, with the properties
that cover them.

## Modules

### MembershipOps, Membership

`MembershipOps` has the functions of `Membership.cpp` on one record as pure
operators: `AddCom`, `AddCred` (the template `_addCredImpl`), `AddRevocation`,
`CleanCreds`, `IsAllowed`. A signature is one of the outcomes of `verify()`; it
is turned into a verdict that depends on whether the controller's identity is
known. A credential is its timestamp and a body, two of which can differ with
the same timestamp.

`Membership` is the table `Network::_memberships`: one action for each
`addCredential`, for the functions that create an entry on the way, for
`Network::clean`, for a change of configuration, and for the topology learning
or forgetting the controller or a peer. The history variable `seen` collects
what verified since the entry exists.

* `RevokedCredUnusable`: what a verified revocation covers is invisible to the
  rules engine, whichever came first.
* `NewestCredInUse`: which credential is in use is a function of the set of
  credentials received, not of their order.
* `AdmittedWithNewestCom`: on a private network a peer is admitted with the
  newest certificate, newer than every revocation of it, *provided* no other
  kind of credential of the peer was revoked. The proviso is the finding below.

Bounds (`MCMembership.cfg`): one peer, one kind of credential, one ID, one body,
timestamps 1 and 2, time windows of 1. Peers do not interact in this table, and
every comparison in the code is between two timestamps or between one and the
configuration's, so two timestamps and a window of one give every order and
both sides of every window. The proofs need no bound.

### RxQueue

The ring of reassembly entries with any number of receiving threads. A thread
goes through the steps at whose boundaries another may interleave: `Lookup`
(load the pointer and scan), `Claim` (increment it), `Process` (everything under
the lock of the entry). Whole packets that cannot be decoded take an entry with
one atomic step. `Retry` is one entry of the loops in `doTimerTasks` and
`doAnythingWaitingForPeer`. Time is abstracted: a retry may give up whenever it
fails. What fields an overwritten entry keeps is modelled field by field, since
that is where the mistakes would be.

* `AssembledWhole`: whatever is put together is exactly the pieces of one
  packet. It holds under every interleaving, for packets all copies of which
  are cut alike (`OneFragmentation`, see the observations).
* `DecodedOncePerCopy`: no retry, duplicate or reuse of an entry decodes a
  packet more often than each of its pieces was received.
* `NothingLost`: a packet all of whose pieces arrived before the ring went
  around, while no other thread was between `Lookup` and `Process` (the history
  variable `raced`), is decoded, kept or was given up. Without the proviso it
  fails, because two threads can claim one entry (see the observations).

Bounds: a ring of 2 entries and two fragmented packets already make every entry
be taken over; how often a piece may arrive is a function of the packet; two
threads, interchangeable (symmetry), interleave every pair of steps.

### NetworkConfigUpdate

One network of a member. `HandleChunk` is all of `handleConfigChunk` under
`_lock`: the slot, duplicates, taking over the oldest slot, the limit of chunk
IDs, assembly. `Compare`, `Install`, `ConfigurePort` and `Save` are the steps of
`setConfiguration`, of which only `Install` is under the lock. `Refused` and
`SetAuthenticationRequired` are what an ERROR of the controller does, under the
lock: both tell the port what there is now (`SendUpdateEvent`), the second after
it set the sso flag of the configuration in memory, which is not saved. `Leave`
has the three steps of `Node::leave`; `Restart` ends the process at any point
and starts from the disk. What the port was told is a configuration and a status
(`Told`).

* `NoMixedConfig`: what is handed to the parser is the whole of one update.
* `NothingLost`: an update that arrives without another in between is
  assembled, whatever the slots held.
* `Agreement`: whenever no update is being installed, the port was told the
  configuration and the status in memory, errors of the controller included, the
  file has the configuration but for the sso flag, and neither is left after
  `leave`. The code does set them apart in four crossings, which the history
  variable `overlapped` names and the property exempts: two threads in
  `setConfiguration`; an error between an installation and its report to the
  port, which the older report then follows; a step of `leave` that meets a
  thread which has yet to tell the port or to save; an error after `leave` took
  the port down. Before the network is left, the next update that is installed
  alone puts all three right again, and the property says so.

Bounds: 2 slots for 3 updates, so slots are taken over; updates of one and two
chunks, one of them legacy, one for another member; two threads; 4 chunks.

### Multicaster, MulticastDelivery

`Multicaster` is one group of one network: the ages of the members' LIKEs, the
queue of `OutboundMulticast`s (a set whose order is that of the numbers of the
multicasts; `log` and `logged` are `_alreadySentTo` as a set and its size, which
differ when an address is logged twice), the time of the last explicit gather.
The callers of `send` look at the limit and at the replicators without a lock
and call it later: `CheckLimit` and `CheckReplicator` are these looks, `passed`
remembers which was passed once, and `MaySend` asks for nothing more.
`SendToReplicator` is the way through `send` that takes no lock; `StartSending`
takes the lock and reads the bridges, and `SendOnce` and `SendQueued`, the two
other ways, then read the limit, so that the configuration may change at each of
these points. `IsFirstPass` says which sets of recipients the loops over bridges
and shuffled members can produce; the loop over the bridges looks at the limit
after it has sent, so that it sends one even when the limit is 0 by then.
`StartAdding` and `AddNext` are `add` and
`addMultiple` with `_add` as a step of its own under the lock; `Clean` and
`Remove` are the functions of those names. The configuration changes at any
time, with the lock held or not. Time is ages that stop counting once they are
past every threshold.

`MulticastDelivery` is what this is for: a multicast goes to a first set of
recipients, then to more, to nobody twice and to no more than its limit, until
it is given up. With a limit of 0 it may go to one recipient, and to no more.

* `AtMostOnce`: nobody is sent a multicast twice, however members leave, return
  and are reported.
* `WithinLimit`: no multicast goes to more than the limit it started with, over
  the first pass and all that is sent later. The code counts bridges, which the
  documentation of `multicastLimit` leaves out, and so does the property. The
  exception is a limit that became 0 between the look of the caller and `send`:
  one bridge, or the replicator (`hubs`), is sent the packet, no member is.
* `MembersServed`: who is a member was offered all that is queued.
* `Implements`: `Multicaster` refines `MulticastDelivery`, where a multicast is
  open while it is queued.
* `Drained`: no multicast stays queued. Fairness: `SF(Clean)`, since
  `Node::processBackgroundTasks` calls `clean` every
  `ZT_HOUSEKEEPING_PERIOD` for as long as the node runs, but another thread can
  hold the lock at the moment; `SF(Tick)`, time passes; `WF` of adding and of the
  end of `send`, a thread that holds the lock goes on. Nobody is assumed to send a LIKE or to answer.

Bounds: 2 other nodes, a queue of 1 and 2 multicasts, so that the second
displaces the first; every age saturates at 1; four configurations with
bridges, replicators, rules that stop some packets, and multicast turned off.

### SwitchTx

How packets get to nodes that may be unknown. The threads are at one of the
points between the critical sections of `send`, `requestWhois` and
`doAnythingWaitingForPeer`: about to `Push`, `Check` (is the peer known by
now?), `Ask` (the rate limit), `Query` (send the WHOIS, which may itself be
queued), `Erase`, `Wake`. The timer is a thread that starts with `TimerScan`,
asks for each address in `need`, and ends with `TimerEnd`. The topology (known
peers, paths, a relay) changes at any time. An answer may be late or repeated.
A scan of the queue is one step under its lock and sees one state of the
topology, where the code looks each destination up anew: a scan that sends the
later of two packets to a node that becomes known in between, and leaves the
earlier, is not modelled.

* `Accounted`: a packet is at every moment in one place: in the hands of its
  thread, in the queue once, sent once, displaced, or given up.
* `AskedInTime`: who waits for an unknown peer is not forgotten. Some WHOIS for
  it was sent less than the retry delay before the timer last ran or later, or
  a thread is about to ask. The history variable `lapsed` exempts peers that
  were forgotten since the timer ran; the timer then asks.
* `SentIfPossible`: a packet that can be sent does not stay. The hard case is a
  peer that becomes known between the failed try and the push: the answer finds
  the queue empty, nobody is asked, and only the timer sends it. Fairness: every
  thread goes on, background tasks run when they are due, time passes
  (`SF`, because the model's time stands still while the timer works, whose
  tasks all use the time at which they started).

Bounds: one unknown node, a queue of 2, which one packet and repeated WHOIS
requests fill; the retry delay is one tick and packets are too old after one.
Safety is checked with two threads and the timer (symmetry); liveness with one
thread, since HELLO, which makes a peer known without waking anything, is a step
of its own and produces the same race. In the second the peer has a bond that
broadcasts: `_trySend` then reports success whether or not a path is alive, so
"sent" means handed to the paths there are.

### TopologyOps, WorldState, Topology, WorldUpdates

`TopologyOps` has worlds and what is a function of planet, moons and seeds:
`ShouldBeReplacedBy`, `WithMoon` (the part of `addWorld` for a moon: the results
that the order of the seeds allows), `UpstreamsOf`, `PlanetAtStart`. A world is
its ID, timestamp, roots, the key it is signed with and the key its successor
must be signed with. `WorldState` declares what a node has of the worlds
(`planet`, `moons`, `seeds`) and the history variable `orbited`, the moons the
user asked for; the two modules below are two views of it.

`Topology` is one node with its state store. `addWorld`, `removeMoon`,
`addPeer` and the periodic tasks hold their locks throughout and are one step
each, with `_memoizeUpstreams` and the write to the store in it. `OrbitRead` and
`OrbitLoad` or `OrbitSeed` are `addMoon`, `GetPeerRead` and `GetPeerEnter` are
`getPeer`: both read the store before they take a lock. `ReceiveWorlds` checks
the sender of an OK(HELLO), `ReceiveWorld` adds one of its worlds,
`ReceiveBroken` is a world that does not deserialize. `Restart` ends the process
between any two steps, with or without the destructor, which saves the peers.

* `UpstreamsKnown`: the cached list of upstreams is that of planet and moons,
  and every upstream has a peer.
* `OnlyAskedMoons`: no moon is followed or waited for that was not asked for,
  also when a `deorbit` comes between the check of a sender and its worlds. A
  moon that another thread of `addMoon` is about to add counts as asked for.
* `WorldsAdvance`: a planet, or a moon that is followed, changes only to a newer
  revision signed with the key its predecessor names; the file of a moon never
  goes back to an older revision. `addMoon` holding an
  old file while a newer revision arrives is the hard case: `addWorld` compares
  even when told to accept.

Bounds: two threads (symmetry); three revisions of the planet with a change of
keys, another planet, three revisions of a moon of which one makes this node a
root and one has the wrong key; two worlds in a packet. More threads only hold
more old revisions, and what they may do with one is what two may. The proofs
need no bound.

`WorldUpdates` is the exchange that brings worlds: `SendHello` lists what the
node has and waits for, `Answer` brings what is newer, `Receive` and
`AddReceived` take it; `OrbitMoon` and `DeorbitMoon` are what the user does. Packets are lost (`Lose`) and come twice (`Receive` may leave the
packet), and an OK may answer a HELLO of long ago.

* `NotForgotten`: a moon that was asked for is followed or waited for.
* `Learns`: a world that a contact offers and the node would take is taken,
  unless it stops being offered or wanted. Fairness: `WF` of adding, since a
  thread goes on; `SF` of sending, answering and receiving between contacts
  that are online, since `processBackgroundTasks` sends a HELLO to every contact
  again when the last is long enough ago, and a network is assumed not to lose
  every packet. Nobody has to publish, orbit or deorbit.

Bounds: one HELLO and one OK under way, of which a later one replaces an earlier
one as if that were lost; a server that is online and a root that is not; two
revisions of the planet, three of a moon, the third signed with a key that was
taken out of use, which the node must not wait for.

### CredentialExchange

Two members of one network: the sender pushes its credentials with its frames
(`SendFrame`: when its configuration changed, or the last push is long ago) and
when it is told that a frame was refused (`ReceiveError`); the receiver refuses
frames while its gate is shut (`ReceiveFrame`, `RetryFrame`), takes at most one
credentials packet of a peer per second whatever network it is for
(`ReceiveCredentials`, `ReceiveOther`), and puts it off while it does not know
the controller (`RetryCredentials`, `LearnController`). What the packet does is
the composition with `MembershipOps`. `net` is a set of packets that are lost
and overtake each other.

* `CredentialsArrive`: the receiver ends with the sender's present credentials.
* `Admitted`: a sender whose certificate agrees with the receiver's is let in.
* Both except a sender that is crowded out (`CrowdedOut`): its credentials meet,
  again and again for ever, a gate that those for another network shut
  (`foreign`). How often these come is not bounded, and the exception is real:
  without it TLC finds either property violated. Two networks that two nodes
  share push with the same period, so that if their pushes fall into one second
  the second network always meets a shut gate; once its member is let in nothing
  asks again.
* `StaysAdmitted`: no late or deferred packet shuts a member out again.

Fairness: frames keep being sent, time passes, a WHOIS is answered, and a packet
that is sent again and again arrives now and then (`SF`). Nothing is assumed
about retries: the receive queue may give a packet up. Versions of the sender's
configuration do not go back, which is what controllers do and the code assumes.

Bounds: two configurations and one tag; a gate of one tick and a push period of
two, so that the gate is met both shut and open by each push. A push is one packet: the gate passes one packet
a second, so of a push of two the second never passes if they arrive together.

### BondPaths, Bond

`BondPaths` is the table of nominated paths: `WithNominee` is the table after
`nominatePathToBond`, `Curated` the loop of `curateBond` that all policies
share, `Unbind` an interface that goes away. `Bond` adds what refers to the
table by slot: the active path and the queue of active-backup
(`ActiveBackupTasks`, one definition for the three parts of
`processActiveBackupTasks`), and the bonded slots and the flows of balance-xor
(`CurateBond`, `BalanceTasks`, `SendFlow`, `ReceiveFlow`). The estimates of
quality are inputs: which paths are fit and which are alive is chosen anew in
every step. The queue is a set: the code sorts it by slot in each run.

* `FailsOverInTime`: after the periodic tasks the active path is eligible if any
  is, except that a bond with a primary link, once it has no active path, waits
  for a primary link.
* `BalanceServes`: after them, as long as a primary path is eligible, the map of
  bonded slots names an eligible one, nothing in the map and no flow stays on a
  path that is there and not eligible, and a map that was put together anew
  names eligible slots only. It does not say that every flow has a path, because
  the code does not provide one: when a slot of the map is emptied and nothing
  else changes, the map stays, and the flows on that slot, and new ones hashed
  to it, get none until the bond is put together again. TLC reaches both cases.

Bounds: three paths on two links for two slots, so that a slot gets another
path; periods of one tick; one flow; six setups of the user, with links that are
primary, spare, of a preferred family, and each mode of re-selection but those
that behave alike. Between two ticks the tasks run, since their period is far
shorter than the periods that count; they may run again at any time (`Wait`).
There is no fairness: both properties are about what a run of the tasks leaves.

### PeerPaths

The table of paths of one peer. `Receive` and `ReceiveOK` are the first part of
`Peer::received`, which looks the path up and refreshes it, `Learn` is the
second, which enters it under another hold of the lock, with threads between
them. `DoPingAndKeepalive` has the state of bonding, the cleaning of one path
and the compaction as it really goes: behind a deleted path nothing is looked at
in that round. `Redirect` is `clusterRedirect`, `ResetWithinScope` what the
change of an external address does, `Overhear` traffic of others on the same
path, which keeps it alive in the sense of `Path` but not in that of the peer.

* `Packed`: the taken slots come first, on which all other loops rely.
* `DoublesHeal`: a path that two threads entered twice loses one of its entries,
  unless the race happens for ever.
* `Reconnects`: a path on which the peer keeps sending is in the table in the
  end and stays, also after a redirect to an address where nobody is.

Fairness: time passes, the background tasks run in every unit of it, a thread in
`received` goes on; a steady peer is heard in every unit (its heartbeats are far
more frequent than paths expire) and answers what is sent again and again.

Bounds: two paths of different hosts in three slots, two threads, expiry after
two units, one redirect at a time (a redirect on top of it exceeds
`MaxPriority`). With two ports of one host `Reconnects` does not hold, and is
not claimed: see the observations.

## What is proved

TLAPS checks these for every value of the constants, under the named
assumptions of the modules, which TLC evaluates in the runs.

| Module | Theorems | Argument |
|---|---|---|
| `MembershipProofs` | `TypeCorrect`, `RevocationSafety`, `OrderIndependence`, `AdmissionSafety`, `ExchangeTypeCorrect`, `ExchangeStaysAdmitted`, `ExchangeNothingNewer`, `ExchangeStaysCurrent`, `ExchangeStaysDue` | The invariants compare what is stored with the history `seen`, but a credential is only looked at when it is used; the inductive invariant `IInv` therefore says of every stored credential, certificate and threshold which element of `seen` it is and that nothing newer was seen (`CredInv`, `ComInv`), and that every threshold is that of a revocation that was seen (`ThresholdInv`). The theorems named `Exchange...` are about `CredentialExchange`. A sender without a configuration is silent (`Silent`), so every push is of some version. A certificate that replaces another is no older; if it is no newer than the receiver's own it is closer to it, and agrees if the old one did (`CloserAgrees`). Nothing under way, put off or kept is newer than what the sender has, and nothing kept is replaced by something older, so that once the present credentials are there they stay; and a change is noticed only when time has passed since the last push (`StaleInv`), so that the push it leads to carries what the sender has then. |
| `RxQueueProofs` | `TypeCorrect`, `ReassemblySafety`, `NoReplay`, `NothingIsLost` | Between `Lookup` and `Process` the entry can become anything, so nothing can be said of what a thread holds. `IInv` says of each entry that it is free, gathers pieces of one transmission that are exactly those of the bits set, or holds all of one. For `NoReplay`, every decoding used up one copy of every piece, and the copies that threads hold and entries keep are yet to be used (`CopiesInv`). For `NothingIsLost`, the pieces of a packet that is still owed are in one entry, or in the hands of the only thread at work, which will begin an entry no other uses (`KeepInv`). All but the first assume `OneFragmentation`: nobody sends one packet ID in two fragmentations. A bond that broadcasts over paths of different MTUs does; the code has nothing that tells the two apart, so the assumption is needed. |
| `NetworkConfigUpdateProofs` | `TypeCorrect`, `ConfigSafety`, `ConfigCompleteness`, `ConfigAgreement` | A slot holds chunks of one update, as many as it counts, and it never holds all of an update that was not assembled (`SlotInv`); an update that arrives alone has a slot with all that arrived of it (`StreakInv`). `AgreementInv` says that, as long as nothing overlapped, one thread at most is in `setConfiguration`, which of port and disk it has still to write, and that it is not on its way to bring back what `leave` took down (`ThreadInv`); an error tells the port at once and saves nothing (`EventFacts`). |
| `SwitchTxProofs` | `TypeCorrect`, `NobodyForgotten`, `SentExactlyOnce`, `QueueInOrder`, `WhoisRateLimited` | What a thread is about to do is what its step may rely on (`JobInv`). For `AskedInTime`, `WhoisInv` relates the times the code keeps, which are deleted, to the history of when somebody was asked. For `Accounted`, `LocatedInv` says of each packet which one of the five places it is in, without counting. That erasing entries from the queue neither drops nor doubles the others is a fact about the k-th member of a finite set of numbers (`KthPlace`, `LeftFacts`), proved without induction. The same fact, with the order of the places, gives that the queue stays in the order of age and holds nothing too old once the timer ran (`QueueInv`). `WhoisLimited` needs that the time kept for an address is no later than the last WHOIS for it (`RememberedInv`). |
| `MulticasterProofs` | `TypeCorrect`, `SentAtMostOnce`, `SentWithinLimit`, `EveryMemberServed`, `Implementation` | Copies are counted per recipient, while the code looks at a log. `Inv` relates them: who was sent a queued multicast is in its log, the log is no larger than its count, and the limits agree. A multicast that is not at its limit then has room for one more recipient, who is new. A first pass with a limit of 0 goes to one of the bridges that were read under the lock and to nobody else (`WithinPass`, `PassIsWithin`). The queue's size needs that a full queue has a front, the least of a set of naturals. `Implementation` is the refinement, from the same invariant. |
| `TopologyProofs` | `TypeCorrect`, `UpstreamSafety`, `MoonSafety`, `MoonProgress`, `PlanetProgress`, `WorldProgress`, `UpdatesTypeCorrect`, `UpdatesRemember`, `UpdatesGoForward`, `HelloSaysEnough` | `OnlyAskedMoons` and `WorldsAdvance` depend on what is under way. `MoonInv` says that a thread in `addMoon` works for a moon that was asked for (`JobsAsked`), that a moon in memory is the one of its file (`FilesFollowed`), and that of a moon with a file that is not in memory nobody waits for a seed, and every thread that is adding it holds just that file (`FilesHeld`), so that what it adds later takes nothing back. `PlanetInv` says that the file of the planet is the planet in memory, so that a restart does not change it. The theorems named `Updates...` and `HelloSaysEnough` are about `WorldUpdates`, with the same lemmas about worlds: a moon that is replaced has the ID of the one it replaces and is its successor, whichever answer it came in, and what a HELLO says of the planet, the moons and the seeds is all the server needs to find what is newer (`AnswersSuffice`). |
| `PeerPathsProofs` | `TypeCorrect`, `NoGaps`, `DoublesComeFromRaces` | `TypeOK` and `Packed` together are inductive. Each action leaves the taken slots alone, fills the first free one (`LearnStep`: a slot is only replaced when none is free), takes one out and moves the others up (`WithoutShape`), or writes the table anew from its first slot (`RedirectStep`). For `DoubledByRaceOnly` the same actions are followed for one path: moving slots up keeps different slots different, and only `Learn` of a path that came in since it was looked up enters it twice. |
| `BondProofs` | `TypeCorrect`, `FailoverInTime`, `BalancedTrafficServed`, `EqualShares` | A bond that balances keeps the slots of its paths twice, as flags and as a numbered list that flows go by. `Balanced` says that a taken slot is in the list exactly if it is flagged, that its path is eligible then, and that the length of the list is the count the code keeps. Numbering a set of slots without a gap is a fact about counting (`Ranks`), first and last of it about finite sets (`FirstAndLast`). With `Balanced` and `TypeOK`, the tasks are followed step by step: curation, rebuilding (`RebuiltFacts`), moving flows; and for active-backup the choice of a first path, of a better one and of the one to fail over to (`InitialFacts`, `ActiveFacts`). `EqualShares` adds that no path has two slots, since only a path that is nowhere in the table gets one and curation only frees slots (`CurateWithin`), and that the numbering lists no slot twice. |

Only model-checked: the liveness properties `Drained`, `SentIfPossible`,
`Learns`, `CredentialsArrive`, `Admitted`, `DoublesHeal` and `Reconnects`, since
fairness is out of the prover's reach. Every invariant and every safety action
property of a passing run is proved. Of the liveness properties, what they rest
on as far as it is safety is proved too, under names of the proof modules:

| Liveness, checked by TLC | What is proved for it |
|---|---|
| `SentIfPossible` | `NobodyForgotten`: somebody asks for who is unknown; `QueueInOrder`: only the oldest entry is displaced |
| `Learns` | `HelloSaysEnough`: an answer to a present HELLO has every world that is wanted; `UpdatesRemember`, `UpdatesGoForward`: what was gained is not lost |
| `CredentialsArrive`, `Admitted` | `ExchangeStaysDue`: the sender pushes what it has; `ExchangeStaysCurrent`, `ExchangeStaysAdmitted`: what arrived stays |
| `DoublesHeal` | `DoublesComeFromRaces`: nothing but the race makes a double |
| `Drained` | `SentWithinLimit`, `EveryMemberServed`: what stays queued waits for members only |

What is left to fairness is that the scan, the HELLO, the push and the
housekeeping happen, and that not every packet is lost.

`Membership`, `RxQueue`, `NetworkConfigUpdate`, `Topology` and `Bond` are safety
specifications: nothing in the first three makes the peer send again, so no
liveness is claimed of them. The runs of `RxQueue` and `NetworkConfigUpdate`
stop where the bounds end.

## Findings

The run `membership_revoked_com` shows with a counterexample that the code does
something else than its own documentation says: a revocation of a tag lowers
the threshold for certificates (`Membership.cpp:201`; `PROJECT.json` quotes the
lines).

Noticed while modelling, without a run:

* Receive queue. Two threads that start different packets at once are handed the
  same entry, documented as "available" (`Switch.hpp:238`, 249), which is why
  `NothingLost` exempts them. Fragments of two fragmentations of one packet ID
  are put together (`Switch.cpp:165`). A decoded OK(WHOIS) that is stored itself
  would lock its own entry again (`Switch.cpp:984`). The fields of an entry are
  not initialised by its constructor (`Switch.hpp:222`).
* Transmit queue. `doAnythingWaitingForPeer` is not called for a HELLO, against
  its comment, so packets for the peer wait for the timer (`Switch.hpp:189`); an
  OK to a WHOIS that left by a trusted path is not expected (`Switch.cpp:1148`).
* Configurations. OK is sent for a configuration that was refused, against
  `Packet.hpp:829` (`Network.cpp:1100`); the time of a slot of chunks counts what
  the slot received, so that "newer is higher" does not hold (`Network.cpp:1068`);
  a configuration that arrives between the parts of `leave()` brings the saved
  file of the network back (`Network.cpp:1140`), and an error that arrives after
  the port was destroyed configures it again (`Network.cpp:1716`); an error that
  comes between an installation and its report is told to the port first, and
  the port is left with the older status (`Network.cpp:1140`).
* Credentials. A credential ID of 0 is documented as "all" but is an ordinary key
  (`Membership.cpp:198`); nothing calls `Network::clean`, which would also drop
  credentials by age while they are in use (`Network.cpp:1380`); of a push of
  several packets the second meets the gate of one a second
  (`Membership.hpp:53`); a configuration that changes in the instant of a push
  is not noticed as a change (`Network.hpp:401`), but the next request or the
  period of pushes makes up for it; the gate is shared by all networks of a
  peer, so that one network can keep another from getting anything through
  (`Peer.hpp:403`); a credentials packet put off for WHOIS meets
  the gate again when it is retried, and is dropped if it is shut.
* Multicast. Bridges count towards the limit, which is documented not to include
  them (`NetworkConfig.hpp:571`, `Multicaster.cpp:260`); when the limit becomes 0
  between the look of the caller (`IncomingPacket.cpp:1303`) and `send`, one
  bridge is sent the packet all the same; a queued multicast is returned by a replicator to
  where it came from (`Multicaster.cpp:365`).
* Topology. `getPeer` enters a peer it loaded into the table and still returns
  none, against `Topology.hpp` (`Topology.cpp:109`); `moonsWanted`, documented as
  the moons the node waits for, lists a moon that was learned as long as it has
  another seed (`Topology.hpp:209`); a node that missed the revision of a world
  that changes keys cannot take the later ones (`World.hpp:149`); `removeMoon`
  leaves the file of a moon that is not in memory (`Topology.cpp:335`); a moon
  that is given up after `addMoon` read its file and before it adds it is added
  all the same (`Topology.cpp:309`), which is why `OnlyAskedMoons` counts it.
* Paths. A keepalive deletes at most one path, and those behind it are neither
  looked at nor contacted in that round (`Peer.cpp:567`). "We let those old links
  expire" (`Peer.cpp:544`), but paths of a lower priority are deleted at once,
  and those learned while the target of a redirect is dead are deleted until it
  expires. A path of one host that is only overheard keeps another path of that
  host from being learned, although it expires itself (`Peer.cpp:122`).
* Bonds. "Move (all) flows from dead paths" (`Bond.cpp:1430`) does not move a
  flow whose path has left its slot, and new flows hashed to that slot get no
  path either (`Bond.cpp:1000`, 616). The queue is said to be sorted by
  performance and is sorted by slot (`Bond.cpp:1743`), so that a primary link
  that comes back may not become active while a spare is before it in the queue,
  against `Bond.hpp:75`. Scores are integers, so that optimizing does not see
  differences in quality. A primary link that vanishes leaves a bond with spares
  without an active path. The map of bonded slots outlives the paths in them
  (`Bond.cpp:995`), and the search for a flow's path under balance-aware does not
  end when it meets such a slot (`Bond.cpp:650`).
* Node. The loop that forgets controller authorizations computes their age with
  the operands swapped (`Node.cpp:365`).

## Not modelled

The components with status `not_modelled` in `PROJECT.json` say why. In short:
cryptography, packet and address formats are reduced to their outcomes; tracing
and metrics have no effect on the rest; active queue management cannot be
reached while `qosEnabled()` returns false; the JSON library, four tenths of all
lines, is vendored, and with the cryptography, the serialisation formats and the
C interface well over half of the lines hold no state of the protocol.

Of the modelled components these are left out: `Network::requestConfiguration`;
the sending of gathers in `Multicaster::send` apart from its effect on the
state; the uniting of peers in `Switch`; the forwarding of revocations that
propagate fast; the choice of the best path, `introduce` and the push of own
addresses in `Peer`; and of `Bond` the policies broadcast, round robin and
balance-aware, the estimation of quality, the negotiation with the peer, the
failover instructions and the creation of bonds from templates.

## Plan

Done: the components of all sections above. Left, in this order, each with its
runs and then its theorems:

1. `NodeNetworks`: `join`, `leave` and its three critical sections, the
   controller authorizations of `Node`; what a concurrent join may lose.
2. A module for the order of locks over `introduce`, `Multicaster` and the
   receive queue.
3. Pure algorithms against a reference definition: the rules engine's matching,
   the containers.
