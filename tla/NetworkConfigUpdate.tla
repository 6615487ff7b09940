------------------------ MODULE NetworkConfigUpdate ------------------------
(***************************************************************************)
(* How a member of a network takes over the configurations its controller  *)
(* sends: Network::handleConfigChunk and setConfiguration of               *)
(* src/generator/node/Network.cpp, with the handlers of IncomingPacket.cpp *)
(* that call them.                                                         *)
(*                                                                         *)
(* A configuration arrives in signed chunks, or in one unsigned packet of  *)
(* an older controller (legacy).  Chunks are put together in a few slots   *)
(* under Network::_lock; the finished configuration is then compared,      *)
(* installed, handed to the port and saved, and only the installation is   *)
(* under the lock.  An error of the controller is noted and handed to the  *)
(* port under the lock.  Chunks whose signature fails change nothing and   *)
(* are left out; all chunks count as one byte long.                        *)
(***************************************************************************)
EXTENDS Naturals, FiniteSets

CONSTANTS
    Threads,        \* threads that receive packets
    MaxUpdates,     \* ZT_NETWORK_MAX_INCOMING_UPDATES
    MaxChunks,      \* ZT_NETWORK_MAX_UPDATE_CHUNKS
    Updates,        \* what controllers send: see UpdateType
    MaxReceived     \* bound of the model: chunks received

UpdateType == [id : Nat \ {0}, total : 1..MaxChunks, rev : Nat \ {0},
               forUs : BOOLEAN,     \* issuedTo and networkId are ours
               legacy : BOOLEAN, fast : BOOLEAN]

ASSUME SizesAssumption ==
    /\ MaxUpdates \in Nat \ {0}
    /\ MaxChunks \in Nat \ {0}
    /\ MaxReceived \in Nat
ASSUME UpdatesAssumption ==
    /\ Updates \subseteq UpdateType
    /\ \A u \in Updates : u.legacy => u.total = 1 /\ ~u.fast
    /\ \A u, v \in Updates : u.id = v.id => u = v

Slots == 1..MaxUpdates
Indices == 0..MaxChunks - 1
Chunks == {c \in [update : Updates, index : Indices] : c.index < c.update.total}
Chunk(u, i) == [update |-> u, index |-> i]
None == [update |-> [id |-> 0], index |-> 0]

(* A NetworkConfig: rev 0 is no configuration.  setAuthenticationRequired  *)
(* sets the sso flag of the one that is installed.                         *)
Config == [rev : Nat, sso : BOOLEAN]
ConfigOf(u) == [rev |-> u.rev, sso |-> FALSE]
NoConfig == [rev |-> 0, sso |-> FALSE]

(* What is saved of a configuration: an error of the controller is not.    *)
SavedConfig == [rev : Nat, sso : {FALSE}]
Saved(c) == [c EXCEPT !.sso = FALSE]

Slot == [ts : Nat, updateId : Nat, have : SUBSET Chunks, count : 0..MaxChunks,
         data : [Indices -> Chunks \union {None}]]
EmptySlot == [ts |-> 0, updateId |-> 0, have |-> {}, count |-> 0,
              data |-> [i \in Indices |-> None]]

VARIABLES
    slots,          \* _incomingConfigChunks
    config,         \* _config
    failure,        \* _netconfFailure
    leave,          \* how far Node::leave is with the network
    port,           \* the configuration and status the port was last told
    disk,           \* the saved configuration
    thread,         \* where each thread is: [step, update]
    received,       \* history: number of chunks received
    streak,         \* history: chunks received of one update, without one
                    \*   of another update in between
    assembled,      \* history: every dictionary that was put together
    floods,         \* history: how often each chunk was passed on
    overlapped      \* history: steps of others came between those of a thread

network == <<config, failure, leave, port, disk>>
history == <<received, streak, assembled, floods, overlapped>>
vars == <<slots, network, thread, history>>

Steps == {"idle", "compare", "install", "port", "save"}
LeaveSteps == {"no", "destroyed", "port down", "gone"}
destroyed == leave # "no"
Failures == {"NONE", "ACCESS_DENIED", "NOT_FOUND", "AUTHENTICATION_REQUIRED"}

(* _externalConfig, and what the port has after it was destroyed.          *)
Told(c, f) == [config |-> c, failure |-> f]
NoPort == [config |-> NoConfig, failure |-> "DESTROYED"]
PortType == [config : Config, failure : Failures] \union {NoPort}
Idle == [step |-> "idle", update |-> None.update]

TypeOK ==
    /\ slots \in [Slots -> Slot]
    /\ \A s \in Slots : \A c \in slots[s].have : c.update.id = slots[s].updateId
    /\ config \in Config /\ port \in PortType /\ disk \in SavedConfig
    /\ failure \in Failures
    /\ leave \in LeaveSteps
    /\ thread \in [Threads -> {Idle} \union [step : Steps \ {"idle"}, update : Updates]]
    /\ received \in 0..MaxReceived
    /\ streak \in [update : Updates \union {None.update}, chunks : SUBSET Chunks]
    /\ \A c \in streak.chunks : c.update = streak.update
    /\ floods \in [Chunks -> Nat]
    /\ overlapped \in BOOLEAN

Init ==
    /\ slots = [s \in Slots |-> EmptySlot]
    /\ config = NoConfig
    /\ failure = "NONE"
    /\ leave = "no"
    /\ port = Told(NoConfig, "NONE")
    /\ disk = NoConfig
    /\ thread = [t \in Threads |-> Idle]
    /\ received = 0
    /\ streak = [update |-> None.update, chunks |-> {}]
    /\ assembled = {}
    /\ floods = [c \in Chunks |-> 0]
    /\ overlapped = FALSE

----------------------------------------------------------------------------
Matching(c) == {s \in Slots : slots[s].updateId = c.update.id}

(* The first of the slots with the lowest ts.                              *)
IsOldest(s) ==
    \A r \in Slots : /\ slots[s].ts <= slots[r].ts
                     /\ slots[s].ts = slots[r].ts => s <= r

(* Mutant of SlotFor: a chunk always starts in the oldest slot.            *)
SlotFor_AlwaysOldest(c, s) == IsOldest(s)

(* The slot a chunk goes to.  A legacy configuration takes the oldest one. *)
SlotFor(c, s) ==
    IF ~c.update.legacy /\ Matching(c) # {}
    THEN s \in Matching(c) /\ \A r \in Matching(c) : s <= r
    ELSE IsOldest(s)

IsDuplicate(c, s) ==
    /\ ~c.update.legacy
    /\ slots[s].updateId = c.update.id
    /\ c \in slots[s].have

(* Mutant of Prepared: the bytes of the other update stay counted.         *)
Prepared_KeepsCount(s, c) ==
    LET counted == [slots[s] EXCEPT !.ts = @ + 1]
    IN  IF counted.updateId = c.update.id THEN counted
        ELSE [counted EXCEPT !.updateId = c.update.id, !.have = {}]

(* Mutant of Prepared: the chunk IDs of the other update stay.             *)
Prepared_KeepsChunkIds(s, c) ==
    LET counted == [slots[s] EXCEPT !.ts = @ + 1]
    IN  IF counted.updateId = c.update.id THEN counted
        ELSE [counted EXCEPT !.updateId = c.update.id, !.count = 0]

(* The slot is counted up, and starts over if it held another update.      *)
Prepared(s, c) ==
    LET counted == [slots[s] EXCEPT !.ts = @ + 1]
    IN  IF counted.updateId = c.update.id THEN counted
        ELSE [counted EXCEPT !.updateId = c.update.id, !.have = {}, !.count = 0]

HasRoom(slot) == slot.count < MaxChunks

Filled(slot, c) ==
    [slot EXCEPT !.have = @ \union {c}, !.count = @ + 1,
                 !.data = [@ EXCEPT ![c.index] = c]]

Dictionary(slot) == [i \in 0..slot.count - 1 |-> slot.data[i]]
Whole(u) == [i \in 0..u.total - 1 |-> Chunk(u, i)]

(* handleConfigChunk under Network::_lock.  A dictionary that does not     *)
(* parse yields no configuration.                                          *)
HandleChunk(t, c) ==
    /\ thread[t].step = "idle"
    /\ received < MaxReceived
    /\ ~destroyed
    /\ received' = received + 1
    /\ streak' = [update |-> c.update,
                  chunks |-> IF streak.update = c.update
                             THEN streak.chunks \union {c} ELSE {c}]
    /\ \E s \in Slots :
        /\ SlotFor(c, s)
        /\ IF IsDuplicate(c, s)
           THEN UNCHANGED <<slots, thread, assembled, floods>>
           ELSE LET ready == Prepared(s, c)
                    full == Filled(ready, c)
                IN  /\ floods' = [floods EXCEPT ![c] =
                                      IF c.update.fast THEN @ + 1 ELSE @]
                    /\ IF ~HasRoom(ready)
                       THEN /\ slots' = [slots EXCEPT ![s] = ready]
                            /\ UNCHANGED <<thread, assembled>>
                       ELSE /\ slots' = [slots EXCEPT ![s] = full]
                            /\ IF full.count = c.update.total
                               THEN /\ assembled' = assembled \union {Dictionary(full)}
                                    /\ thread' = IF Dictionary(full) = Whole(c.update)
                                          THEN [thread EXCEPT ![t] =
                                                  [step |-> "compare", update |-> c.update]]
                                          ELSE thread
                               ELSE UNCHANGED <<thread, assembled>>
    /\ overlapped' = \/ overlapped
                      \/ /\ thread'[t] # Idle
                         /\ \E u \in Threads \ {t} : thread[u] # Idle
    /\ UNCHANGED network

----------------------------------------------------------------------------
(* The thread leaves setConfiguration, and handleConfigChunk returns the   *)
(* update ID whatever the result was.                                      *)
Return(t) == thread' = [thread EXCEPT ![t] = Idle]

(* setConfiguration before it takes the lock: refuse, find that nothing    *)
(* changes, or go on.                                                      *)
Compare(t) ==
    LET u == thread[t].update
    IN  /\ thread[t].step = "compare"
        /\ \/ /\ destroyed \/ ~u.forUs \/ config = ConfigOf(u)
              /\ Return(t)
           \/ /\ ~destroyed /\ u.forUs /\ config # ConfigOf(u)
              /\ thread' = [thread EXCEPT ![t].step = "install"]
        /\ UNCHANGED <<slots, network, history>>

(* Under the lock.  An update that is installed alone replaces whatever    *)
(* came of others that were not.                                           *)
Install(t) ==
    /\ thread[t].step = "install"
    /\ config' = ConfigOf(thread[t].update)
    /\ failure' = "NONE"
    /\ thread' = [thread EXCEPT ![t].step = "port"]
    /\ overlapped' = (overlapped /\ (destroyed \/ \E u \in Threads \ {t} : thread[u] # Idle))
    /\ UNCHANGED <<slots, leave, port, disk, received, streak, assembled, floods>>

(* Mutant of ConfigurePort: an error of the port ends setConfiguration.    *)
ConfigurePort_NotSaved(t) ==
    /\ thread[t].step = "port"
    /\ port' = Told(ConfigOf(thread[t].update), "NONE")
    /\ thread' = [thread EXCEPT ![t] = Idle]
    /\ UNCHANGED <<slots, config, failure, leave, disk, history>>

(* The virtual network port callback, with what was installed.             *)
ConfigurePort(t) ==
    /\ thread[t].step = "port"
    /\ port' = Told(ConfigOf(thread[t].update), "NONE")
    /\ thread' = [thread EXCEPT ![t].step = "save"]
    /\ UNCHANGED <<slots, config, failure, leave, disk, history>>

Save(t) ==
    /\ thread[t].step = "save"
    /\ disk' = ConfigOf(thread[t].update)
    /\ Return(t)
    /\ UNCHANGED <<slots, config, failure, leave, port, history>>

----------------------------------------------------------------------------
(* _sendUpdateEvent: the port is told what there is now, also by a handler *)
(* that found the network before it was left.  That overtakes a thread     *)
(* which has yet to tell the port what it installed.                       *)
SendUpdateEvent ==
    /\ port' = Told(config', failure')
    /\ overlapped' = \/ overlapped
                      \/ leave \in {"port down", "gone"}
                      \/ \E t \in Threads : thread[t].step = "port"
    /\ UNCHANGED <<slots, leave, disk, thread, received, streak, assembled, floods>>

(* setAccessDenied, setNotFound: an ERROR from the controller.             *)
Refused(why) ==
    /\ why \in {"ACCESS_DENIED", "NOT_FOUND"}
    /\ failure' = why
    /\ UNCHANGED config
    /\ SendUpdateEvent

SetAuthenticationRequired ==
    /\ failure' = "AUTHENTICATION_REQUIRED"
    /\ config' = [config EXCEPT !.sso = TRUE]
    /\ SendUpdateEvent

(* Node::leave: destroy() and then, without any lock of the network, the   *)
(* DESTROY operation of the port and the deletion of what was saved.  A    *)
(* thread that is in setConfiguration can bring either back.               *)
Undoes(steps) == \E t \in Threads : thread[t].step \in steps

Leave ==
    /\ \/ /\ leave = "no" /\ leave' = "destroyed"
          /\ UNCHANGED <<port, disk, overlapped>>
       \/ /\ leave = "destroyed" /\ leave' = "port down"
          /\ port' = NoPort
          /\ overlapped' = (overlapped \/ Undoes({"install", "port"}))
          /\ UNCHANGED disk
       \/ /\ leave = "port down" /\ leave' = "gone"
          /\ disk' = NoConfig
          /\ overlapped' = (overlapped \/ Undoes({"install", "port", "save"}))
          /\ UNCHANGED port
    /\ UNCHANGED <<slots, config, failure, thread, received, streak, assembled, floods>>

(* The process ends at any point before the network is left, and           *)
(* Network::Network starts from the disk.                                  *)
Restart ==
    /\ ~destroyed
    /\ slots' = [s \in Slots |-> EmptySlot]
    /\ config' = disk
    /\ port' = Told(disk, "NONE")
    /\ failure' = "NONE"
    /\ thread' = [t \in Threads |-> Idle]
    /\ streak' = [update |-> None.update, chunks |-> {}]
    /\ overlapped' = FALSE
    /\ UNCHANGED <<leave, disk, received, assembled, floods>>

Next ==
    \/ \E t \in Threads :
        \/ \E c \in Chunks : HandleChunk(t, c)
        \/ Compare(t) \/ Install(t) \/ ConfigurePort(t) \/ Save(t)
    \/ \E why \in Failures : Refused(why)
    \/ SetAuthenticationRequired
    \/ Leave
    \/ Restart

Spec == Init /\ [][Next]_vars

----------------------------------------------------------------------------
(* Whatever is handed to fromDictionary() is the whole of one update: with *)
(* updates interleaved, slots taken over and chunks repeated, nothing that *)
(* another update left in a slot gets into it (handleConfigChunk).         *)
NoMixedConfig == \A d \in assembled : \E u \in Updates : d = Whole(u)

(* Whenever no update is being taken over, the port was told what there    *)
(* is in memory, the error the controller sent last included, and what is  *)
(* saved is the configuration in memory, but for the sso flag an error     *)
(* sets; after leave the port and the file are gone.  Through refusals,    *)
(* restarts and duplicates, and restored by the next update that is        *)
(* installed alone - unless two threads took over updates at once, an      *)
(* error came between an installation and its report to the port, or leave *)
(* met a thread on its way or was followed by an error: there the code     *)
(* does leave them apart (setConfiguration, _sendUpdateEvent, Node::leave).*)
Agreement ==
    ~overlapped /\ (\A t \in Threads : thread[t] = Idle) =>
        /\ port = IF leave \in {"no", "destroyed"} THEN Told(config, failure) ELSE NoPort
        /\ disk = IF leave = "gone" THEN NoConfig ELSE Saved(config)

(* When all chunks of an update arrive, in any order and with duplicates,  *)
(* and nothing of another update in between, the update is put together,   *)
(* whatever the slots held before (handleConfigChunk).                     *)
NothingLost ==
    \A u \in Updates :
        {c \in Chunks : c.update = u} = streak.chunks => Whole(u) \in assembled

=============================================================================
