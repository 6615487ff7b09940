------------------------------ MODULE RxQueue ------------------------------
(***************************************************************************)
(* Reassembly of fragmented packets and deferral of packets that cannot be *)
(* decoded yet: Switch::_rxQueue, src/generator/node/Switch.{hpp,cpp}.     *)
(*                                                                         *)
(* Several threads call Switch::onRemotePacket.  Each looks for an entry   *)
(* without any lock (Lookup), takes a new one if it found none (Claim) and *)
(* works on it under the entry's own lock (Process...): between two of     *)
(* these steps every other thread may run.  Pieces arrive lost, repeated   *)
(* and in any order.                                                       *)
(***************************************************************************)
EXTENDS Naturals, FiniteSets, Sequences

CONSTANTS
    Threads,        \* threads that read from the sockets
    QueueSize,      \* ZT_RX_QUEUE_SIZE
    MaxFragments,   \* ZT_MAX_PACKET_FRAGMENTS
    Transmissions,  \* packets as sent: [id |-> packet ID, total |-> fragments]
    MaxArrivals     \* bound of the model: how often a piece of each is received

ASSUME SizesAssumption == QueueSize \in Nat \ {0} /\ MaxFragments \in Nat \ {0}
ASSUME TransmissionsAssumption ==
    Transmissions \subseteq [id : Nat \ {0}, total : 1..MaxFragments]

Slots == 0..QueueSize - 1
Numbers == 0..MaxFragments - 1

(* Piece 0 is the head, the others are Packet::Fragments.                  *)
Pieces == {p \in [tx : Transmissions, no : Numbers] : p.no < p.tx.total}
Piece(tx, no) == [tx |-> tx, no |-> no]
NoPiece == [tx |-> [id |-> 0, total |-> 1], no |-> 0]
Content == Pieces \union {NoPiece}

(* An RXQueueEntry.  inUse is timestamp # 0, have the bits of              *)
(* haveFragments; packet ID 0 is on no packet, and is what the memory of   *)
(* the Switch holds at first.                                              *)
Entry == [inUse : BOOLEAN, id : Nat, frag0 : Seq(Content),
          frags : [Numbers \ {0} -> Content],
          total : 0..MaxFragments, have : SUBSET Numbers, complete : BOOLEAN]
FreeEntry == [inUse |-> FALSE, id |-> 0, frag0 |-> <<>>,
              frags |-> [i \in Numbers \ {0} |-> NoPiece],
              total |-> 0, have |-> {}, complete |-> FALSE]

VARIABLES
    queue,      \* _rxQueue
    ptr,        \* _rxQueuePtr modulo QueueSize, which divides 2^32
    thread,     \* what each thread is doing: [step, piece, at]
    arrivals,   \* history: how often each piece was received
    decoded,    \* history: how often each transmission was decoded
    assembled,  \* history: every packet that was put together
    window,     \* history: entries claimed since its first piece, up to
                \*   QueueSize + 1
    givenUp,    \* history: transmissions that timed out in the queue
    raced       \* history: transmissions a piece of which was in one thread's
                \*   hands while another thread was at work

history == <<arrivals, decoded, assembled, window, givenUp, raced>>
vars == <<queue, ptr, thread, history>>

Idle == [step |-> "idle", piece |-> NoPiece, at |-> 0]

TypeOK ==
    /\ queue \in [Slots -> Entry]
    /\ ptr \in Slots
    /\ thread \in [Threads -> [step : {"idle", "claim", "process"},
                               piece : Content, at : Slots]]
    /\ \A t \in Threads : thread[t].step # "idle" => thread[t].piece \in Pieces
    /\ arrivals \in [Pieces -> Nat]
    /\ decoded \in [Transmissions -> Nat]
    /\ assembled \subseteq Seq(Content)
    /\ window \in [Transmissions -> 0..QueueSize + 1]
    /\ givenUp \subseteq Transmissions
    /\ raced \subseteq Transmissions

Init ==
    /\ queue = [s \in Slots |-> FreeEntry]
    /\ ptr = 0
    /\ thread = [t \in Threads |-> Idle]
    /\ arrivals = [p \in Pieces |-> 0]
    /\ decoded = [tx \in Transmissions |-> 0]
    /\ assembled = {}
    /\ window = [tx \in Transmissions |-> 0]
    /\ givenUp = {}
    /\ raced = {}

----------------------------------------------------------------------------
Whole(tx) == <<Piece(tx, 0)>> \o [i \in 1..tx.total - 1 |-> Piece(tx, i)]

(* Only a packet made of exactly its own pieces passes dearmor().          *)
CountDecoded(packet) ==
    decoded' = [tx \in Transmissions |->
                   IF packet = Whole(tx) THEN decoded[tx] + 1 ELSE decoded[tx]]

(* The entry k places behind the one that is next.                         *)
Behind(k) == (ptr + QueueSize - k) % QueueSize

(* Mutant of Matches: the scan starts one entry too far back.              *)
Matches_SkipsNewest(id) ==
    {k \in 2..QueueSize : queue[Behind(k)].inUse /\ queue[Behind(k)].id = id}

Matches(id) ==
    {k \in 1..QueueSize : queue[Behind(k)].inUse /\ queue[Behind(k)].id = id}

InHand(tx) == \E t \in Threads : thread[t].step # "idle" /\ thread[t].piece.tx = tx

(* Thread t takes up a piece while others are at work.                     *)
NoteRace(t, p) ==
    raced' = IF \A u \in Threads \ {t} : thread[u].step = "idle" THEN raced
             ELSE raced \union {tx \in Transmissions : tx = p.tx \/ InHand(tx)}

Started(tx) == \E p \in Pieces : p.tx = tx /\ arrivals'[p] > 0

(* Mutant of Advance: the pointer runs past the last entry.                *)
Advance_NoWrap ==
    /\ ptr' = ptr + 1
    /\ window' = [tx \in Transmissions |->
            IF Started(tx) /\ window[tx] <= QueueSize THEN window[tx] + 1
            ELSE window[tx]]

(* The pointer moves on to the next entry.                                 *)
Advance ==
    /\ ptr' = (ptr + 1) % QueueSize
    /\ window' = [tx \in Transmissions |->
            IF Started(tx) /\ window[tx] <= QueueSize THEN window[tx] + 1
            ELSE window[tx]]

(* A head or a fragment arrives: _findRXQueueEntry loads the pointer and   *)
(* scans the queue.  A claim it must make uses the value it loaded.        *)
Lookup(t, p) ==
    /\ thread[t].step = "idle"
    /\ p.tx.total > 1
    /\ arrivals[p] < MaxArrivals[p.tx]
    /\ \/ \E k \in Matches(p.tx.id) :
             /\ \A j \in Matches(p.tx.id) : k <= j
             /\ thread' = [thread EXCEPT ![t] =
                    [step |-> "process", piece |-> p, at |-> Behind(k)]]
       \/ /\ Matches(p.tx.id) = {}
          /\ thread' = [thread EXCEPT ![t] =
                    [step |-> "claim", piece |-> p, at |-> ptr]]
    /\ arrivals' = [arrivals EXCEPT ![p] = @ + 1]
    /\ NoteRace(t, p)
    /\ UNCHANGED <<queue, ptr, decoded, assembled, window, givenUp>>

(* ... and increments it.                                                  *)
Claim(t) ==
    /\ thread[t].step = "claim"
    /\ thread' = [thread EXCEPT ![t].step = "process"]
    /\ UNCHANGED <<queue, arrivals, decoded, assembled, givenUp, raced>>
    /\ Advance

(* An unfragmented packet arrives and is decoded at once, or takes the     *)
(* next entry (_nextRXQueueEntry).  Whether tryDecode() is done with a     *)
(* packet depends on the rest of the node: ok is either.                   *)
ReceiveWhole(t, p) ==
    /\ thread[t].step = "idle"
    /\ p.tx.total = 1
    /\ arrivals[p] < MaxArrivals[p.tx]
    /\ arrivals' = [arrivals EXCEPT ![p] = @ + 1]
    /\ \/ /\ CountDecoded(<<p>>)
          /\ UNCHANGED <<ptr, thread, window>>
       \/ /\ Advance
          /\ thread' = [thread EXCEPT ![t] = [step |-> "process", piece |-> p, at |-> ptr]]
          /\ UNCHANGED decoded
    /\ NoteRace(t, p)
    /\ UNCHANGED <<queue, assembled, givenUp>>

----------------------------------------------------------------------------
(* Mutant of Overwrite: a head does not take over the packet ID.           *)
Overwrite_KeepsId(e, p) ==
    IF p.no = 0
    THEN [e EXCEPT !.inUse = TRUE, !.frag0 = <<p>>, !.total = 0,
                   !.have = {0}, !.complete = FALSE]
    ELSE [e EXCEPT !.inUse = TRUE, !.id = p.tx.id, !.frags[p.no] = p,
                   !.total = p.tx.total, !.have = {p.no}, !.complete = FALSE]

(* The entry has another packet, or none: overwrite it.  What the fields   *)
(* that are not assigned held stays there.                                 *)
Overwrite(e, p) ==
    IF p.no = 0
    THEN [e EXCEPT !.inUse = TRUE, !.id = p.tx.id, !.frag0 = <<p>>, !.total = 0,
                   !.have = {0}, !.complete = FALSE]
    ELSE [e EXCEPT !.inUse = TRUE, !.id = p.tx.id, !.frags[p.no] = p,
                   !.total = p.tx.total, !.have = {p.no}, !.complete = FALSE]

(* The entry has this packet without this piece: add it.                   *)
Add(e, p) ==
    IF p.no = 0
    THEN [e EXCEPT !.frag0 = <<p>>, !.have = IF e.total > 1 THEN @ \union {0} ELSE @]
    ELSE [e EXCEPT !.frags[p.no] = p, !.total = p.tx.total, !.have = @ \union {p.no}]

AllFragments(e) == e.total > 1 /\ Cardinality(e.have) = e.total

(* The fragments appended to the head.                                     *)
Assemble(e) == [e EXCEPT !.frag0 = @ \o [i \in 1..e.total - 1 |-> e.frags[i]]]

(* The entry after tryDecode(): free, or kept until something changes.     *)
Decode(s, e) ==
    \/ /\ queue' = [queue EXCEPT ![s] = [e EXCEPT !.inUse = FALSE]]
       /\ CountDecoded(e.frag0)
    \/ /\ queue' = [queue EXCEPT ![s] = [e EXCEPT !.complete = TRUE]]
       /\ UNCHANGED decoded

(* onRemotePacket under the lock of the entry, for a head or a fragment.   *)
Process(t) ==
    LET p == thread[t].piece
        s == thread[t].at
        e == queue[s]
        added == Add(e, p)
    IN  /\ thread[t].step = "process"
        /\ p.tx.total > 1
        /\ \/ /\ e.id # p.tx.id
              /\ queue' = [queue EXCEPT ![s] = Overwrite(e, p)]
              /\ UNCHANGED <<decoded, assembled>>
           \/ /\ e.id = p.tx.id
              /\ p.no \in e.have                \* a duplicate, ignored
              /\ UNCHANGED <<queue, decoded, assembled>>
           \/ /\ e.id = p.tx.id
              /\ p.no \notin e.have
              /\ ~AllFragments(added)
              /\ queue' = [queue EXCEPT ![s] = added]
              /\ UNCHANGED <<decoded, assembled>>
           \/ /\ e.id = p.tx.id
              /\ p.no \notin e.have
              /\ AllFragments(added)
              /\ Decode(s, Assemble(added))
              /\ assembled' = assembled \union {Assemble(added).frag0}
        /\ thread' = [thread EXCEPT ![t] = Idle]
        /\ UNCHANGED <<ptr, arrivals, window, givenUp, raced>>

(* The same for an unfragmented packet that was not decoded.               *)
ProcessWhole(t) ==
    LET p == thread[t].piece
    IN  /\ thread[t].step = "process"
        /\ p.tx.total = 1
        /\ queue' = [queue EXCEPT ![thread[t].at] =
                [@ EXCEPT !.inUse = TRUE, !.id = p.tx.id, !.frag0 = <<p>>,
                          !.total = 1, !.have = {0}, !.complete = TRUE]]
        /\ thread' = [thread EXCEPT ![t] = Idle]
        /\ UNCHANGED <<ptr, history>>

(* Mutant of Retry: a decoded packet stays in the queue.                   *)
Retry_KeepsEntry(s) ==
    /\ queue[s].inUse
    /\ queue[s].complete
    /\ CountDecoded(queue[s].frag0)
    /\ UNCHANGED <<queue, ptr, thread, arrivals, assembled, window, givenUp, raced>>

(* One entry of the loops of doTimerTasks and doAnythingWaitingForPeer:    *)
(* decoded, given up after ZT_RECEIVE_QUEUE_TIMEOUT, or left as it is.     *)
Retry(s) ==
    /\ queue[s].inUse
    /\ queue[s].complete
    /\ queue' = [queue EXCEPT ![s].inUse = FALSE]
    /\ \/ CountDecoded(queue[s].frag0) /\ UNCHANGED givenUp
       \/ /\ givenUp' = givenUp \union
                {tx \in Transmissions : tx.id = queue[s].id}
          /\ UNCHANGED decoded
    /\ UNCHANGED <<ptr, thread, arrivals, assembled, window, raced>>

Next ==
    \/ \E t \in Threads :
        \/ \E p \in Pieces : Lookup(t, p) \/ ReceiveWhole(t, p)
        \/ Claim(t) \/ Process(t) \/ ProcessWhole(t)
    \/ \E s \in Slots : Retry(s)

Spec == Init /\ [][Next]_vars

----------------------------------------------------------------------------
(* Whatever a thread does between the lookup and the lock of another, a    *)
(* packet that is put together, or held until it can be decoded, is        *)
(* exactly the pieces of one transmission: no piece is missing, left over  *)
(* from the packet that had the entry before, or somebody else's.  (The    *)
(* comment at both places of onRemotePacket: "We have all fragments --     *)
(* assemble and process full Packet".)                                     *)
AssembledWhole ==
    LET packets == assembled \union
            {queue[s].frag0 : s \in {s \in Slots : queue[s].inUse /\ queue[s].complete}}
    IN  \A packet \in packets : \E tx \in Transmissions : packet = Whole(tx)

(* A transmission is decoded no more often than each of its pieces was     *)
(* received: neither a retry, nor a duplicate that races it, nor an entry  *)
(* used again replays a packet.                                            *)
DecodedOncePerCopy ==
    \A p \in Pieces : decoded[p.tx] <= arrivals[p]

Held(tx) == \E s \in Slots :
    queue[s].inUse /\ queue[s].complete /\ queue[s].frag0 = Whole(tx)

(* A packet all of whose pieces arrived, in any order, before the ring     *)
(* went around, and while no two threads were at work at once, is decoded  *)
(* or kept for a retry, whatever the threads did before and after.         *)
NothingLost ==
    \A tx \in Transmissions :
        /\ \A p \in Pieces : p.tx = tx => arrivals[p] > 0
        /\ window[tx] <= QueueSize
        /\ tx \notin givenUp
        /\ tx \notin raced
        /\ ~InHand(tx)
        => decoded[tx] > 0 \/ Held(tx)
=============================================================================
