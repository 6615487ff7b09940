--------------------- MODULE NetworkConfigUpdateProofs ---------------------
(***************************************************************************)
(* A member's configuration is put together from the chunks of one update, *)
(* none is lost that should not be, and memory, port and disk agree: for   *)
(* any number of threads, slots and chunks and any set of updates.         *)
(***************************************************************************)
EXTENDS NetworkConfigUpdate, FiniteSetTheorems, TLAPS

USE SizesAssumption, UpdatesAssumption

ChunksOf(u) == {c \in Chunks : c.update = u}

(* What a slot holds is stored where its index says.                       *)
Stored(slot) == \A c \in slot.have : slot.data[c.index] = c

(* A slot with a chunked update counts what it has; when it has all of it  *)
(* the update was put together.                                            *)
Counted(slot, done) ==
    \A u \in Updates :
        ~u.legacy /\ slot.updateId = u.id =>
            /\ IsFiniteSet(slot.have)
            /\ slot.count = Cardinality(slot.have)
            /\ slot.have = ChunksOf(u) => Whole(u) \in done

(* A slot with a legacy configuration has put it together.                 *)
LegacyDone(slot, done) ==
    \A u \in Updates :
        u.legacy /\ slot.updateId = u.id => slot.count > 0 /\ Whole(u) \in done

SlotInv(slot, done) == Stored(slot) /\ Counted(slot, done) /\ LegacyDone(slot, done)

(* The chunks that arrived without one of another update in between are    *)
(* in the slot in which the next one is looked for.                        *)
InSlot(u, s) ==
    /\ slots[s].updateId = u.id
    /\ \A r \in Slots : slots[r].updateId = u.id => s <= r
    /\ streak.chunks \subseteq slots[s].have

StreakInv ==
    streak.chunks # {} =>
        IF streak.update.legacy THEN Whole(streak.update) \in assembled
        ELSE \E s \in Slots : InSlot(streak.update, s)

ReassemblyInv ==
    /\ TypeOK
    /\ \A s \in Slots : SlotInv(slots[s], assembled)
    /\ StreakInv
    /\ NoMixedConfig

(* While nothing came between the steps of a thread, the one that takes    *)
(* over an update tells how far memory, port and disk have got, and it is  *)
(* not on its way to bring back what leave took down.                      *)
Busy(t) == thread[t] # Idle

PortOf == IF leave \in {"no", "destroyed"} THEN Told(config, failure) ELSE NoPort
DiskOf == IF leave = "gone" THEN NoConfig ELSE Saved(config)

ThreadInv(t) ==
    LET step == thread[t].step
    IN  /\ step = "port" => config = ConfigOf(thread[t].update) /\ failure = "NONE"
        /\ step = "save" => Saved(config) = ConfigOf(thread[t].update)
        /\ leave \in {"port down", "gone"} => step \notin {"install", "port"}
        /\ leave = "gone" => step # "save"

AgreementInv ==
    ~overlapped =>
        /\ \A t, u \in Threads : Busy(t) /\ Busy(u) => t = u
        /\ \A t \in Threads : ThreadInv(t)
        /\ (\A t \in Threads : thread[t].step # "port") => port = PortOf
        /\ (\A t \in Threads : thread[t].step \notin {"port", "save"}) => disk = DiskOf

----------------------------------------------------------------------------
LEMMA ChunkFacts ==
    ASSUME NEW c \in Chunks
    PROVE  /\ c.update \in Updates
           /\ c.update.id \in Nat \ {0}
           /\ c.update.total \in 1..MaxChunks
           /\ c.update.legacy => c.update.total = 1
           /\ c.index \in Indices
           /\ c.index \in 0..c.update.total - 1
           /\ c = Chunk(c.update, c.index)
<1>1. c \in [update : Updates, index : Indices] /\ c.index < c.update.total
    BY DEF Chunks
<1>2. c.update \in UpdateType /\ c = Chunk(c.update, c.index)
    BY <1>1 DEF Chunk
<1> QED BY <1>1, <1>2 DEF UpdateType, Indices

LEMMA ChunkOf ==
    ASSUME NEW u \in Updates, NEW i \in 0..u.total - 1
    PROVE  Chunk(u, i) \in ChunksOf(u)
<1>1. u.total \in 1..MaxChunks
    BY DEF UpdateType
<1>2. i \in Indices /\ i < u.total
    BY <1>1 DEF Indices
<1> QED BY <1>2 DEF ChunksOf, Chunks, Chunk

LEMMA CountChunks ==
    ASSUME NEW u \in Updates
    PROVE  IsFiniteSet(ChunksOf(u)) /\ Cardinality(ChunksOf(u)) = u.total
<1> DEFINE I == 0..u.total - 1
           f == [i \in I |-> Chunk(u, i)]
<1>1. u.total \in 1..MaxChunks
    BY DEF UpdateType
<1>2. IsFiniteSet(I) /\ Cardinality(I) = u.total
    BY <1>1, FS_Interval
<1>3. f \in [I -> ChunksOf(u)]
    BY ChunkOf
<1>4. \A i, j \in I : f[i] = f[j] => i = j
    BY DEF Chunk
<1>5. \A c \in ChunksOf(u) : \E i \in I : f[i] = c
    BY ChunkFacts DEF ChunksOf
<1>6. ExistsBijection(I, ChunksOf(u))
    <2> HIDE DEF f, I
    <2> QED BY <1>3, <1>4, <1>5 DEF ExistsBijection, Bijection, Injection, Surjection, IsInjective
<1> QED BY <1>2, <1>6, FS_Bijection

(* Chunks of one update, as many as it has, are all of its chunks.         *)
LEMMA AllOfUpdate ==
    ASSUME NEW u \in Updates, NEW H \in SUBSET ChunksOf(u)
    PROVE  /\ IsFiniteSet(H)
           /\ Cardinality(H) \in Nat
           /\ Cardinality(H) <= u.total
           /\ Cardinality(H) = u.total <=> H = ChunksOf(u)
<1>1. IsFiniteSet(H)
    BY CountChunks, FS_Subset
<1> QED BY <1>1, CountChunks, FS_Subset, FS_CardinalityType

LEMMA PreparedFacts ==
    ASSUME TypeOK, NEW c \in Chunks, NEW s \in Slots
    PROVE  /\ Prepared(s, c) \in Slot
           /\ Prepared(s, c).updateId = c.update.id
           /\ Prepared(s, c).data = slots[s].data
           /\ slots[s].updateId = c.update.id =>
                 Prepared(s, c).have = slots[s].have /\ Prepared(s, c).count = slots[s].count
           /\ slots[s].updateId # c.update.id =>
                 Prepared(s, c).have = {} /\ Prepared(s, c).count = 0
<1>1. slots[s] \in Slot
    BY DEF TypeOK
<1>2. slots[s].ts + 1 \in Nat /\ 0 \in 0..MaxChunks /\ c.update.id \in Nat
    BY <1>1, ChunkFacts DEF Slot
<1>3. CASE slots[s].updateId = c.update.id
    BY <1>1, <1>2, <1>3 DEF Prepared, Slot
<1>4. CASE slots[s].updateId # c.update.id
    BY <1>1, <1>2, <1>4 DEF Prepared, Slot
<1> QED BY <1>3, <1>4

LEMMA FilledFacts ==
    ASSUME NEW slot \in Slot, NEW c \in Chunks, HasRoom(slot)
    PROVE  /\ Filled(slot, c) \in Slot
           /\ Filled(slot, c).updateId = slot.updateId
           /\ Filled(slot, c).have = slot.have \union {c}
           /\ Filled(slot, c).count = slot.count + 1
           /\ Filled(slot, c).data = [slot.data EXCEPT ![c.index] = c]
<1> DEFINE data == [slot.data EXCEPT ![c.index] = c]
           full == [slot EXCEPT !.have = @ \union {c}, !.count = @ + 1, !.data = data]
<1>1. data \in [Indices -> Chunks \union {None}]
    BY ChunkFacts DEF Slot
<1>2. slot.count + 1 \in 0..MaxChunks
    BY DEF Slot, HasRoom
<1>3. slot.have \union {c} \subseteq Chunks
    BY DEF Slot
<1>4. Filled(slot, c) = full
    BY DEF Filled, Slot
<1>5. /\ full \in Slot
      /\ full.updateId = slot.updateId
      /\ full.have = slot.have \union {c}
      /\ full.count = slot.count + 1
      /\ full.data = data
    <2> HIDE DEF data
    <2> QED BY <1>1, <1>2, <1>3 DEF Slot
<1> QED BY <1>4, <1>5

(* The slot a chunk is looked for in holds only chunks of its update, and  *)
(* a chunked one that is not whole yet has room for the next.              *)
LEMMA PreparedInv ==
    ASSUME TypeOK, NEW c \in Chunks, NEW s \in Slots, SlotInv(slots[s], assembled)
    PROVE  LET ready == Prepared(s, c)
               u == c.update
           IN  /\ \A k \in ready.have : k.update.id = u.id
               /\ ready.have \subseteq ChunksOf(u)
               /\ Stored(ready)
               /\ ~u.legacy => /\ IsFiniteSet(ready.have)
                               /\ ready.count = Cardinality(ready.have)
                               /\ ready.have = ChunksOf(u) => Whole(u) \in assembled
               /\ u.legacy => ready.count = 0 \/ Whole(u) \in assembled
<1> DEFINE ready == Prepared(s, c)
           u == c.update
<1>1. ready.have \subseteq slots[s].have /\ slots[s].have \subseteq Chunks
    BY PreparedFacts DEF TypeOK, Slot
<1>2. \A k \in ready.have : k.update.id = u.id
    BY PreparedFacts DEF TypeOK
<1>3. ready.have \subseteq ChunksOf(u)
    BY <1>1, <1>2, ChunkFacts DEF ChunksOf
<1>4. Stored(ready)
    BY <1>1, PreparedFacts DEF SlotInv, Stored
<1>5. ASSUME ~u.legacy
      PROVE  /\ IsFiniteSet(ready.have)
             /\ ready.count = Cardinality(ready.have)
             /\ ready.have = ChunksOf(u) => Whole(u) \in assembled
    <2>1. CASE slots[s].updateId = u.id
        BY <1>5, <2>1, ChunkFacts, PreparedFacts DEF SlotInv, Counted
    <2>2. CASE slots[s].updateId # u.id
        <3>1. ready.have = {} /\ ready.count = 0
            BY <2>2, PreparedFacts
        <3>2. ChunksOf(u) # {}
            BY ChunkFacts DEF ChunksOf
        <3> QED BY <3>1, <3>2, FS_EmptySet
    <2> QED BY <2>1, <2>2
<1>6. u.legacy => ready.count = 0 \/ Whole(u) \in assembled
    BY ChunkFacts, PreparedFacts DEF SlotInv, LegacyDone
<1> HIDE DEF ready, u
<1> QED BY <1>2, <1>3, <1>4, <1>5, <1>6 DEF ready, u

(* Storing a chunk that is not a duplicate: when the count says that the   *)
(* update is whole it is, and then it is put together.                     *)
LEMMA FilledInv ==
    ASSUME TypeOK, NEW c \in Chunks, NEW s \in Slots, SlotInv(slots[s], assembled),
           ~IsDuplicate(c, s), HasRoom(Prepared(s, c)),
           NEW done, assembled \subseteq done,
           LET full == Filled(Prepared(s, c), c)
           IN  full.count = c.update.total => Dictionary(full) \in done
    PROVE  LET full == Filled(Prepared(s, c), c)
           IN  /\ full \in Slot
               /\ full.updateId = c.update.id
               /\ \A k \in full.have : k.update.id = full.updateId
               /\ full.count = c.update.total => Dictionary(full) = Whole(c.update)
               /\ SlotInv(full, done)
<1> DEFINE ready == Prepared(s, c)
           full == Filled(ready, c)
           u == c.update
<1>0. u \in Updates /\ u.id \in Nat /\ u.total \in 1..MaxChunks /\ c = Chunk(u, c.index)
    BY ChunkFacts
<1>1. ready \in Slot /\ ready.updateId = u.id
    BY PreparedFacts
<1>2. /\ full \in Slot
      /\ full.updateId = u.id
      /\ full.have = ready.have \union {c}
      /\ full.count = ready.count + 1
      /\ full.data = [ready.data EXCEPT ![c.index] = c]
    BY <1>1, FilledFacts
<1>3. /\ \A k \in ready.have : k.update.id = u.id
      /\ ready.have \subseteq ChunksOf(u)
      /\ Stored(ready)
      /\ ~u.legacy => IsFiniteSet(ready.have) /\ ready.count = Cardinality(ready.have)
      /\ u.legacy => ready.count = 0 \/ Whole(u) \in assembled
    BY PreparedInv
<1>4. \A k \in full.have : k.update.id = u.id
    BY <1>2, <1>3
<1>5. full.have \subseteq ChunksOf(u)
    BY <1>2, <1>3 DEF ChunksOf
<1>6. c.index \in DOMAIN ready.data /\ \A k \in full.have : k = Chunk(u, k.index)
    BY <1>1, <1>5, ChunkFacts DEF Slot, ChunksOf
<1>7. Stored(full)
    BY <1>0, <1>2, <1>3, <1>6 DEF Stored
<1>8. ~u.legacy => /\ IsFiniteSet(full.have)
                   /\ full.count = Cardinality(full.have)
    <2>1. ASSUME ~u.legacy PROVE c \notin ready.have
        <3>1. CASE slots[s].updateId = u.id
            BY <2>1, <3>1, PreparedFacts DEF IsDuplicate
        <3>2. CASE slots[s].updateId # u.id
            BY <3>2, PreparedFacts
        <3> QED BY <3>1, <3>2
    <2>2. ASSUME NEW H, IsFiniteSet(H), c \notin H
          PROVE  IsFiniteSet(H \union {c}) /\ Cardinality(H \union {c}) = Cardinality(H) + 1
        BY <2>2, FS_AddElement
    <2> HIDE DEF ready, full
    <2> QED BY <1>2, <1>3, <2>1, <2>2
<1>9. ASSUME full.count = u.total
      PROVE  Dictionary(full) = Whole(u)
    <2>1. \A i \in 0..u.total - 1 : full.data[i] = Chunk(u, i)
        <3>1. CASE u.legacy
            <4>1. u.total = 1 /\ c.index = 0
                BY <3>1, ChunkFacts
            <4> QED BY <1>0, <1>2, <1>6, <4>1
        <3>2. CASE ~u.legacy
            <4>1. full.have = ChunksOf(u)
                BY <1>0, <1>5, <1>8, <1>9, <3>2, AllOfUpdate
            <4>2. \A i \in 0..u.total - 1 : Chunk(u, i) \in full.have /\ Chunk(u, i).index = i
                BY <1>0, <4>1, ChunkOf DEF Chunk
            <4> QED BY <1>7, <4>2 DEF Stored
        <3> QED BY <3>1, <3>2
    <2> QED BY <1>9, <2>1 DEF Dictionary, Whole
<1>10. Counted(full, done)
    <2> SUFFICES ASSUME ~u.legacy, full.have = ChunksOf(u) PROVE Whole(u) \in done
        BY <1>0, <1>2, <1>8 DEF Counted
    <2>1. full.count = u.total
        BY <1>0, <1>8, CountChunks
    <2> QED BY <1>9, <2>1
<1>11. LegacyDone(full, done)
    <2> SUFFICES ASSUME u.legacy PROVE full.count > 0 /\ Whole(u) \in done
        BY <1>0, <1>2 DEF LegacyDone
    <2>1. ready.count \in Nat /\ u.total = 1
        BY <1>1, ChunkFacts DEF Slot
    <2>2. ready.count = 0 => full.count = u.total
        BY <1>2, <2>1
    <2> QED BY <1>2, <1>3, <1>9, <2>1, <2>2
<1> HIDE DEF ready, full, u
<1> QED BY <1>2, <1>4, <1>7, <1>9, <1>10, <1>11 DEF SlotInv, ready, full, u

(* The slot a chunk of an update was put in is the first that the next     *)
(* one finds.                                                              *)
LEMMA FoundAgain ==
    ASSUME TypeOK, TypeOK', NEW c \in Chunks, ~c.update.legacy,
           NEW s \in Slots, SlotFor(c, s),
           slots'[s].updateId = c.update.id,
           \A r \in Slots \ {s} : slots'[r] = slots[r]
    PROVE  \A r \in Slots : slots'[r].updateId = c.update.id => s <= r
BY DEF SlotFor, Matching, Slots

(* The three outcomes of handleConfigChunk.                                *)
LEMMA HandleChunkCases ==
    ASSUME TypeOK, NEW t \in Threads, NEW c \in Chunks, HandleChunk(t, c)
    PROVE  \E s \in Slots :
              LET ready == Prepared(s, c)
                  full == Filled(ready, c)
              IN  /\ SlotFor(c, s)
                  /\ \/ /\ IsDuplicate(c, s)
                        /\ UNCHANGED <<slots, thread, assembled>>
                     \/ /\ ~IsDuplicate(c, s) /\ ~HasRoom(ready)
                        /\ slots' = [slots EXCEPT ![s] = ready]
                        /\ UNCHANGED <<thread, assembled>>
                     \/ /\ ~IsDuplicate(c, s) /\ HasRoom(ready)
                        /\ slots' = [slots EXCEPT ![s] = full]
                        /\ full.count = c.update.total =>
                              assembled' = assembled \union {Dictionary(full)}
                        /\ full.count # c.update.total =>
                              assembled' = assembled
BY DEF HandleChunk

LEMMA HandleChunkThread ==
    ASSUME TypeOK, NEW t \in Threads, NEW c \in Chunks, HandleChunk(t, c)
    PROVE  /\ thread[t] = Idle
           /\ \/ thread' = thread
              \/ thread' = [thread EXCEPT ![t] =
                               [step |-> "compare", update |-> c.update]]
<1>1. thread[t] = Idle
    BY DEF HandleChunk, TypeOK, Idle
<1> QED BY <1>1 DEF HandleChunk

----------------------------------------------------------------------------
LEMMA InitInv == Init => ReassemblyInv /\ AgreementInv
<1> SUFFICES ASSUME Init PROVE ReassemblyInv /\ AgreementInv
    OBVIOUS
<1>1. EmptySlot \in Slot
    BY DEF EmptySlot, Slot
<1>2. \A s \in Slots : slots[s] = EmptySlot
    BY DEF Init
<1>3. TypeOK
    <2>1. slots \in [Slots -> Slot]
        BY <1>1 DEF Init
    <2>2. \A s \in Slots : \A c \in slots[s].have : c.update.id = slots[s].updateId
        BY <1>2 DEF EmptySlot
    <2>3. config \in Config /\ port \in PortType /\ disk \in SavedConfig
        BY DEF Init, NoConfig, Config, PortType, Told, Failures, SavedConfig
    <2>4. failure \in Failures /\ leave \in LeaveSteps
        BY DEF Init, Failures, LeaveSteps
    <2>5. received \in 0..MaxReceived /\ floods \in [Chunks -> Nat]
        BY DEF Init
    <2>6. thread \in [Threads -> {Idle} \union [step : Steps \ {"idle"}, update : Updates]]
        BY DEF Init
    <2>7. /\ streak \in [update : Updates \union {None.update}, chunks : SUBSET Chunks]
          /\ \A c \in streak.chunks : c.update = streak.update
        BY DEF Init
    <2>8. overlapped \in BOOLEAN
        BY Zenon DEF Init
    <2> QED BY <2>1, <2>2, <2>3, <2>4, <2>5, <2>6, <2>7, <2>8 DEF TypeOK
<1>4. ASSUME NEW s \in Slots PROVE SlotInv(slots[s], assembled)
    <2>1. slots[s].have = {} /\ slots[s].updateId = 0
        BY <1>2 DEF EmptySlot
    <2>2. \A u \in Updates : u.id # 0
        BY DEF UpdateType
    <2> QED BY <2>1, <2>2 DEF SlotInv, Stored, Counted, LegacyDone
<1>5. StreakInv /\ NoMixedConfig
    BY DEF Init, StreakInv, NoMixedConfig
<1>6. AgreementInv
    <2>1. port = PortOf /\ disk = DiskOf
        BY DEF Init, PortOf, DiskOf, Saved, NoConfig
    <2>2. \A t \in Threads : thread[t] = Idle /\ thread[t].step = "idle"
        BY DEF Init, Idle
    <2>3. \A t \in Threads : ThreadInv(t) /\ ~Busy(t)
        BY <2>2 DEF ThreadInv, Busy
    <2> QED BY <2>1, <2>3 DEF AgreementInv
<1> QED BY <1>3, <1>4, <1>5, <1>6 DEF ReassemblyInv

LEMMA HandleChunkType ==
    ASSUME TypeOK, \A s \in Slots : SlotInv(slots[s], assembled),
           NEW t \in Threads, NEW c \in Chunks, HandleChunk(t, c)
    PROVE  TypeOK'
<1>1. slots' \in [Slots -> Slot] /\ \A r \in Slots : \A k \in slots'[r].have :
                                         k.update.id = slots'[r].updateId
    <2>0. PICK s \in Slots :
              LET ready == Prepared(s, c)
                  full == Filled(ready, c)
              IN  \/ UNCHANGED slots
                  \/ slots' = [slots EXCEPT ![s] = ready]
                  \/ ~IsDuplicate(c, s) /\ HasRoom(ready) /\ slots' = [slots EXCEPT ![s] = full]
        BY HandleChunkCases
    <2> DEFINE ready == Prepared(s, c)
               full == Filled(ready, c)
    <2>1. ready \in Slot /\ \A k \in ready.have : k.update.id = ready.updateId
        BY PreparedFacts, PreparedInv
    <2>2. ASSUME HasRoom(ready)
          PROVE  full \in Slot /\ \A k \in full.have : k.update.id = full.updateId
        <3>1. ready.updateId = c.update.id
            BY PreparedFacts
        <3> HIDE DEF ready
        <3>2. full \in Slot /\ full.updateId = ready.updateId
              /\ full.have = ready.have \union {c}
            BY <2>1, <2>2, FilledFacts
        <3> HIDE DEF full
        <3> QED BY <2>1, <3>1, <3>2
    <2> HIDE DEF ready, full
    <2>3. \/ UNCHANGED slots
          \/ slots' = [slots EXCEPT ![s] = ready]
          \/ ~IsDuplicate(c, s) /\ HasRoom(ready) /\ slots' = [slots EXCEPT ![s] = full]
        BY <2>0 DEF ready, full
    <2> QED BY <2>1, <2>2, <2>3 DEF TypeOK
<1>2. thread' \in [Threads -> {Idle} \union [step : Steps \ {"idle"}, update : Updates]]
    BY HandleChunkThread, ChunkFacts DEF TypeOK, Steps
<1>3. received' \in 0..MaxReceived
    BY DEF HandleChunk, TypeOK
<1>4. /\ streak' \in [update : Updates \union {None.update}, chunks : SUBSET Chunks]
      /\ \A k \in streak'.chunks : k.update = streak'.update
    BY ChunkFacts DEF HandleChunk, TypeOK
<1>5. floods' \in [Chunks -> Nat]
    BY DEF HandleChunk, TypeOK
<1>6. overlapped' \in BOOLEAN
    BY Zenon DEF HandleChunk
<1>7. UNCHANGED <<config, failure, leave, port, disk>>
    BY DEF HandleChunk, network
<1> QED BY <1>1, <1>2, <1>3, <1>4, <1>5, <1>6, <1>7 DEF TypeOK

LEMMA SlotsStep ==
    ASSUME TypeOK, \A s \in Slots : SlotInv(slots[s], assembled),
           NEW t \in Threads, NEW c \in Chunks, HandleChunk(t, c)
    PROVE  /\ \A s \in Slots : SlotInv(slots'[s], assembled')
           /\ assembled \subseteq assembled'
           /\ \A d \in assembled' : d \in assembled \/ d = Whole(c.update)
           /\ c.update.legacy => Whole(c.update) \in assembled'
           /\ ~c.update.legacy =>
                \E s \in Slots :
                    /\ SlotFor(c, s)
                    /\ slots'[s].updateId = c.update.id
                    /\ c \in slots'[s].have
                    /\ slots[s].updateId = c.update.id => slots[s].have \subseteq slots'[s].have
                    /\ \A r \in Slots \ {s} : slots'[r] = slots[r]
<1> DEFINE u == c.update
<1>0. u \in Updates /\ u.id \in Nat /\ u.total \in 1..MaxChunks
    BY ChunkFacts
<1>1. PICK s \in Slots :
          LET ready == Prepared(s, c)
              full == Filled(ready, c)
          IN  /\ SlotFor(c, s)
              /\ \/ /\ IsDuplicate(c, s)
                    /\ UNCHANGED <<slots, thread, assembled>>
                 \/ /\ ~IsDuplicate(c, s) /\ ~HasRoom(ready)
                    /\ slots' = [slots EXCEPT ![s] = ready]
                    /\ UNCHANGED <<thread, assembled>>
                 \/ /\ ~IsDuplicate(c, s) /\ HasRoom(ready)
                    /\ slots' = [slots EXCEPT ![s] = full]
                    /\ full.count = c.update.total =>
                          assembled' = assembled \union {Dictionary(full)}
                    /\ full.count # c.update.total =>
                          assembled' = assembled
    BY HandleChunkCases
<1> DEFINE ready == Prepared(s, c)
           full == Filled(ready, c)
<1>2. CASE IsDuplicate(c, s)
    <2>1. UNCHANGED <<slots, assembled>>
        BY <1>1, <1>2
    <2>2. ~u.legacy /\ slots[s].updateId = u.id /\ c \in slots[s].have
        BY <1>2 DEF IsDuplicate
    <2> QED BY <1>1, <2>1, <2>2
<1>3. CASE ~IsDuplicate(c, s) /\ ~HasRoom(ready)
    <2>1. slots' = [slots EXCEPT ![s] = ready] /\ assembled' = assembled
        BY <1>1, <1>3
    <2>2. ready \in Slot /\ ready.updateId = u.id
        BY PreparedFacts
    <2>3. ready.count >= MaxChunks
        BY <1>3, <2>2 DEF HasRoom, Slot
    <2>4. slots[s].updateId = u.id /\ ready.have = slots[s].have
          /\ ready.count = slots[s].count /\ ready.data = slots[s].data
        BY <2>3, PreparedFacts
    <2>5. u.legacy
        <3> SUFFICES ASSUME ~u.legacy PROVE FALSE
            OBVIOUS
        <3>1. ready.have \subseteq ChunksOf(u) /\ ready.count = Cardinality(ready.have)
            BY PreparedInv
        <3>2. ready.have = ChunksOf(u)
            <4> HIDE DEF ready, u
            <4> QED BY <1>0, <2>3, <3>1, AllOfUpdate
        <3> QED BY <1>3, <2>4, <3>2 DEF IsDuplicate, ChunksOf
    <2>6. Whole(u) \in assembled
        BY <2>3, <2>5, PreparedInv
    <2>7. SlotInv(ready, assembled)
        <3>1. SlotInv(slots[s], assembled)
            OBVIOUS
        <3> HIDE DEF ready, u
        <3> QED BY <2>2, <2>4, <3>1 DEF SlotInv, Stored, Counted, LegacyDone
    <2> HIDE DEF ready
    <2> QED BY <2>1, <2>5, <2>6, <2>7 DEF TypeOK
<1>4. CASE ~IsDuplicate(c, s) /\ HasRoom(ready)
    <2>1. /\ slots' = [slots EXCEPT ![s] = full]
          /\ full.count = u.total => assembled' = assembled \union {Dictionary(full)}
          /\ full.count # u.total => assembled' = assembled
        BY <1>1, <1>4
    <2>2. assembled \subseteq assembled'
        BY <2>1
    <2>3. /\ full \in Slot
          /\ full.updateId = u.id
          /\ full.count = u.total => Dictionary(full) = Whole(u)
          /\ SlotInv(full, assembled')
        BY <1>4, <2>1, <2>2, FilledInv
    <2>4. \A d \in assembled' : d \in assembled \/ d = Whole(u)
        BY <2>1, <2>3
    <2>5. ASSUME NEW r \in Slots PROVE SlotInv(slots'[r], assembled')
        <3>1. CASE r = s
            BY <2>1, <2>3, <3>1 DEF TypeOK
        <3>2. CASE r # s
            <4>1. slots'[r] = slots[r] /\ SlotInv(slots[r], assembled)
                BY <2>1, <3>2
            <4> QED BY <2>2, <4>1 DEF SlotInv, Counted, LegacyDone
        <3> QED BY <3>1, <3>2
    <2>6. full.have = ready.have \union {c}
        <3>1. ready \in Slot /\ HasRoom(ready)
            BY <1>4, PreparedFacts
        <3> HIDE DEF ready
        <3> QED BY <3>1, FilledFacts
    <2>7. u.legacy => Whole(u) \in assembled'
        BY <1>0, <2>3 DEF SlotInv, LegacyDone
    <2>8. slots[s].updateId = u.id => slots[s].have \subseteq full.have
        BY <2>6, PreparedFacts
    <2> HIDE DEF full, ready
    <2> QED BY <1>1, <2>1, <2>2, <2>3, <2>4, <2>5, <2>6, <2>7, <2>8 DEF TypeOK
<1> QED BY <1>2, <1>3, <1>4

LEMMA StreakStep ==
    ASSUME ReassemblyInv, TypeOK', NEW t \in Threads, NEW c \in Chunks, HandleChunk(t, c)
    PROVE  StreakInv'
<1> DEFINE u == c.update
<1>0. u \in Updates
    BY ChunkFacts
<1>1. /\ streak'.update = u
      /\ streak'.chunks = IF streak.update = u THEN streak.chunks \union {c} ELSE {c}
    BY DEF HandleChunk
<1>2. CASE u.legacy
    BY <1>1, <1>2, SlotsStep DEF ReassemblyInv, StreakInv
<1>3. CASE ~u.legacy
    <2>1. PICK s \in Slots :
              /\ SlotFor(c, s)
              /\ slots'[s].updateId = u.id
              /\ c \in slots'[s].have
              /\ slots[s].updateId = u.id => slots[s].have \subseteq slots'[s].have
              /\ \A r \in Slots \ {s} : slots'[r] = slots[r]
        BY <1>3, SlotsStep DEF ReassemblyInv
    <2>2. \A r \in Slots : slots'[r].updateId = u.id => s <= r
        BY <1>3, <2>1, FoundAgain DEF ReassemblyInv
    <2>3. ASSUME streak.update = u PROVE streak.chunks \subseteq slots'[s].have
        <3>1. CASE streak.chunks = {}
            BY <3>1
        <3>2. CASE streak.chunks # {}
            <4>1. PICK q \in Slots : InSlot(u, q)
                BY <1>3, <2>3, <3>2 DEF ReassemblyInv, StreakInv
            <4>2. s \in Matching(c) /\ \A r \in Matching(c) : s <= r
                BY <1>3, <2>1, <4>1 DEF SlotFor, InSlot, Matching
            <4>3. s = q
                BY <4>1, <4>2 DEF InSlot, Matching, Slots
            <4> QED BY <2>1, <4>1, <4>3 DEF InSlot
        <3> QED BY <3>1, <3>2
    <2>4. streak'.chunks \subseteq slots'[s].have
        BY <1>1, <2>1, <2>3
    <2>5. InSlot(u, s)'
        BY <2>1, <2>2, <2>4 DEF InSlot
    <2> QED BY <1>1, <1>3, <2>5 DEF StreakInv
<1> QED BY <1>2, <1>3

LEMMA HandleChunkStep ==
    ASSUME ReassemblyInv, NEW t \in Threads, NEW c \in Chunks, HandleChunk(t, c)
    PROVE  ReassemblyInv'
<1>1. TypeOK'
    BY HandleChunkType DEF ReassemblyInv
<1>2. (\A s \in Slots : SlotInv(slots[s], assembled))'
    BY SlotsStep DEF ReassemblyInv
<1>3. StreakInv'
    BY <1>1, StreakStep
<1>4. NoMixedConfig'
    BY SlotsStep, ChunkFacts DEF ReassemblyInv, NoMixedConfig
<1> QED BY <1>1, <1>2, <1>3, <1>4 DEF ReassemblyInv

(* The steps that touch no slot only have a type to keep.                  *)
LEMMA SameSlots ==
    ASSUME ReassemblyInv, TypeOK', UNCHANGED <<slots, streak, assembled>>
    PROVE  ReassemblyInv'
<1>1. StreakInv' /\ NoMixedConfig'
    BY DEF ReassemblyInv, StreakInv, InSlot, NoMixedConfig
<1> QED BY <1>1 DEF ReassemblyInv

LEMMA ConfigTypes ==
    /\ NoConfig \in Config /\ NoConfig \in SavedConfig
    /\ \A u \in Updates : /\ ConfigOf(u) \in Config /\ ConfigOf(u) \in SavedConfig
                          /\ Saved(ConfigOf(u)) = ConfigOf(u)
    /\ \A k \in Config : /\ [k EXCEPT !.sso = TRUE] \in Config
                         /\ Saved([k EXCEPT !.sso = TRUE]) = Saved(k)
    /\ \A k \in SavedConfig : k \in Config /\ Saved(k) = k
    /\ \A k \in Config, f \in Failures : Told(k, f) \in PortType
<1>1. NoConfig \in Config /\ NoConfig \in SavedConfig
    BY DEF NoConfig, Config, SavedConfig
<1>2. ASSUME NEW k \in SavedConfig PROVE k \in Config /\ Saved(k) = k
    BY DEF Config, SavedConfig, Saved
<1>3. ASSUME NEW u \in Updates
      PROVE  /\ ConfigOf(u) \in Config /\ ConfigOf(u) \in SavedConfig
             /\ Saved(ConfigOf(u)) = ConfigOf(u)
    <2>1. u.rev \in Nat
        BY DEF UpdateType
    <2>2. ConfigOf(u) \in SavedConfig
        BY <2>1 DEF ConfigOf, SavedConfig
    <2> QED BY <1>2, <2>2
<1>4. ASSUME NEW k \in Config
      PROVE  /\ [k EXCEPT !.sso = TRUE] \in Config
             /\ Saved([k EXCEPT !.sso = TRUE]) = Saved(k)
    BY DEF Config, Saved
<1>5. ASSUME NEW k \in Config, NEW f \in Failures PROVE Told(k, f) \in PortType
    BY DEF Told, PortType
<1> QED BY <1>1, <1>2, <1>3, <1>4, <1>5

LEMMA ThreadFacts ==
    ASSUME TypeOK, NEW t \in Threads, thread[t].step # "idle"
    PROVE  /\ thread[t].update \in Updates
           /\ thread[t] # Idle
           /\ \A step \in Steps \ {"idle"} :
                 [thread EXCEPT ![t].step = step] \in
                    [Threads -> {Idle} \union [step : Steps \ {"idle"}, update : Updates]]
           /\ [thread EXCEPT ![t] = Idle] \in
                    [Threads -> {Idle} \union [step : Steps \ {"idle"}, update : Updates]]
BY DEF TypeOK, Idle

LEMMA ThreadStepType ==
    ASSUME TypeOK, NEW t \in Threads, Compare(t) \/ Install(t) \/ ConfigurePort(t) \/ Save(t)
    PROVE  TypeOK' /\ UNCHANGED <<slots, streak, assembled>>
<1> DEFINE u == thread[t].update
<1>1. thread[t].step # "idle"
    BY DEF Compare, Install, ConfigurePort, Save
<1>2. u \in Updates /\ ConfigOf(u) \in Config
    BY <1>1, ThreadFacts, ConfigTypes
<1>3. thread' \in [Threads -> {Idle} \union [step : Steps \ {"idle"}, update : Updates]]
    <2>1. \/ thread' = [thread EXCEPT ![t] = Idle]
          \/ \E step \in Steps \ {"idle"} : thread' = [thread EXCEPT ![t].step = step]
        BY DEF Compare, Install, ConfigurePort, Save, Return, Steps
    <2> QED BY <1>1, <2>1, ThreadFacts
<1>4. UNCHANGED <<slots, received, streak, assembled, floods>>
    BY DEF Compare, Install, ConfigurePort, Save, history
<1>5. config' \in Config /\ port' \in PortType /\ disk' \in SavedConfig /\ leave' = leave
      /\ failure' \in Failures
    BY <1>2, ConfigTypes DEF Compare, Install, ConfigurePort, Save, network, TypeOK, Failures
<1>6. overlapped' \in BOOLEAN
    BY Zenon DEF Compare, Install, ConfigurePort, Save, history, TypeOK
<1> QED BY <1>3, <1>4, <1>5, <1>6 DEF TypeOK

LEMMA EventFacts ==
    ASSUME TypeOK, (\E why \in Failures : Refused(why)) \/ SetAuthenticationRequired
    PROVE  /\ UNCHANGED <<slots, leave, disk, thread, received, streak, assembled, floods>>
           /\ config' \in Config /\ failure' \in Failures
           /\ Saved(config') = Saved(config)
           /\ port' = Told(config', failure')
           /\ overlapped' \in BOOLEAN
           /\ ~overlapped' => /\ ~overlapped /\ leave \in {"no", "destroyed"}
                              /\ \A t \in Threads : thread[t].step # "port"
<1>1. SendUpdateEvent
    BY DEF Refused, SetAuthenticationRequired
<1>2. config' \in Config /\ Saved(config') = Saved(config)
    BY ConfigTypes DEF Refused, SetAuthenticationRequired, TypeOK
<1>3. failure' \in Failures
    BY DEF Refused, SetAuthenticationRequired, Failures
<1>4. overlapped' \in BOOLEAN
    BY <1>1, Zenon DEF SendUpdateEvent
<1>5. UNCHANGED <<slots, leave, disk, thread, received, streak, assembled, floods>>
      /\ port' = Told(config', failure')
    BY <1>1 DEF SendUpdateEvent
<1>6. ~overlapped' => /\ ~overlapped /\ leave \notin {"port down", "gone"}
                      /\ \A t \in Threads : thread[t].step # "port"
    BY <1>1, Zenon DEF SendUpdateEvent
<1>7. leave \in {"no", "destroyed", "port down", "gone"}
    BY DEF TypeOK, LeaveSteps
<1> QED BY <1>2, <1>3, <1>4, <1>5, <1>6, <1>7

LEMMA OtherStepType ==
    ASSUME TypeOK, (\E why \in Failures : Refused(why)) \/ SetAuthenticationRequired \/ Leave
    PROVE  TypeOK' /\ UNCHANGED <<slots, streak, assembled>>
<1>1. CASE (\E why \in Failures : Refused(why)) \/ SetAuthenticationRequired
    <2>1. port' \in PortType
        BY <1>1, EventFacts, ConfigTypes
    <2> QED BY <1>1, <2>1, EventFacts DEF TypeOK
<1>2. CASE Leave
    <2>1. UNCHANGED <<slots, config, failure, thread, received, streak, assembled, floods>>
        BY <1>2 DEF Leave
    <2>2. port' \in PortType /\ disk' \in SavedConfig /\ leave' \in LeaveSteps
        BY <1>2, ConfigTypes DEF Leave, TypeOK, PortType, LeaveSteps
    <2>3. overlapped' \in BOOLEAN
        BY <1>2, Zenon DEF Leave, TypeOK
    <2> QED BY <2>1, <2>2, <2>3 DEF TypeOK
<1> QED BY <1>1, <1>2

LEMMA RestartStep ==
    ASSUME ReassemblyInv, Restart
    PROVE  ReassemblyInv'
<1>1. EmptySlot \in Slot
    BY DEF EmptySlot, Slot
<1>2. slots' = [s \in Slots |-> EmptySlot] /\ assembled' = assembled
    BY DEF Restart
<1>3. TypeOK'
    <2>1. slots' \in [Slots -> Slot]
          /\ \A s \in Slots : \A c \in slots'[s].have : c.update.id = slots'[s].updateId
        BY <1>1, <1>2 DEF EmptySlot
    <2>2. thread' \in [Threads -> {Idle} \union [step : Steps \ {"idle"}, update : Updates]]
        BY DEF Restart
    <2>3. /\ streak' \in [update : Updates \union {None.update}, chunks : SUBSET Chunks]
          /\ \A c \in streak'.chunks : c.update = streak'.update
        BY DEF Restart
    <2>4. config' \in Config /\ port' \in PortType /\ disk' \in SavedConfig
          /\ failure' \in Failures /\ leave' = leave
        <3>1. disk \in SavedConfig /\ "NONE" \in Failures
            BY DEF ReassemblyInv, TypeOK, Failures
        <3> QED BY <3>1, ConfigTypes DEF Restart
    <2>5. UNCHANGED <<received, floods>> /\ overlapped' \in BOOLEAN
        BY DEF Restart
    <2> QED BY <2>1, <2>2, <2>3, <2>4, <2>5 DEF ReassemblyInv, TypeOK
<1>4. ASSUME NEW s \in Slots PROVE SlotInv(slots'[s], assembled')
    <2>1. slots'[s].have = {} /\ slots'[s].updateId = 0
        BY <1>2 DEF EmptySlot
    <2>2. \A u \in Updates : u.id # 0
        BY DEF UpdateType
    <2> QED BY <2>1, <2>2 DEF SlotInv, Stored, Counted, LegacyDone
<1>5. StreakInv' /\ NoMixedConfig'
    BY <1>2 DEF Restart, StreakInv, ReassemblyInv, NoMixedConfig
<1> QED BY <1>3, <1>4, <1>5 DEF ReassemblyInv

LEMMA ReassemblyStep == ReassemblyInv /\ [Next]_vars => ReassemblyInv'
<1> SUFFICES ASSUME ReassemblyInv, [Next]_vars PROVE ReassemblyInv'
    OBVIOUS
<1>1. TypeOK
    BY DEF ReassemblyInv
<1>2. ASSUME NEW t \in Threads, NEW c \in Chunks, HandleChunk(t, c) PROVE ReassemblyInv'
    BY <1>2, HandleChunkStep
<1>3. ASSUME NEW t \in Threads, Compare(t) \/ Install(t) \/ ConfigurePort(t) \/ Save(t)
      PROVE  ReassemblyInv'
    BY <1>1, <1>3, ThreadStepType, SameSlots
<1>4. CASE (\E why \in Failures : Refused(why)) \/ SetAuthenticationRequired \/ Leave
    BY <1>1, <1>4, OtherStepType, SameSlots
<1>5. CASE Restart
    BY <1>5, RestartStep
<1>6. CASE UNCHANGED vars
    <2>1. TypeOK' /\ UNCHANGED <<slots, streak, assembled>>
        BY <1>1, <1>6 DEF vars, network, history, TypeOK
    <2> QED BY <2>1, SameSlots
<1> QED BY <1>2, <1>3, <1>4, <1>5, <1>6 DEF Next

----------------------------------------------------------------------------
(* A thread that takes over an update while another does is noted, and one *)
(* that does it alone is not yet further than the comparison.              *)
LEMMA AgreementHandleChunk ==
    ASSUME TypeOK, AgreementInv, NEW t \in Threads, NEW c \in Chunks, HandleChunk(t, c)
    PROVE  AgreementInv'
<1> SUFFICES ASSUME ~overlapped' PROVE AgreementInv'
    BY DEF AgreementInv
<1>1. /\ ~overlapped
      /\ thread'[t] # Idle => \A u \in Threads \ {t} : thread[u] = Idle
      /\ UNCHANGED <<config, failure, leave, port, disk>>
    BY DEF HandleChunk, network
<1>2. thread[t] = Idle /\ thread[t].step = "idle"
    BY HandleChunkThread DEF Idle
<1>3. \A u \in Threads : u # t => thread'[u] = thread[u]
    BY HandleChunkThread DEF TypeOK
<1>4. thread'[t] = Idle \/ thread'[t].step = "compare"
    BY HandleChunkThread DEF TypeOK
<1>5. thread'[t].step \in {"idle", "compare"}
    BY <1>4 DEF Idle
<1>6. \A u \in Threads : ThreadInv(u)'
    <2>1. \A u \in Threads : ThreadInv(u)
        BY <1>1 DEF AgreementInv
    <2> QED BY <1>1, <1>3, <1>5, <2>1 DEF ThreadInv
<1>7. \A u, v \in Threads : Busy(u)' /\ Busy(v)' => u = v
    BY <1>1, <1>2, <1>3 DEF AgreementInv, Busy
<1>8. \A u \in Threads : \A step \in {"port", "save"} :
          thread'[u].step = step <=> thread[u].step = step
    BY <1>2, <1>3, <1>5
<1>9. PortOf' = PortOf /\ DiskOf' = DiskOf
    BY <1>1 DEF PortOf, DiskOf
<1> QED BY <1>1, <1>6, <1>7, <1>8, <1>9 DEF AgreementInv

(* The thread that is taking over an update goes one step on.              *)
LEMMA AgreementThread ==
    ASSUME TypeOK, AgreementInv, NEW t \in Threads,
           Compare(t) \/ Install(t) \/ ConfigurePort(t) \/ Save(t)
    PROVE  AgreementInv'
<1> DEFINE u == thread[t].update
<1> SUFFICES ASSUME ~overlapped' PROVE AgreementInv'
    BY DEF AgreementInv
<1>1. leave' = leave /\ thread[t].step # "idle"
    BY DEF Compare, Install, ConfigurePort, Save, network
<1>2. Busy(t) /\ u \in Updates
    BY <1>1, ThreadFacts DEF Busy
<1>3. \A v \in Threads : v # t => thread[v] = Idle /\ thread'[v] = Idle
    <2>1. CASE ~overlapped
        BY <1>1, <1>2, <2>1
        DEF AgreementInv, Busy, Compare, Install, ConfigurePort, Save, Return, TypeOK
    <2>2. CASE overlapped
        <3>1. Install(t)
            BY <2>2 DEF Compare, ConfigurePort, Save, history
        <3> QED BY <2>2, <3>1 DEF Install, TypeOK
    <2> QED BY <2>1, <2>2
<1>4. \A v, w \in Threads : Busy(v)' /\ Busy(w)' => v = w
    BY <1>3 DEF Busy
<1>5. \A v \in Threads : v # t => thread'[v].step = "idle" /\ thread[v].step = "idle"
    BY <1>3 DEF Idle
<1>6. \A v \in Threads : v # t => ThreadInv(v)'
    BY <1>5 DEF ThreadInv
<1> SUFFICES /\ ThreadInv(t)'
             /\ thread'[t].step # "port" => port' = PortOf'
             /\ thread'[t].step \notin {"port", "save"} => disk' = DiskOf'
    BY <1>4, <1>6 DEF AgreementInv
<1>7. ~overlapped => /\ ThreadInv(t)
                     /\ thread[t].step # "port" => port = PortOf
                     /\ thread[t].step \notin {"port", "save"} => disk = DiskOf
    BY <1>5 DEF AgreementInv
<1>8. CASE Compare(t)
    <2>1. /\ thread'[t].step \in {"idle", "install"}
          /\ thread[t].step = "compare"
          /\ thread'[t].step = "install" => leave = "no"
          /\ UNCHANGED <<config, failure, leave, port, disk, overlapped>>
        BY <1>8 DEF Compare, Return, Idle, TypeOK, network, history, destroyed
    <2> QED BY <1>7, <2>1 DEF ThreadInv, PortOf, DiskOf
<1>9. CASE Install(t)
    <2>1. /\ thread'[t].step = "port" /\ thread'[t].update = u
          /\ thread[t].step = "install"
          /\ config' = ConfigOf(u) /\ failure' = "NONE"
          /\ UNCHANGED <<port, disk, leave>>
        BY <1>9, <1>1, ThreadFacts DEF Install, TypeOK
    <2>2. overlapped => leave = "no"
        BY <1>9 DEF Install, destroyed
    <2> QED BY <1>7, <2>1, <2>2 DEF ThreadInv
<1>10. CASE ConfigurePort(t)
    <2>1. /\ thread'[t].step = "save" /\ thread'[t].update = u
          /\ thread[t].step = "port"
          /\ port' = Told(ConfigOf(u), "NONE")
          /\ UNCHANGED <<config, failure, disk, leave, overlapped>>
        BY <1>10, <1>1, ThreadFacts DEF ConfigurePort, TypeOK, history
    <2>2. config = ConfigOf(u) /\ failure = "NONE" /\ leave \notin {"port down", "gone"}
        BY <1>7, <2>1 DEF ThreadInv
    <2>3. leave \in {"no", "destroyed"}
        BY <2>2 DEF TypeOK, LeaveSteps
    <2>4. Saved(config) = ConfigOf(u)
        BY <1>2, <2>2, ConfigTypes
    <2> QED BY <2>1, <2>2, <2>3, <2>4 DEF ThreadInv, PortOf
<1>11. CASE Save(t)
    <2>1. /\ thread'[t].step = "idle"
          /\ thread[t].step = "save"
          /\ disk' = ConfigOf(u)
          /\ UNCHANGED <<config, failure, port, leave, overlapped>>
        BY <1>11 DEF Save, Return, Idle, TypeOK, history
    <2>2. Saved(config) = ConfigOf(u) /\ leave # "gone"
        BY <1>7, <2>1 DEF ThreadInv
    <2> QED BY <1>7, <2>1, <2>2 DEF ThreadInv, PortOf, DiskOf
<1> QED BY <1>8, <1>9, <1>10, <1>11

(* An error is told to the port at once, and changes nothing that is saved.*)
LEMMA AgreementEvent ==
    ASSUME TypeOK, AgreementInv, (\E why \in Failures : Refused(why)) \/ SetAuthenticationRequired
    PROVE  AgreementInv'
<1> SUFFICES ASSUME ~overlapped' PROVE AgreementInv'
    BY DEF AgreementInv
<1>1. /\ ~overlapped /\ leave \in {"no", "destroyed"}
      /\ \A t \in Threads : thread[t].step # "port"
      /\ UNCHANGED <<leave, disk, thread>>
      /\ port' = Told(config', failure') /\ Saved(config') = Saved(config)
    BY EventFacts
<1>2. port' = PortOf' /\ DiskOf' = DiskOf
    BY <1>1 DEF PortOf, DiskOf
<1>3. \A t \in Threads : ThreadInv(t)'
    BY <1>1 DEF AgreementInv, ThreadInv
<1> QED BY <1>1, <1>2, <1>3 DEF AgreementInv, Busy

LEMMA AgreementLeave ==
    ASSUME TypeOK, AgreementInv, Leave
    PROVE  AgreementInv'
<1> SUFFICES ASSUME ~overlapped' PROVE AgreementInv'
    BY DEF AgreementInv
<1>1. ~overlapped
    BY Zenon DEF Leave
<1>2. UNCHANGED <<config, failure, thread>>
    BY DEF Leave
<1>3. CASE leave = "no" /\ leave' = "destroyed"
    <2>1. UNCHANGED <<port, disk>>
        BY <1>3 DEF Leave
    <2> QED BY <1>1, <1>2, <1>3, <2>1 DEF AgreementInv, ThreadInv, Busy, PortOf, DiskOf
<1>4. CASE leave = "destroyed" /\ leave' = "port down"
    <2>1. port' = NoPort /\ disk' = disk
          /\ \A t \in Threads : thread[t].step \notin {"install", "port"}
        BY <1>4, Zenon DEF Leave, Undoes
    <2>2. \A t \in Threads : ThreadInv(t)'
        BY <1>1, <1>2, <1>4, <2>1 DEF AgreementInv, ThreadInv
    <2>3. port' = PortOf' /\ DiskOf' = DiskOf
        BY <1>1, <1>2, <1>4, <2>1 DEF PortOf, DiskOf
    <2> QED BY <1>1, <1>2, <2>1, <2>2, <2>3 DEF AgreementInv, Busy
<1>5. CASE leave = "port down" /\ leave' = "gone"
    <2>1. port' = port /\ disk' = NoConfig
          /\ \A t \in Threads : thread[t].step \notin {"install", "port", "save"}
        BY <1>5, Zenon DEF Leave, Undoes
    <2>2. \A t \in Threads : ThreadInv(t)'
        BY <1>1, <1>2, <1>5, <2>1 DEF AgreementInv, ThreadInv
    <2>3. PortOf' = PortOf /\ disk' = DiskOf'
        BY <1>1, <1>2, <1>5, <2>1 DEF PortOf, DiskOf
    <2> QED BY <1>1, <1>2, <2>1, <2>2, <2>3 DEF AgreementInv, Busy
<1> QED BY <1>3, <1>4, <1>5 DEF Leave

LEMMA AgreementRestart ==
    ASSUME TypeOK, Restart
    PROVE  AgreementInv'
<1>1. /\ leave = "no" /\ leave' = leave /\ disk' = disk /\ config' = disk
      /\ port' = Told(disk, "NONE") /\ failure' = "NONE"
      /\ \A t \in Threads : thread'[t] = Idle
    BY DEF Restart, destroyed
<1>2. Saved(disk) = disk
    BY ConfigTypes DEF TypeOK
<1>3. port' = PortOf' /\ disk' = DiskOf'
    BY <1>1, <1>2 DEF PortOf, DiskOf
<1>4. \A t \in Threads : thread'[t].step = "idle" /\ ~Busy(t)'
    BY <1>1 DEF Idle, Busy
<1>5. \A t \in Threads : ThreadInv(t)'
    BY <1>4 DEF ThreadInv
<1> QED BY <1>3, <1>4, <1>5 DEF AgreementInv

LEMMA AgreementStep == TypeOK /\ AgreementInv /\ [Next]_vars => AgreementInv'
<1> SUFFICES ASSUME TypeOK, AgreementInv, [Next]_vars PROVE AgreementInv'
    OBVIOUS
<1>1. ASSUME NEW t \in Threads, NEW c \in Chunks, HandleChunk(t, c) PROVE AgreementInv'
    BY <1>1, AgreementHandleChunk
<1>2. ASSUME NEW t \in Threads, Compare(t) \/ Install(t) \/ ConfigurePort(t) \/ Save(t)
      PROVE  AgreementInv'
    BY <1>2, AgreementThread
<1>3. CASE (\E why \in Failures : Refused(why)) \/ SetAuthenticationRequired
    BY <1>3, AgreementEvent
<1>4. CASE Leave
    BY <1>4, AgreementLeave
<1>5. CASE Restart
    BY <1>5, AgreementRestart
<1>6. CASE UNCHANGED vars
    BY <1>6 DEF vars, network, history, AgreementInv, Busy, ThreadInv, PortOf, DiskOf
<1> QED BY <1>1, <1>2, <1>3, <1>4, <1>5, <1>6 DEF Next

----------------------------------------------------------------------------
(* Chunks, slots and what was put together, in every reachable state.      *)
LEMMA ReassemblyAlways == Spec => []ReassemblyInv
BY InitInv, ReassemblyStep, PTL DEF Spec

(* Every reachable state is well typed, and a slot's chunk IDs are all of  *)
(* the update the slot is for (Network::_incomingConfigChunks).            *)
THEOREM TypeCorrect == Spec => []TypeOK
<1>1. ReassemblyInv => TypeOK
    BY DEF ReassemblyInv
<1> QED BY <1>1, ReassemblyAlways, PTL

(* Whatever handleConfigChunk hands to fromDictionary() is the whole of    *)
(* one update: however many slots there are and however updates, chunks    *)
(* and threads interleave.                                                 *)
THEOREM ConfigSafety == Spec => []NoMixedConfig
<1>1. ReassemblyInv => NoMixedConfig
    BY DEF ReassemblyInv
<1> QED BY <1>1, ReassemblyAlways, PTL

(* An update all of whose chunks arrive with nothing of another in between *)
(* is put together, whatever the slots held before.                        *)
THEOREM ConfigCompleteness == Spec => []NothingLost
<1>1. ReassemblyInv => NothingLost
    <2> SUFFICES ASSUME ReassemblyInv, NEW u \in Updates, ChunksOf(u) = streak.chunks
                 PROVE  Whole(u) \in assembled
        BY DEF NothingLost, ChunksOf
    <2>1. Chunk(u, 0) \in ChunksOf(u)
        BY ChunkOf DEF UpdateType
    <2>2. streak.update = u /\ streak.chunks # {}
        BY <2>1 DEF ReassemblyInv, TypeOK, ChunksOf
    <2>3. CASE u.legacy
        BY <2>2, <2>3 DEF ReassemblyInv, StreakInv
    <2>4. CASE ~u.legacy
        <3>1. PICK s \in Slots : InSlot(u, s)
            BY <2>2, <2>4 DEF ReassemblyInv, StreakInv
        <3>2. slots[s].have \subseteq ChunksOf(u)
            BY <3>1, ChunkFacts DEF InSlot, ReassemblyInv, TypeOK, Slot, ChunksOf
        <3>3. slots[s].have = ChunksOf(u)
            BY <3>1, <3>2 DEF InSlot
        <3> QED BY <2>4, <3>1, <3>3 DEF InSlot, ReassemblyInv, SlotInv, Counted
    <2> QED BY <2>3, <2>4
<1> QED BY <1>1, ReassemblyAlways, PTL

(* The port has the configuration and the status that are in memory, and   *)
(* the disk the configuration, whenever no update is being taken over, and *)
(* neither has them after leave: through refusals, restarts, duplicates    *)
(* and whatever the next update installed alone replaces, but for the      *)
(* crossings `overlapped' names (setConfiguration, _sendUpdateEvent).      *)
THEOREM ConfigAgreement == Spec => []Agreement
<1>1. ReassemblyInv => TypeOK
    BY DEF ReassemblyInv
<1>2. AgreementInv => Agreement
    <2> SUFFICES ASSUME AgreementInv, ~overlapped, \A t \in Threads : thread[t] = Idle
                 PROVE  port = PortOf /\ disk = DiskOf
        BY DEF Agreement, PortOf, DiskOf
    <2>1. \A t \in Threads : thread[t].step = "idle"
        BY DEF Idle
    <2> QED BY <2>1 DEF AgreementInv
<1>3. Init => AgreementInv
    BY InitInv
<1> QED BY <1>1, <1>2, <1>3, ReassemblyAlways, AgreementStep, PTL DEF Spec

=============================================================================
