--------------------------- MODULE RxQueueProofs ---------------------------
(***************************************************************************)
(* Theorems about RxQueue for any number of threads, any size of the queue *)
(* and any set of transmissions.                                           *)
(***************************************************************************)
EXTENDS RxQueue, FiniteSetTheorems, SequenceTheorems, TLAPS

USE SizesAssumption, TransmissionsAssumption

(* What a head or a fragment says about itself.                            *)
LEMMA PieceFacts ==
    ASSUME NEW p \in Pieces
    PROVE  /\ p \in Content
           /\ p.tx \in Transmissions
           /\ p.tx.id \in Nat \ {0}
           /\ p.tx.total \in 1..MaxFragments
           /\ p.no \in Numbers
           /\ p.no \in 0..p.tx.total - 1
           /\ p = Piece(p.tx, p.no)
  BY DEF Pieces, Content, Numbers, Piece

LEMMA SlotFacts ==
    /\ 0 \in Slots
    /\ (\A x \in Int : x % QueueSize \in Slots)
    /\ 0 \in Numbers
  BY DEF Slots, Numbers

(* The fragments of an entry are a sequence, and so is what is assembled.  *)
LEMMA AssembleType ==
    ASSUME NEW e \in Entry, e.total > 1
    PROVE  /\ [i \in 1..e.total - 1 |-> e.frags[i]] \in Seq(Content)
           /\ Assemble(e) \in Entry
<1> DEFINE rest == [i \in 1..e.total - 1 |-> e.frags[i]]
<1>1. e.total - 1 \in Nat /\ e.frags \in [Numbers \ {0} -> Content]
      /\ e.frag0 \in Seq(Content)
  BY DEF Entry
<1>2. \A i \in 1..e.total - 1 : i \in Numbers \ {0}
  BY DEF Entry, Numbers
<1>3. rest \in [1..e.total - 1 -> Content]
  BY <1>1, <1>2
<1>4. rest \in Seq(Content)
  BY <1>1, <1>3, SeqDef, SMTT(30)
<1>5. e.frag0 \o rest \in Seq(Content)
  BY <1>1, <1>4, ConcatProperties
<1> QED
  BY <1>4, <1>5 DEF Assemble, Entry

LEMMA OverwriteType ==
    ASSUME NEW e \in Entry, NEW p \in Pieces
    PROVE  Overwrite(e, p) \in Entry
<1>1. <<p>> \in Seq(Content)
  BY PieceFacts
<1>2. /\ p.tx.id \in Nat
      /\ p.tx.total \in 0..MaxFragments
      /\ {0} \in SUBSET Numbers
      /\ {p.no} \in SUBSET Numbers
      /\ 0 \in 0..MaxFragments
  BY PieceFacts, SlotFacts
<1>3. p.no # 0 => [e.frags EXCEPT ![p.no] = p] \in [Numbers \ {0} -> Content]
  BY PieceFacts DEF Entry
<1>4. CASE p.no = 0
  BY <1>1, <1>2, <1>4 DEF Overwrite, Entry
<1>5. CASE p.no # 0
  BY <1>2, <1>3, <1>5 DEF Overwrite, Entry
<1> QED
  BY <1>4, <1>5

LEMMA AddType ==
    ASSUME NEW e \in Entry, NEW p \in Pieces
    PROVE  Add(e, p) \in Entry
<1>1. <<p>> \in Seq(Content)
  BY PieceFacts
<1>2. /\ p.tx.id \in Nat
      /\ p.tx.total \in 0..MaxFragments
      /\ {0} \in SUBSET Numbers
      /\ {p.no} \in SUBSET Numbers
      /\ 0 \in 0..MaxFragments
  BY PieceFacts, SlotFacts
<1>3. p.no # 0 => [e.frags EXCEPT ![p.no] = p] \in [Numbers \ {0} -> Content]
  BY PieceFacts DEF Entry
<1>4. CASE p.no = 0
  BY <1>1, <1>2, <1>4 DEF Add, Entry
<1>5. CASE p.no # 0
  BY <1>2, <1>3, <1>5 DEF Add, Entry
<1> QED
  BY <1>4, <1>5

LEMMA DecodedType ==
    ASSUME decoded \in [Transmissions -> Nat], NEW packet, CountDecoded(packet)
    PROVE  decoded' \in [Transmissions -> Nat]
  BY DEF CountDecoded

LEMMA AdvanceType ==
    ASSUME TypeOK, Advance
    PROVE  ptr' \in Slots /\ window' \in [Transmissions -> 0..QueueSize + 1]
<1>1. ptr' \in Slots
  <2>1. ptr + 1 \in Int
    BY DEF TypeOK, Slots
  <2> QED
    BY <2>1, SlotFacts DEF Advance
<1>2. \A tx \in Transmissions : window[tx] <= QueueSize =>
          window[tx] + 1 \in 0..QueueSize + 1
  BY DEF TypeOK
<1> QED
  BY <1>1, <1>2 DEF TypeOK, Advance

LEMMA TypeInit == Init => TypeOK
<1>1. <<>> \in Seq(Content)
  BY EmptySeq
<1> QED
  BY <1>1, SlotFacts DEF Init, TypeOK, FreeEntry, Entry, Idle, Content

(* Every reachable state is well typed: the ring pointer and the entry a   *)
(* thread holds stay inside _rxQueue, and an entry holds at most           *)
(* ZT_MAX_PACKET_FRAGMENTS pieces.                                         *)
THEOREM TypeCorrect == Spec => []TypeOK
<1>1. Init => TypeOK
  BY TypeInit
<1>2. TypeOK /\ [Next]_vars => TypeOK'
  <2> SUFFICES ASSUME TypeOK, [Next]_vars PROVE TypeOK'
    OBVIOUS
  <2> USE DEF history
  <2>1. ASSUME NEW t \in Threads, NEW p \in Pieces, Lookup(t, p) PROVE TypeOK'
    <3>1. \A k \in Matches(p.tx.id) : Behind(k) \in Slots
      <4>1. \A k \in Matches(p.tx.id) : ptr + QueueSize - k \in Int
        BY DEF Matches, Slots, TypeOK
      <4> QED
        BY <4>1, SlotFacts DEF Behind
    <3>2. \E at \in Slots, step \in {"process", "claim"} :
              thread' = [thread EXCEPT ![t] = [step |-> step, piece |-> p, at |-> at]]
      BY <2>1, <3>1 DEF Lookup, TypeOK
    <3>3. arrivals' \in [Pieces -> Nat]
      BY <2>1 DEF Lookup, TypeOK
    <3>4. raced' \subseteq Transmissions
      BY <2>1 DEF Lookup, NoteRace, TypeOK
    <3> QED
      BY <2>1, <3>2, <3>3, <3>4, PieceFacts, SMTT(30) DEF Lookup, TypeOK
  <2>2. ASSUME NEW t \in Threads, Claim(t) PROVE TypeOK'
    BY <2>2, AdvanceType DEF Claim, TypeOK
  <2>3. ASSUME NEW t \in Threads, NEW p \in Pieces, ReceiveWhole(t, p) PROVE TypeOK'
    <3>1. arrivals' \in [Pieces -> Nat] /\ raced' \subseteq Transmissions
      BY <2>3 DEF ReceiveWhole, NoteRace, TypeOK
    <3>2. CASE CountDecoded(<<p>>) /\ UNCHANGED <<ptr, thread, window>>
      BY <2>3, <3>1, <3>2, DecodedType DEF ReceiveWhole, TypeOK
    <3>3. CASE /\ Advance
               /\ thread' = [thread EXCEPT ![t] =
                       [step |-> "process", piece |-> p, at |-> ptr]]
               /\ UNCHANGED decoded
      BY <2>3, <3>1, <3>3, AdvanceType, PieceFacts DEF ReceiveWhole, TypeOK
    <3> QED
      BY <2>3, <3>2, <3>3 DEF ReceiveWhole
  <2>4. ASSUME NEW t \in Threads, Process(t) PROVE TypeOK'
    <3> DEFINE p == thread[t].piece
               s == thread[t].at
               e == queue[s]
               added == Add(e, p)
    <3>1. p \in Pieces /\ s \in Slots /\ e \in Entry
      BY <2>4 DEF Process, TypeOK
    <3>2. added \in Entry /\ Overwrite(e, p) \in Entry
      BY <3>1, AddType, OverwriteType
    <3>3. thread' = [thread EXCEPT ![t] = Idle] /\ UNCHANGED <<ptr, arrivals, window, givenUp, raced>>
      BY <2>4 DEF Process
    <3>4. /\ queue' \in [Slots -> Entry]
          /\ decoded' \in [Transmissions -> Nat]
          /\ assembled' \subseteq Seq(Content)
      <4>1. CASE queue' = [queue EXCEPT ![s] = Overwrite(e, p)] /\ UNCHANGED <<decoded, assembled>>
        BY <3>1, <3>2, <4>1 DEF TypeOK
      <4>2. CASE UNCHANGED <<queue, decoded, assembled>>
        BY <4>2 DEF TypeOK
      <4>3. CASE queue' = [queue EXCEPT ![s] = added] /\ UNCHANGED <<decoded, assembled>>
        BY <3>1, <3>2, <4>3 DEF TypeOK
      <4>4. CASE /\ AllFragments(added)
                 /\ Decode(s, Assemble(added))
                 /\ assembled' = assembled \union {Assemble(added).frag0}
        <5> DEFINE full == Assemble(added)
        <5>1. full \in Entry
          BY <3>2, <4>4, AssembleType DEF AllFragments
        <5>2. full.frag0 \in Seq(Content)
          BY <5>1 DEF Entry
        <5>3. [full EXCEPT !.inUse = FALSE] \in Entry /\ [full EXCEPT !.complete = TRUE] \in Entry
          BY <5>1 DEF Entry
        <5> HIDE DEF full, added, e, s, p
        <5>4. queue' \in [Slots -> Entry]
          BY <3>1, <4>4, <5>3 DEF Decode, TypeOK, full, added
        <5>5. decoded' \in [Transmissions -> Nat]
          BY <4>4, DecodedType DEF Decode, TypeOK, full, added
        <5> QED
          BY <4>4, <5>2, <5>4, <5>5 DEF TypeOK, full, added
      <4> QED
        BY <2>4, <4>1, <4>2, <4>3, <4>4 DEF Process
    <3> HIDE DEF added, e, s, p
    <3> QED
      BY <3>3, <3>4, SlotFacts DEF TypeOK, Idle, Content
  <2>5. ASSUME NEW t \in Threads, ProcessWhole(t) PROVE TypeOK'
    <3> DEFINE p == thread[t].piece
               s == thread[t].at
               new == [queue[s] EXCEPT !.inUse = TRUE, !.id = p.tx.id, !.frag0 = <<p>>,
                                       !.total = 1, !.have = {0}, !.complete = TRUE]
    <3>1. p \in Pieces /\ s \in Slots /\ queue[s] \in Entry
      BY <2>5 DEF ProcessWhole, TypeOK
    <3>2. <<p>> \in Seq(Content)
      BY <3>1, PieceFacts
    <3>3. new \in Entry
      <4>1. p.tx.id \in Nat /\ 1 \in 0..MaxFragments /\ {0} \in SUBSET Numbers
        BY <3>1, PieceFacts, SlotFacts
      <4> HIDE DEF p, s
      <4> QED
        BY <3>1, <3>2, <4>1 DEF Entry
    <3>4. queue' = [queue EXCEPT ![s] = new]
      BY <2>5 DEF ProcessWhole
    <3>5. queue' \in [Slots -> Entry]
      BY <3>1, <3>3, <3>4 DEF TypeOK
    <3>6. thread' = [thread EXCEPT ![t] = Idle] /\ UNCHANGED <<ptr, history>>
      BY <2>5 DEF ProcessWhole
    <3> HIDE DEF new, s, p
    <3> QED
      BY <3>5, <3>6, SlotFacts DEF TypeOK, Idle, Content
  <2>6. ASSUME NEW s \in Slots, Retry(s) PROVE TypeOK'
    <3>1. [queue[s] EXCEPT !.inUse = FALSE] \in Entry
      <4>1. queue[s] \in Entry
        BY DEF TypeOK
      <4> QED
        BY <4>1 DEF Entry
    <3>2. queue' = [queue EXCEPT ![s] = [queue[s] EXCEPT !.inUse = FALSE]]
      BY <2>6 DEF Retry, TypeOK
    <3>3. decoded' \in [Transmissions -> Nat]
      BY <2>6, DecodedType DEF Retry, TypeOK
    <3>4. givenUp' \subseteq Transmissions
      BY <2>6 DEF Retry, TypeOK
    <3> QED
      BY <2>6, <3>1, <3>2, <3>3, <3>4 DEF Retry, TypeOK
  <2>7. CASE UNCHANGED vars
    BY <2>7 DEF vars, TypeOK
  <2> QED
    BY <2>1, <2>2, <2>3, <2>4, <2>5, <2>6, <2>7 DEF Next
<1> QED
  BY <1>1, <1>2, PTL DEF Spec
----------------------------------------------------------------------------
(* The argument for AssembledWhole.  It needs that nobody sends one packet *)
(* ID in two fragmentations.                                               *)
OneFragmentation == \A tx, u \in Transmissions : tx.id = u.id => tx = u

(* The pieces of tx are being gathered: the bits of haveFragments say      *)
(* which, one is missing, and the total is known as soon as one fragment   *)
(* besides the head is there.                                              *)
Gathering(e, tx) ==
    /\ ~e.complete
    /\ e.have # {}
    /\ e.have \subseteq 0..tx.total - 1
    /\ e.have # 0..tx.total - 1
    /\ 0 \in e.have => e.frag0 = <<Piece(tx, 0)>>
    /\ \A i \in e.have \ {0} : e.frags[i] = Piece(tx, i)
    /\ e.total = IF e.have = {0} THEN 0 ELSE tx.total

(* All pieces were gathered; what is kept for a retry is the whole packet. *)
Gathered(e, tx) ==
    /\ e.have = 0..tx.total - 1
    /\ e.inUse /\ e.complete => e.frag0 = Whole(tx)

EntryInv(e) ==
    \/ e.id = 0 /\ ~e.inUse
    \/ \E tx \in Transmissions :
          tx.id = e.id /\ (Gathering(e, tx) \/ Gathered(e, tx))

IInv ==
    /\ TypeOK
    /\ \A s \in Slots : EntryInv(queue[s])
    /\ \A packet \in assembled : \E tx \in Transmissions : packet = Whole(tx)

(* Without fragments the head is the whole packet.                         *)
LEMMA WholeOfOne ==
    ASSUME NEW p \in Pieces, p.tx.total = 1
    PROVE  <<p>> = Whole(p.tx) /\ p.no = 0
<1>1. p.no = 0 /\ p = Piece(p.tx, 0)
  BY PieceFacts
<1>2. [i \in 1..p.tx.total - 1 |-> Piece(p.tx, i)] = <<>>
  <2>1. 1..p.tx.total - 1 = {}
    OBVIOUS
  <2>2. [i \in 1..p.tx.total - 1 |-> Piece(p.tx, i)] \in [1..0 -> Content]
    BY <2>1
  <2>3. [i \in 1..p.tx.total - 1 |-> Piece(p.tx, i)] \in Seq(Content)
    BY <2>2, SeqDef
  <2> QED
    BY <2>1, <2>3, EmptySeq, LenProperties
<1>3. <<p>> \in Seq(Content)
  BY PieceFacts
<1> QED
  BY <1>1, <1>2, <1>3, ConcatEmptySeq DEF Whole

(* Counting the bits is as good as comparing the set of fragments.         *)
LEMMA CountBits ==
    ASSUME NEW n \in Nat \ {0}, NEW have \in SUBSET (0..n - 1)
    PROVE  Cardinality(have) = n <=> have = 0..n - 1
<1>1. IsFiniteSet(0..n - 1) /\ Cardinality(0..n - 1) = n
  BY FS_Interval
<1> QED
  BY <1>1, FS_Subset

LEMMA OverwriteInv ==
    ASSUME NEW e \in Entry, NEW p \in Pieces, p.tx.total > 1
    PROVE  EntryInv(Overwrite(e, p))
<1> DEFINE new == Overwrite(e, p)
<1>1. p.tx \in Transmissions /\ p.tx.total \in Nat /\ p.no \in 0..p.tx.total - 1
      /\ p = Piece(p.tx, p.no) /\ p.no \in Numbers
  BY PieceFacts
<1>2. {p.no} # 0..p.tx.total - 1
  <2>1. 0 \in 0..p.tx.total - 1 /\ 1 \in 0..p.tx.total - 1
    BY <1>1
  <2> QED
    BY <2>1
<1>3. new.id = p.tx.id /\ new.have = {p.no} /\ new.complete = FALSE
  BY DEF Overwrite, Entry
<1>4. p.no = 0 => new.frag0 = <<p>> /\ new.total = 0
  BY DEF Overwrite, Entry
<1>5. p.no # 0 => new.frags[p.no] = p /\ new.total = p.tx.total
  BY <1>1 DEF Overwrite, Entry
<1>6. Gathering(new, p.tx)
  <2> HIDE DEF new
  <2> QED
    BY <1>1, <1>2, <1>3, <1>4, <1>5 DEF Gathering
<1> QED
  BY <1>1, <1>3, <1>6 DEF EntryInv

(* Adding a piece of tx to an entry that is gathering tx.                  *)
LEMMA AddInv ==
    ASSUME NEW e \in Entry, NEW p \in Pieces, Gathering(e, p.tx), p.no \notin e.have
    PROVE  LET added == Add(e, p)
           IN  /\ ~AllFragments(added) => Gathering(added, p.tx)
               /\ AllFragments(added) =>
                    /\ added.have = 0..p.tx.total - 1
                    /\ Assemble(added).have = added.have
                    /\ Assemble(added).frag0 = Whole(p.tx)
               /\ added.id = e.id
<1> DEFINE added == Add(e, p)
           tx == p.tx
<1>1. tx \in Transmissions /\ tx.total \in Nat \ {0} /\ p.no \in 0..tx.total - 1
      /\ p = Piece(tx, p.no) /\ p.no \in Numbers
  BY PieceFacts
<1>2. e.have # {} /\ e.have \subseteq 0..tx.total - 1 /\ ~e.complete
  BY DEF Gathering
<1>3. e.total = tx.total \/ (p.no # 0 /\ e.have = {0})
  BY DEF Gathering
<1>4. tx.total > 1
  BY <1>1, <1>2
<1>5. /\ added.have = e.have \union {p.no}
      /\ added.total = tx.total
      /\ ~added.complete
      /\ added.id = e.id
  <2>1. CASE p.no = 0
    BY <1>2, <1>3, <1>4, <2>1 DEF Add, Entry
  <2>2. CASE p.no # 0
    BY <1>2, <2>2 DEF Add, Entry
  <2> QED
    BY <2>1, <2>2
<1>6. 0 \in added.have => added.frag0 = <<Piece(tx, 0)>>
  <2>1. CASE p.no = 0
    BY <1>1, <2>1 DEF Add, Entry
  <2>2. CASE p.no # 0
    <3>1. added.frag0 = e.frag0
      BY <2>2 DEF Add, Entry
    <3> QED
      BY <1>5, <2>2, <3>1 DEF Gathering
  <2> QED
    BY <2>1, <2>2
<1>7. \A i \in added.have \ {0} : added.frags[i] = Piece(tx, i)
  <2>1. CASE p.no = 0
    <3>1. added.frags = e.frags
      BY <2>1 DEF Add, Entry
    <3> QED
      BY <1>5, <2>1, <3>1 DEF Gathering
  <2>2. CASE p.no # 0
    <3>1. added.frags = [e.frags EXCEPT ![p.no] = p]
      BY <2>2 DEF Add, Entry
    <3>2. e.frags \in [Numbers \ {0} -> Content]
      BY DEF Entry
    <3>3. added.frags[p.no] = p
      BY <1>1, <2>2, <3>1, <3>2
    <3>4. \A i \in e.have \ {0} : added.frags[i] = e.frags[i]
      BY <3>1, <3>2 DEF Entry
    <3> QED
      BY <1>1, <1>5, <3>3, <3>4 DEF Gathering
  <2> QED
    BY <2>1, <2>2
<1>8. added.have \subseteq 0..tx.total - 1
  BY <1>1, <1>2, <1>5
<1>9. AllFragments(added) <=> added.have = 0..tx.total - 1
  BY <1>1, <1>4, <1>5, <1>8, CountBits DEF AllFragments
<1>10. added.have # {} /\ added.have # {0}
  BY <1>2, <1>5
<1>11. ASSUME ~AllFragments(added) PROVE Gathering(added, tx)
  BY <1>5, <1>6, <1>7, <1>8, <1>9, <1>10, <1>11 DEF Gathering
<1>12. ASSUME AllFragments(added)
       PROVE  Assemble(added).have = added.have /\ Assemble(added).frag0 = Whole(tx)
  <2>1. added \in Entry
    BY AddType
  <2>2. Assemble(added).have = added.have
        /\ Assemble(added).frag0 = added.frag0 \o [i \in 1..added.total - 1 |-> added.frags[i]]
    BY <2>1 DEF Assemble, Entry
  <2>3. added.frag0 = <<Piece(tx, 0)>>
    BY <1>1, <1>6, <1>9, <1>12
  <2>4. [i \in 1..added.total - 1 |-> added.frags[i]] = [i \in 1..tx.total - 1 |-> Piece(tx, i)]
    <3>1. \A i \in 1..tx.total - 1 : added.frags[i] = Piece(tx, i)
      BY <1>1, <1>7, <1>9, <1>12
    <3> QED
      BY <1>5, <3>1
  <2> QED
    BY <2>2, <2>3, <2>4 DEF Whole
<1> QED
  BY <1>5, <1>9, <1>11, <1>12

(* The threads race for the entries of the queue, and every step keeps     *)
(* each entry about one transmission.                                      *)
THEOREM InductiveInvariant ==
    ASSUME OneFragmentation
    PROVE  Spec => []IInv
<1>1. Init => IInv
  <2> SUFFICES ASSUME Init PROVE \A s \in Slots : EntryInv(queue[s])
    BY TypeInit DEF Init, IInv
  <2> QED
    BY DEF Init, EntryInv, FreeEntry
<1>2. IInv /\ TypeOK' /\ [Next]_vars => IInv'
  <2> SUFFICES ASSUME IInv, TypeOK', [Next]_vars PROVE IInv'
    OBVIOUS
  <2> USE DEF history
  <2>1. TypeOK /\ \A s \in Slots : EntryInv(queue[s])
    BY DEF IInv
  <2>2. ASSUME UNCHANGED <<queue, assembled>> PROVE IInv'
    BY <2>2 DEF IInv
  <2>3. ASSUME NEW s \in Slots, NEW new, EntryInv(new),
               queue' = [queue EXCEPT ![s] = new], assembled' = assembled
        PROVE  IInv'
    BY <2>1, <2>3 DEF IInv, TypeOK
  <2>4. ASSUME NEW t \in Threads, Process(t) PROVE IInv'
    <3> DEFINE p == thread[t].piece
               s == thread[t].at
               e == queue[s]
               added == Add(e, p)
    <3>1. p \in Pieces /\ s \in Slots /\ e \in Entry /\ p.tx.total > 1
      BY <2>1, <2>4 DEF Process, TypeOK
    <3>2. EntryInv(e)
      BY <2>1, <3>1
    <3>3. CASE queue' = [queue EXCEPT ![s] = Overwrite(e, p)] /\ UNCHANGED assembled
      BY <2>3, <3>1, <3>3, OverwriteInv
    <3>4. CASE UNCHANGED <<queue, assembled>>
      BY <2>2, <3>4
    <3>5. ASSUME e.id = p.tx.id, p.no \notin e.have PROVE Gathering(e, p.tx)
      <4>1. p.tx \in Transmissions /\ p.tx.id # 0 /\ p.no \in 0..p.tx.total - 1
        BY <3>1, PieceFacts
      <4>2. PICK tx \in Transmissions :
                tx.id = e.id /\ (Gathering(e, tx) \/ Gathered(e, tx))
        BY <3>2, <3>5, <4>1 DEF EntryInv
      <4>3. tx = p.tx
        BY <3>5, <4>1, <4>2 DEF OneFragmentation
      <4> QED
        BY <3>5, <4>1, <4>2, <4>3 DEF Gathered
    <3>6. CASE /\ e.id = p.tx.id
               /\ p.no \notin e.have
               /\ ~AllFragments(added)
               /\ queue' = [queue EXCEPT ![s] = added]
               /\ UNCHANGED assembled
      <4>1. Gathering(added, p.tx) /\ added.id = p.tx.id
        BY <3>1, <3>5, <3>6, AddInv
      <4>2. EntryInv(added)
        BY <3>1, <4>1, PieceFacts DEF EntryInv
      <4> QED
        BY <2>3, <3>1, <3>6, <4>2
    <3>7. CASE /\ e.id = p.tx.id
               /\ p.no \notin e.have
               /\ AllFragments(added)
               /\ Decode(s, Assemble(added))
               /\ assembled' = assembled \union {Assemble(added).frag0}
      <4> DEFINE full == Assemble(added)
                 freed == [full EXCEPT !.inUse = FALSE]
                 kept == [full EXCEPT !.complete = TRUE]
      <4>1. full.have = 0..p.tx.total - 1 /\ full.frag0 = Whole(p.tx) /\ added.id = p.tx.id
        BY <3>1, <3>5, <3>7, AddInv
      <4>2. full \in Entry
        BY <3>1, <3>7, AddType, AssembleType DEF AllFragments
      <4>3. full.id = p.tx.id
        <5>1. added \in Entry
          BY <3>1, AddType
        <5> QED
          BY <4>1, <5>1 DEF Assemble, Entry
      <4> HIDE DEF full
      <4>4. EntryInv(freed) /\ EntryInv(kept)
        <5>1. p.tx \in Transmissions
          BY <3>1, PieceFacts
        <5>2. Gathered(freed, p.tx) /\ Gathered(kept, p.tx)
          BY <4>1, <4>2 DEF Gathered, Entry
        <5>3. freed.id = p.tx.id /\ kept.id = p.tx.id
          BY <4>2, <4>3 DEF Entry
        <5> HIDE DEF freed, kept, p
        <5> QED
          BY <5>1, <5>2, <5>3 DEF EntryInv
      <4>5. queue' = [queue EXCEPT ![s] = freed] \/ queue' = [queue EXCEPT ![s] = kept]
        BY <3>7 DEF Decode, full
      <4> HIDE DEF freed, kept
      <4>6. \A r \in Slots : EntryInv(queue'[r])
        BY <2>1, <3>1, <4>4, <4>5 DEF TypeOK
      <4>7. assembled' = assembled \union {Whole(p.tx)}
        BY <3>7, <4>1 DEF full
      <4>8. \A packet \in assembled' : \E tx \in Transmissions : packet = Whole(tx)
        BY <3>1, <4>7, PieceFacts DEF IInv
      <4> QED
        BY <4>6, <4>8 DEF IInv
    <3> QED
      BY <2>4, <3>3, <3>4, <3>6, <3>7 DEF Process
  <2>5. ASSUME NEW t \in Threads, ProcessWhole(t) PROVE IInv'
    <3> DEFINE p == thread[t].piece
               s == thread[t].at
               new == [queue[s] EXCEPT !.inUse = TRUE, !.id = p.tx.id, !.frag0 = <<p>>,
                                       !.total = 1, !.have = {0}, !.complete = TRUE]
    <3>1. p \in Pieces /\ s \in Slots /\ queue[s] \in Entry /\ p.tx.total = 1
      BY <2>1, <2>5 DEF ProcessWhole, TypeOK
    <3>2. queue' = [queue EXCEPT ![s] = new] /\ assembled' = assembled
      BY <2>5 DEF ProcessWhole
    <3>3. new.id = p.tx.id /\ new.have = {0} /\ new.frag0 = <<p>>
      BY <3>1 DEF Entry
    <3>4. {0} = 0..p.tx.total - 1 /\ <<p>> = Whole(p.tx) /\ p.tx \in Transmissions
      BY <3>1, WholeOfOne, PieceFacts
    <3> HIDE DEF new, p, s
    <3>5. EntryInv(new)
      BY <3>3, <3>4 DEF EntryInv, Gathered
    <3> QED
      BY <2>3, <3>1, <3>2, <3>5
  <2>6. ASSUME NEW s \in Slots, Retry(s) PROVE IInv'
    <3> DEFINE new == [queue[s] EXCEPT !.inUse = FALSE]
    <3>1. queue[s] \in Entry /\ queue[s].complete /\ EntryInv(queue[s])
      BY <2>1, <2>6 DEF Retry, TypeOK
    <3>2. /\ new.id = queue[s].id /\ new.have = queue[s].have /\ ~new.inUse
      BY <3>1 DEF Entry
    <3>3. queue' = [queue EXCEPT ![s] = new] /\ assembled' = assembled
      BY <2>1, <2>6 DEF Retry, TypeOK
    <3> HIDE DEF new
    <3>4. EntryInv(new)
      BY <3>1, <3>2 DEF EntryInv, Gathering, Gathered
    <3> QED
      BY <2>3, <3>3, <3>4
  <2>7. ASSUME NEW t \in Threads, NEW p \in Pieces, Lookup(t, p) \/ ReceiveWhole(t, p)
        PROVE  IInv'
    BY <2>2, <2>7 DEF Lookup, ReceiveWhole
  <2>8. ASSUME NEW t \in Threads, Claim(t) PROVE IInv'
    BY <2>2, <2>8 DEF Claim
  <2>9. CASE UNCHANGED vars
    BY <2>2, <2>9 DEF vars
  <2> QED
    BY <2>4, <2>5, <2>6, <2>7, <2>8, <2>9 DEF Next
<1> QED
  BY <1>1, <1>2, TypeCorrect, PTL DEF Spec

(* Reassembly is correct under every interleaving of the threads, for      *)
(* every size of the ring: a packet that is put together or held for a     *)
(* retry consists of exactly the pieces of one transmission.               *)
THEOREM ReassemblySafety ==
    ASSUME OneFragmentation
    PROVE  Spec => []AssembledWhole
<1>1. IInv => AssembledWhole
  <2> SUFFICES ASSUME IInv, NEW s \in Slots, queue[s].inUse, queue[s].complete
               PROVE  \E tx \in Transmissions : queue[s].frag0 = Whole(tx)
    BY DEF AssembledWhole, IInv
  <2> QED
    BY DEF IInv, EntryInv, Gathering, Gathered
<1> QED
  BY <1>1, InductiveInvariant, PTL

----------------------------------------------------------------------------
(* A copy of a piece is in the hands of a thread, or in an entry that can  *)
(* still become a decoded packet.                                          *)
Hands(p) == {t \in Threads : thread[t].step # "idle" /\ thread[t].piece = p}

Holds(e, p) ==
    /\ e.id = p.tx.id
    /\ p.no \in e.have
    /\ e.have # 0..p.tx.total - 1 \/ (e.inUse /\ e.complete)

HeldIn(p) == {s \in Slots : Holds(queue[s], p)}

(* Every decoding used up one copy of every piece.                         *)
CopiesInv ==
    \A p \in Pieces :
        /\ IsFiniteSet(Hands(p))
        /\ decoded[p.tx] + Cardinality(Hands(p)) + Cardinality(HeldIn(p)) <= arrivals[p]

LEMMA Fewer ==
    ASSUME NEW S, IsFiniteSet(S), NEW T, T \subseteq S
    PROVE  /\ IsFiniteSet(T)
           /\ Cardinality(T) \in Nat /\ Cardinality(S) \in Nat
           /\ Cardinality(T) <= Cardinality(S)
<1>1. IsFiniteSet(T)
  BY FS_Subset
<1> QED
  BY <1>1, FS_Subset, FS_CardinalityType

LEMMA OneMore ==
    ASSUME NEW S, IsFiniteSet(S), NEW x, NEW T, T \subseteq S \union {x}
    PROVE  /\ IsFiniteSet(T)
           /\ Cardinality(T) \in Nat /\ Cardinality(S) \in Nat
           /\ Cardinality(T) <= Cardinality(S) + 1
<1>1. /\ IsFiniteSet(S \union {x})
      /\ Cardinality(S \union {x}) <= Cardinality(S) + 1
      /\ Cardinality(S) \in Nat
  BY FS_AddElement, FS_CardinalityType
<1>2. /\ IsFiniteSet(T) /\ Cardinality(T) \in Nat
      /\ Cardinality(T) <= Cardinality(S \union {x})
      /\ Cardinality(S \union {x}) \in Nat
  BY <1>1, Fewer
<1> QED
  BY <1>1, <1>2

LEMMA OneLess ==
    ASSUME NEW S, IsFiniteSet(S), NEW x \in S, NEW T, T \subseteq S \ {x}
    PROVE  /\ IsFiniteSet(T)
           /\ Cardinality(T) \in Nat /\ Cardinality(S) \in Nat
           /\ Cardinality(T) + 1 <= Cardinality(S)
<1>1. /\ IsFiniteSet(S \ {x})
      /\ Cardinality(S \ {x}) = Cardinality(S) - 1
  BY FS_RemoveElement
<1>2. /\ IsFiniteSet(T) /\ Cardinality(T) \in Nat
      /\ Cardinality(T) <= Cardinality(S \ {x})
  BY <1>1, Fewer
<1>3. Cardinality(S) \in Nat
  BY FS_CardinalityType
<1> QED
  BY <1>1, <1>2, <1>3

LEMMA HeldFinite ==
    ASSUME NEW p
    PROVE  IsFiniteSet(HeldIn(p)) /\ Cardinality(HeldIn(p)) \in Nat
<1>1. IsFiniteSet(Slots)
  BY FS_Interval DEF Slots
<1>2. HeldIn(p) \subseteq Slots
  BY DEF HeldIn
<1> QED
  BY <1>1, <1>2, Fewer

(* A packet says which transmission it is of.                              *)
LEMMA WholeInjective ==
    ASSUME NEW tx \in Transmissions, NEW u \in Transmissions, Whole(tx) = Whole(u)
    PROVE  tx = u
<1>1. ASSUME NEW v \in Transmissions
      PROVE  Whole(v)[1] = Piece(v, 0)
  <2> DEFINE rest == [i \in 1..v.total - 1 |-> Piece(v, i)]
             any == {Piece(v, i) : i \in Nat}
  <2>1. rest \in [1..v.total - 1 -> any] /\ v.total - 1 \in Nat
    OBVIOUS
  <2>2. rest \in Seq(any) /\ <<Piece(v, 0)>> \in Seq(any)
    <3>1. Piece(v, 0) \in any
      OBVIOUS
    <3> HIDE DEF rest, any
    <3> QED
      BY <2>1, <3>1, SeqDef, SMTT(30)
  <2>3. Len(<<Piece(v, 0)>>) = 1 /\ <<Piece(v, 0)>>[1] = Piece(v, 0)
    OBVIOUS
  <2> HIDE DEF rest, any
  <2>4. (<<Piece(v, 0)>> \o rest)[1] = <<Piece(v, 0)>>[1]
    BY <2>2, <2>3, ConcatProperties
  <2> QED
    BY <2>3, <2>4 DEF Whole, rest
<1>2. Piece(tx, 0) = Piece(u, 0)
  BY <1>1
<1> QED
  BY <1>2 DEF Piece

LEMMA CountDecodedFacts ==
    ASSUME decoded \in [Transmissions -> Nat], NEW tx \in Transmissions,
           CountDecoded(Whole(tx))
    PROVE  \A u \in Transmissions :
              decoded'[u] = IF u = tx THEN decoded[u] + 1 ELSE decoded[u]
BY WholeInjective DEF CountDecoded

(* No step but one that takes a piece up or puts one down changes Hands.   *)
LEMMA TakenUp ==
    ASSUME TypeOK, CopiesInv, NEW t \in Threads, NEW p \in Pieces, thread[t].step = "idle",
           NEW new, thread' = [thread EXCEPT ![t] = new], new.step # "idle", new.piece = p
    PROVE  \A q \in Pieces :
              /\ IsFiniteSet(Hands(q)')
              /\ Cardinality(Hands(q)') \in Nat /\ Cardinality(Hands(q)) \in Nat
              /\ Cardinality(Hands(q)') <= Cardinality(Hands(q)) + (IF q = p THEN 1 ELSE 0)
<1> TAKE q \in Pieces
<1>1. IsFiniteSet(Hands(q))
  BY DEF CopiesInv
<1>2. CASE q = p
  <2>1. Hands(q)' \subseteq Hands(q) \union {t}
    BY DEF Hands, TypeOK
  <2> QED
    BY <1>1, <1>2, <2>1, OneMore
<1>3. CASE q # p
  <2>1. Hands(q)' \subseteq Hands(q)
    BY <1>3 DEF Hands, TypeOK
  <2> QED
    BY <1>1, <1>3, <2>1, Fewer
<1> QED
  BY <1>2, <1>3

LEMMA PutDown ==
    ASSUME TypeOK, CopiesInv, NEW t \in Threads, thread[t].step # "idle",
           thread' = [thread EXCEPT ![t] = Idle]
    PROVE  \A q \in Pieces :
              /\ IsFiniteSet(Hands(q)')
              /\ Cardinality(Hands(q)') \in Nat /\ Cardinality(Hands(q)) \in Nat
              /\ Cardinality(Hands(q)') + (IF q = thread[t].piece THEN 1 ELSE 0)
                    <= Cardinality(Hands(q))
<1> TAKE q \in Pieces
<1>1. IsFiniteSet(Hands(q))
  BY DEF CopiesInv
<1>2. CASE q = thread[t].piece
  <2>1. t \in Hands(q) /\ Hands(q)' \subseteq Hands(q) \ {t}
    BY <1>2 DEF Hands, TypeOK, Idle
  <2> QED
    BY <1>1, <1>2, <2>1, OneLess
<1>3. CASE q # thread[t].piece
  <2>1. Hands(q)' \subseteq Hands(q)
    BY DEF Hands, TypeOK, Idle
  <2> QED
    BY <1>1, <1>3, <2>1, Fewer
<1> QED
  BY <1>2, <1>3

(* Writing one entry changes in which entries a piece is held by that one. *)
LEMMA EntryWritten ==
    ASSUME TypeOK, NEW s \in Slots, NEW new, queue' = [queue EXCEPT ![s] = new], NEW q \in Pieces
    PROVE  /\ Cardinality(HeldIn(q)') \in Nat /\ Cardinality(HeldIn(q)) \in Nat
           /\ Cardinality(HeldIn(q)') <= Cardinality(HeldIn(q)) + 1
           /\ (Holds(new, q) => Holds(queue[s], q)) =>
                 Cardinality(HeldIn(q)') <= Cardinality(HeldIn(q))
           /\ ~Holds(new, q) /\ Holds(queue[s], q) =>
                 Cardinality(HeldIn(q)') + 1 <= Cardinality(HeldIn(q))
<1>1. IsFiniteSet(HeldIn(q))
  BY HeldFinite
<1>2. \A r \in Slots : queue'[r] = IF r = s THEN new ELSE queue[r]
  BY DEF TypeOK
<1>3. HeldIn(q)' \subseteq HeldIn(q) \union {s}
  BY <1>2 DEF HeldIn
<1>4. ASSUME Holds(new, q) => Holds(queue[s], q)
      PROVE  Cardinality(HeldIn(q)') <= Cardinality(HeldIn(q))
  <2>1. HeldIn(q)' \subseteq HeldIn(q)
    BY <1>2, <1>4 DEF HeldIn
  <2> QED
    BY <1>1, <2>1, Fewer
<1>5. ASSUME ~Holds(new, q), Holds(queue[s], q)
      PROVE  Cardinality(HeldIn(q)') + 1 <= Cardinality(HeldIn(q))
  <2>1. s \in HeldIn(q) /\ HeldIn(q)' \subseteq HeldIn(q) \ {s}
    BY <1>2, <1>5 DEF HeldIn
  <2> QED
    BY <1>1, <2>1, OneLess
<1>6. /\ Cardinality(HeldIn(q)') \in Nat /\ Cardinality(HeldIn(q)) \in Nat
      /\ Cardinality(HeldIn(q)') <= Cardinality(HeldIn(q)) + 1
  BY <1>1, <1>3, OneMore
<1> QED
  BY <1>4, <1>5, <1>6

(* The entry a piece was put in holds no other piece that it did not hold. *)
LEMMA PutIn ==
    ASSUME OneFragmentation, NEW e \in Entry, NEW p \in Pieces, NEW q \in Pieces, q # p
    PROVE  /\ ~Holds(Overwrite(e, p), q)
           /\ e.id = p.tx.id /\ Gathering(e, p.tx) /\ Holds(Add(e, p), q) => Holds(e, q)
<1>1. q.tx.id = p.tx.id => q.tx = p.tx /\ q.no # p.no
  BY PieceFacts DEF OneFragmentation, Piece
<1>2. Overwrite(e, p).id = p.tx.id /\ Overwrite(e, p).have = {p.no}
  BY DEF Overwrite, Entry
<1>3. Add(e, p).id = e.id /\ Add(e, p).have \subseteq e.have \union {p.no}
  BY DEF Add, Entry
<1> QED
  BY <1>1, <1>2, <1>3 DEF Holds, Gathering

LEMMA CopiesProcess ==
    ASSUME OneFragmentation, IInv, CopiesInv, NEW t \in Threads, Process(t)
    PROVE  CopiesInv'
<1> DEFINE p == thread[t].piece
           s == thread[t].at
           e == queue[s]
           added == Add(e, p)
           full == Assemble(added)
           freed == [full EXCEPT !.inUse = FALSE]
           kept == [full EXCEPT !.complete = TRUE]
<1>1. TypeOK /\ (\A r \in Slots : EntryInv(queue[r]))
  BY DEF IInv
<1>2. p \in Pieces /\ s \in Slots /\ e \in Entry /\ p.tx.total > 1 /\ EntryInv(e)
  BY <1>1 DEF Process, TypeOK
<1>3. \A q \in Pieces :
         /\ IsFiniteSet(Hands(q)')
         /\ Cardinality(Hands(q)') \in Nat /\ Cardinality(Hands(q)) \in Nat
         /\ Cardinality(Hands(q)') + (IF q = p THEN 1 ELSE 0) <= Cardinality(Hands(q))
  BY <1>1, PutDown DEF Process
<1>4. \A q \in Pieces : /\ decoded[q.tx] \in Nat /\ arrivals[q] \in Nat
                        /\ arrivals'[q] = arrivals[q]
                        /\ decoded[q.tx] + Cardinality(Hands(q)) + Cardinality(HeldIn(q))
                              <= arrivals[q]
  BY <1>1, PieceFacts DEF Process, TypeOK, CopiesInv
<1> SUFFICES ASSUME NEW q \in Pieces
             PROVE  decoded'[q.tx] + Cardinality(Hands(q)') + Cardinality(HeldIn(q)')
                        <= arrivals'[q]
  BY <1>3 DEF CopiesInv
<1>5. ASSUME NEW new, queue' = [queue EXCEPT ![s] = new]
       PROVE  /\ Cardinality(HeldIn(q)') \in Nat /\ Cardinality(HeldIn(q)) \in Nat
              /\ (q # p /\ Holds(new, q) => Holds(e, q)) =>
                    Cardinality(HeldIn(q)') <= Cardinality(HeldIn(q)) + (IF q = p THEN 1 ELSE 0)
              /\ ~Holds(new, q) =>
                    Cardinality(HeldIn(q)') + (IF Holds(e, q) THEN 1 ELSE 0) <= Cardinality(HeldIn(q))
  <2>1. s \in Slots
    BY <1>2
  <2>2. /\ Cardinality(HeldIn(q)') \in Nat /\ Cardinality(HeldIn(q)) \in Nat
        /\ Cardinality(HeldIn(q)') <= Cardinality(HeldIn(q)) + 1
        /\ (Holds(new, q) => Holds(e, q)) =>
              Cardinality(HeldIn(q)') <= Cardinality(HeldIn(q))
        /\ ~Holds(new, q) /\ Holds(e, q) =>
              Cardinality(HeldIn(q)') + 1 <= Cardinality(HeldIn(q))
    <3> HIDE DEF s, p
    <3> QED
      BY <1>1, <1>5, <2>1, EntryWritten
  <2> HIDE DEF s, p, e
  <2> QED
    BY <2>2
<1>6. ASSUME e.id = p.tx.id, p.no \notin e.have PROVE Gathering(e, p.tx)
  <2>1. p.tx \in Transmissions /\ p.tx.id # 0 /\ p.no \in 0..p.tx.total - 1
    BY <1>2, PieceFacts
  <2>2. PICK tx \in Transmissions :
            tx.id = e.id /\ (Gathering(e, tx) \/ Gathered(e, tx))
    BY <1>2, <1>6, <2>1 DEF EntryInv
  <2>3. tx = p.tx
    BY <1>6, <2>1, <2>2 DEF OneFragmentation
  <2> QED
    BY <1>6, <2>1, <2>2, <2>3 DEF Gathered
<1>7. CASE queue' = [queue EXCEPT ![s] = Overwrite(e, p)] /\ UNCHANGED decoded
  <2>1. q # p => ~Holds(Overwrite(e, p), q)
    BY <1>2, PutIn
  <2>2. /\ Cardinality(HeldIn(q)') \in Nat /\ Cardinality(HeldIn(q)) \in Nat
        /\ Cardinality(HeldIn(q)') <= Cardinality(HeldIn(q)) + (IF q = p THEN 1 ELSE 0)
    <3> DEFINE new == Overwrite(e, p)
    <3>1. q # p => ~Holds(new, q)
      BY <2>1
    <3>2. queue' = [queue EXCEPT ![s] = new]
      BY <1>7
    <3> HIDE DEF new, p, s, e
    <3> QED
      BY <1>5, <3>1, <3>2
  <2> QED
    BY <1>3, <1>4, <1>7, <2>2
<1>8. CASE UNCHANGED <<queue, decoded>>
  <2>1. HeldIn(q)' = HeldIn(q) /\ Cardinality(HeldIn(q)) \in Nat
    BY <1>8, HeldFinite DEF HeldIn
  <2> QED
    BY <1>3, <1>4, <1>8, <2>1
<1>9. CASE /\ e.id = p.tx.id
           /\ p.no \notin e.have
           /\ queue' = [queue EXCEPT ![s] = added]
           /\ UNCHANGED decoded
  <2>1. q # p /\ Holds(added, q) => Holds(e, q)
    BY <1>2, <1>6, <1>9, PutIn
  <2>2. /\ Cardinality(HeldIn(q)') \in Nat /\ Cardinality(HeldIn(q)) \in Nat
        /\ Cardinality(HeldIn(q)') <= Cardinality(HeldIn(q)) + (IF q = p THEN 1 ELSE 0)
    <3>1. queue' = [queue EXCEPT ![s] = added]
      BY <1>9
    <3> HIDE DEF added, p, s, e
    <3> QED
      BY <1>5, <2>1, <3>1
  <2> QED
    BY <1>3, <1>4, <1>9, <2>2
<1>10. CASE /\ e.id = p.tx.id
           /\ p.no \notin e.have
           /\ AllFragments(added)
           /\ Decode(s, full)
  <2>1. Gathering(e, p.tx)
    BY <1>6, <1>10
  <2>2. full.have = 0..p.tx.total - 1 /\ full.frag0 = Whole(p.tx) /\ added.id = p.tx.id
        /\ added.have = 0..p.tx.total - 1
    BY <1>2, <1>10, <2>1, AddInv
  <2>3. added \in Entry /\ full \in Entry
    BY <1>2, <1>10, AddType, AssembleType DEF AllFragments
  <2>4. full.id = p.tx.id
    BY <2>2, <2>3 DEF Assemble, Entry
  <2>5. p.tx \in Transmissions /\ q.tx \in Transmissions /\ q.no \in 0..q.tx.total - 1
    BY <1>2, PieceFacts
  <2>6. added.have \subseteq e.have \union {p.no}
    BY <1>2 DEF Add, Entry
  <2>7. q.tx = p.tx /\ q # p => Holds(e, q)
    <3> SUFFICES ASSUME q.tx = p.tx, q # p PROVE Holds(e, q)
      OBVIOUS
    <3>1. q.no # p.no
      BY <1>2, PieceFacts DEF Piece
    <3>2. q.no \in e.have
      BY <2>2, <2>5, <2>6, <3>1
    <3> QED
      BY <1>10, <2>1, <3>2 DEF Holds, Gathering
  <2>8. q.tx # p.tx => ~Holds(e, q)
    BY <1>10, <2>5 DEF Holds, OneFragmentation
  <2>9. CASE queue' = [queue EXCEPT ![s] = freed] /\ CountDecoded(full.frag0)
    <3>1. decoded'[q.tx] = IF q.tx = p.tx THEN decoded[q.tx] + 1 ELSE decoded[q.tx]
      BY <1>1, <2>2, <2>5, <2>9, CountDecodedFacts, SMTT(30) DEF TypeOK
    <3>2. freed.id = p.tx.id /\ freed.have = 0..p.tx.total - 1 /\ ~freed.inUse
      BY <2>2, <2>3, <2>4 DEF Entry
    <3> HIDE DEF freed
    <3>3. ~Holds(freed, q)
      BY <2>5, <3>2 DEF Holds, OneFragmentation
    <3>4. /\ Cardinality(HeldIn(q)') \in Nat /\ Cardinality(HeldIn(q)) \in Nat
          /\ Cardinality(HeldIn(q)') + (IF q.tx = p.tx /\ q # p THEN 1 ELSE 0)
                <= Cardinality(HeldIn(q))
      <4>1. queue' = [queue EXCEPT ![s] = freed]
        BY <2>9
      <4>2. /\ Cardinality(HeldIn(q)') \in Nat /\ Cardinality(HeldIn(q)) \in Nat
            /\ Cardinality(HeldIn(q)') + (IF Holds(e, q) THEN 1 ELSE 0)
                  <= Cardinality(HeldIn(q))
        <5> HIDE DEF p, s, e
        <5> QED
          BY <1>5, <3>3, <4>1
      <4> HIDE DEF p, s, e
      <4> QED
        BY <2>7, <4>2
    <3> QED
      BY <1>3, <1>4, <3>1, <3>4
  <2>10. CASE queue' = [queue EXCEPT ![s] = kept] /\ UNCHANGED decoded
    <3>1. kept.id = p.tx.id
      BY <2>3, <2>4 DEF Entry
    <3> HIDE DEF kept
    <3>2. q # p => (Holds(kept, q) => Holds(e, q))
      BY <2>5, <2>7, <3>1 DEF Holds, OneFragmentation
    <3>3. /\ Cardinality(HeldIn(q)') \in Nat /\ Cardinality(HeldIn(q)) \in Nat
          /\ Cardinality(HeldIn(q)') <= Cardinality(HeldIn(q)) + (IF q = p THEN 1 ELSE 0)
      <4>1. queue' = [queue EXCEPT ![s] = kept]
        BY <2>10
      <4> HIDE DEF p, s, e
      <4> QED
        BY <1>5, <3>2, <4>1
    <3> QED
      BY <1>3, <1>4, <2>10, <3>3
  <2> QED
    BY <1>10, <2>9, <2>10 DEF Decode
<1> QED
  BY <1>7, <1>8, <1>9, <1>10 DEF Process

LEMMA CopiesProcessWhole ==
    ASSUME OneFragmentation, IInv, CopiesInv, NEW t \in Threads, ProcessWhole(t)
    PROVE  CopiesInv'
<1> DEFINE p == thread[t].piece
           s == thread[t].at
           new == [queue[s] EXCEPT !.inUse = TRUE, !.id = p.tx.id, !.frag0 = <<p>>,
                                   !.total = 1, !.have = {0}, !.complete = TRUE]
<1>1. TypeOK
  BY DEF IInv
<1>2. p \in Pieces /\ s \in Slots /\ queue[s] \in Entry /\ p.tx.total = 1
  BY <1>1 DEF ProcessWhole, TypeOK
<1>3. \A q \in Pieces :
         /\ IsFiniteSet(Hands(q)')
         /\ Cardinality(Hands(q)') \in Nat /\ Cardinality(Hands(q)) \in Nat
         /\ Cardinality(Hands(q)') + (IF q = p THEN 1 ELSE 0) <= Cardinality(Hands(q))
  BY <1>1, PutDown DEF ProcessWhole
<1> SUFFICES ASSUME NEW q \in Pieces
             PROVE  decoded'[q.tx] + Cardinality(Hands(q)') + Cardinality(HeldIn(q)')
                        <= arrivals'[q]
  BY <1>3 DEF CopiesInv
<1>4. /\ decoded' = decoded /\ arrivals' = arrivals
      /\ decoded[q.tx] \in Nat /\ arrivals[q] \in Nat
      /\ decoded[q.tx] + Cardinality(Hands(q)) + Cardinality(HeldIn(q)) <= arrivals[q]
  BY <1>1, PieceFacts DEF ProcessWhole, history, TypeOK, CopiesInv
<1>5. queue' = [queue EXCEPT ![s] = new]
  BY DEF ProcessWhole
<1>6. q # p => ~Holds(new, q)
  <2>1. new.id = p.tx.id /\ new.have = {0}
    BY <1>2 DEF Entry
  <2>2. p.no = 0
    BY <1>2, PieceFacts
  <2>3. q.tx.id = p.tx.id => q.tx = p.tx
    BY <1>2, PieceFacts DEF OneFragmentation
  <2>4. q.tx = p.tx /\ q.no = p.no => q = p
    BY <1>2, PieceFacts
  <2> HIDE DEF new, p
  <2> QED
    BY <2>1, <2>2, <2>3, <2>4 DEF Holds
<1>7. /\ Cardinality(HeldIn(q)') \in Nat /\ Cardinality(HeldIn(q)) \in Nat
      /\ Cardinality(HeldIn(q)') <= Cardinality(HeldIn(q)) + 1
      /\ ~Holds(new, q) => Cardinality(HeldIn(q)') <= Cardinality(HeldIn(q))
  <2> HIDE DEF new, s, p
  <2> QED
    BY <1>1, <1>2, <1>5, EntryWritten
<1> HIDE DEF new, p, s
<1> QED
  BY <1>3, <1>4, <1>6, <1>7

(* An entry is decoded or given up: either way nothing is left in it.      *)
LEMMA CopiesRetry ==
    ASSUME OneFragmentation, IInv, CopiesInv, NEW s \in Slots, Retry(s)
    PROVE  CopiesInv'
<1> DEFINE e == queue[s]
           new == [queue[s] EXCEPT !.inUse = FALSE]
<1>1. TypeOK /\ e \in Entry /\ EntryInv(e) /\ e.inUse /\ e.complete
  BY DEF IInv, TypeOK, Retry
<1>2. PICK tx \in Transmissions : tx.id = e.id /\ Gathered(e, tx)
  BY <1>1 DEF EntryInv, Gathering
<1>3. queue' = [queue EXCEPT ![s] = new]
  BY <1>1 DEF Retry, TypeOK
<1>4. new.id = tx.id /\ new.have = 0..tx.total - 1 /\ ~new.inUse
  BY <1>1, <1>2 DEF Gathered, Entry
<1>5. arrivals' = arrivals
  BY DEF Retry
<1> SUFFICES ASSUME NEW q \in Pieces
             PROVE  decoded'[q.tx] + Cardinality(Hands(q)) + Cardinality(HeldIn(q)')
                        <= arrivals[q]
  <2>1. \A q \in Pieces : Hands(q)' = Hands(q)
    BY DEF Retry, Hands
  <2> QED
    BY <1>5, <2>1 DEF CopiesInv
<1>6. /\ decoded[q.tx] \in Nat /\ arrivals[q] \in Nat /\ Cardinality(Hands(q)) \in Nat
      /\ decoded[q.tx] + Cardinality(Hands(q)) + Cardinality(HeldIn(q)) <= arrivals[q]
  BY <1>1, PieceFacts, FS_CardinalityType DEF TypeOK, CopiesInv
<1>7. q.tx \in Transmissions /\ q.no \in 0..q.tx.total - 1
  BY PieceFacts
<1>8. q.tx = tx => Holds(e, q)
  BY <1>1, <1>2, <1>7 DEF Holds, Gathered
<1>9. ~Holds(new, q)
  <2> HIDE DEF new
  <2> QED
    BY <1>4, <1>7 DEF Holds, OneFragmentation
<1>10. /\ Cardinality(HeldIn(q)') \in Nat /\ Cardinality(HeldIn(q)) \in Nat
       /\ Cardinality(HeldIn(q)') <= Cardinality(HeldIn(q))
       /\ Holds(e, q) => Cardinality(HeldIn(q)') + 1 <= Cardinality(HeldIn(q))
  <2> HIDE DEF new
  <2> QED
    BY <1>1, <1>3, <1>9, EntryWritten
<1>11. decoded'[q.tx] = decoded[q.tx] \/ (q.tx = tx /\ decoded'[q.tx] = decoded[q.tx] + 1)
  <2>1. CASE decoded' = decoded
    BY <2>1
  <2>2. CASE CountDecoded(e.frag0)
    BY <1>1, <1>2, <1>7, <2>2, CountDecodedFacts, ZenonT(30) DEF Gathered, TypeOK
  <2> QED
    BY <2>1, <2>2 DEF Retry
<1> HIDE DEF e, new
<1> QED
  BY <1>6, <1>8, <1>10, <1>11

(* A piece that arrives is one copy more.                                  *)
LEMMA CopiesArrive ==
    ASSUME TypeOK, CopiesInv, NEW t \in Threads, NEW p \in Pieces,
           Lookup(t, p) \/ ReceiveWhole(t, p)
    PROVE  CopiesInv'
<1>1. \A q \in Pieces : HeldIn(q)' = HeldIn(q)
  BY DEF Lookup, ReceiveWhole, HeldIn
<1>2. \A q \in Pieces :
         /\ arrivals'[q] = IF q = p THEN arrivals[q] + 1 ELSE arrivals[q]
         /\ arrivals[q] \in Nat /\ decoded[q.tx] \in Nat
         /\ IsFiniteSet(Hands(q)) /\ Cardinality(Hands(q)) \in Nat
         /\ Cardinality(HeldIn(q)) \in Nat
         /\ decoded[q.tx] + Cardinality(Hands(q)) + Cardinality(HeldIn(q)) <= arrivals[q]
  BY HeldFinite, PieceFacts, FS_CardinalityType DEF TypeOK, CopiesInv, Lookup, ReceiveWhole
<1>3. ASSUME decoded' = decoded,
             NEW new, thread' = [thread EXCEPT ![t] = new], new.step # "idle", new.piece = p
      PROVE  CopiesInv'
  <2>1. thread[t].step = "idle"
    BY DEF Lookup, ReceiveWhole
  <2>2. \A q \in Pieces :
           /\ IsFiniteSet(Hands(q)')
           /\ Cardinality(Hands(q)') \in Nat
           /\ Cardinality(Hands(q)') <= Cardinality(Hands(q)) + (IF q = p THEN 1 ELSE 0)
    BY <1>3, <2>1, TakenUp
  <2> QED
    BY <1>1, <1>2, <1>3, <2>2 DEF CopiesInv
<1>4. CASE thread' = thread /\ CountDecoded(<<p>>) /\ p.tx.total = 1
  <2>1. <<p>> = Whole(p.tx) /\ p.tx \in Transmissions
    BY <1>4, WholeOfOne, PieceFacts
  <2>2. \A u \in Transmissions : decoded'[u] = IF u = p.tx THEN decoded[u] + 1 ELSE decoded[u]
    BY <1>4, <2>1, CountDecodedFacts DEF TypeOK
  <2>3. \A q \in Pieces : q.tx \in Transmissions /\ (q.tx = p.tx => q = p)
    BY <1>4, PieceFacts
  <2>4. \A q \in Pieces : Hands(q)' = Hands(q)
    BY <1>4 DEF Hands
  <2> QED
    BY <1>1, <1>2, <2>2, <2>3, <2>4 DEF CopiesInv
<1>5. ASSUME decoded' = decoded, NEW at, NEW step \in {"claim", "process"},
             thread' = [thread EXCEPT ![t] = [step |-> step, piece |-> p, at |-> at]]
      PROVE  CopiesInv'
  <2> DEFINE new == [step |-> step, piece |-> p, at |-> at]
  <2>1. new.step # "idle" /\ new.piece = p
    OBVIOUS
  <2>2. thread' = [thread EXCEPT ![t] = new]
    BY <1>5
  <2> HIDE DEF new
  <2> QED
    BY <1>3, <1>5, <2>1, <2>2
<1>6. CASE Lookup(t, p)
  <2>1. /\ decoded' = decoded
        /\ \E at, step : /\ step \in {"claim", "process"}
                         /\ thread' = [thread EXCEPT ![t] =
                                          [step |-> step, piece |-> p, at |-> at]]
    BY <1>6 DEF Lookup
  <2> QED
    BY <1>5, <2>1
<1>7. CASE ReceiveWhole(t, p)
  <2>1. \/ thread' = thread /\ CountDecoded(<<p>>) /\ p.tx.total = 1
        \/ /\ decoded' = decoded
           /\ thread' = [thread EXCEPT ![t] = [step |-> "process", piece |-> p, at |-> ptr]]
    BY <1>7 DEF ReceiveWhole
  <2> QED
    BY <1>4, <1>5, <2>1
<1> QED
  BY <1>6, <1>7

LEMMA CopiesStep ==
    ASSUME OneFragmentation, IInv, CopiesInv, [Next]_vars
    PROVE  CopiesInv'
<1>1. TypeOK
  BY DEF IInv
<1>2. ASSUME UNCHANGED <<queue, decoded, arrivals>>,
             \A u \in Threads : /\ thread'[u].step = "idle" <=> thread[u].step = "idle"
                                /\ thread'[u].piece = thread[u].piece
      PROVE  CopiesInv'
  <2>1. \A q \in Pieces : Hands(q)' = Hands(q) /\ HeldIn(q)' = HeldIn(q)
    BY <1>2 DEF Hands, HeldIn
  <2> QED
    BY <1>2, <2>1 DEF CopiesInv
<1>3. ASSUME NEW t \in Threads, NEW p \in Pieces, Lookup(t, p) \/ ReceiveWhole(t, p)
      PROVE  CopiesInv'
  BY <1>1, <1>3, CopiesArrive
<1>4. ASSUME NEW t \in Threads, Claim(t)
      PROVE  CopiesInv'
  BY <1>1, <1>2, <1>4 DEF Claim, TypeOK
<1>5. ASSUME NEW t \in Threads, Process(t) \/ ProcessWhole(t)
      PROVE  CopiesInv'
  BY <1>5, CopiesProcess, CopiesProcessWhole
<1>6. ASSUME NEW s \in Slots, Retry(s)
      PROVE  CopiesInv'
  BY <1>6, CopiesRetry
<1>7. CASE UNCHANGED vars
  BY <1>2, <1>7 DEF vars, history
<1> QED
  BY <1>3, <1>4, <1>5, <1>6, <1>7 DEF Next

(* No packet is decoded more often than the rarest of its pieces arrived:  *)
(* duplicates, retries, timeouts and entries used again replay nothing.    *)
THEOREM NoReplay ==
    ASSUME OneFragmentation
    PROVE  Spec => []DecodedOncePerCopy
<1>1. Init => CopiesInv
  <2> SUFFICES ASSUME Init, NEW p \in Pieces
               PROVE  /\ IsFiniteSet(Hands(p))
                      /\ decoded[p.tx] + Cardinality(Hands(p)) + Cardinality(HeldIn(p))
                            <= arrivals[p]
    BY DEF CopiesInv
  <2>1. Hands(p) = {}
    BY DEF Init, Hands, Idle
  <2>2. HeldIn(p) = {}
    BY DEF Init, HeldIn, Holds, FreeEntry
  <2>3. decoded[p.tx] = 0 /\ arrivals[p] = 0
    BY PieceFacts DEF Init
  <2>4. IsFiniteSet({}) /\ Cardinality({}) = 0
    BY FS_EmptySet
  <2> QED
    BY <2>1, <2>2, <2>3, <2>4
<1>2. IInv /\ CopiesInv => DecodedOncePerCopy
  <2> SUFFICES ASSUME IInv, CopiesInv, NEW p \in Pieces PROVE decoded[p.tx] <= arrivals[p]
    BY DEF DecodedOncePerCopy
  <2>1. /\ decoded[p.tx] \in Nat /\ arrivals[p] \in Nat
        /\ Cardinality(Hands(p)) \in Nat /\ Cardinality(HeldIn(p)) \in Nat
        /\ decoded[p.tx] + Cardinality(Hands(p)) + Cardinality(HeldIn(p)) <= arrivals[p]
    BY HeldFinite, PieceFacts, FS_CardinalityType DEF IInv, TypeOK, CopiesInv
  <2> QED
    BY <2>1
<1>3. IInv /\ CopiesInv /\ [Next]_vars => CopiesInv'
  BY CopiesStep
<1> QED
  BY <1>1, <1>2, <1>3, InductiveInvariant, PTL DEF Spec

----------------------------------------------------------------------------
(* How far the pointer of the ring is ahead of an entry.                   *)
Distance(s) == IF s < ptr THEN ptr - s ELSE ptr + QueueSize - s

Arrived(tx) == {p \in Pieces : p.tx = tx /\ arrivals[p] > 0}

Taken(t, tx) == thread[t].step # "idle" /\ thread[t].piece.tx = tx

(* A transmission that began, and that nothing excuses from being decoded. *)
Owed(tx) ==
    /\ Arrived(tx) # {}
    /\ window[tx] <= QueueSize
    /\ tx \notin givenUp
    /\ tx \notin raced
    /\ decoded[tx] = 0

(* An entry has what arrived of tx, or a thread is about to add it, and no *)
(* thread will overwrite the entry before the ring has gone around.        *)
Keeps(tx, s) ==
    /\ queue[s].inUse
    /\ queue[s].id = tx.id
    /\ queue[s].have = 0..tx.total - 1 => queue[s].complete
    /\ Distance(s) <= window[tx]
    /\ \A q \in Arrived(tx) :
         \/ q.no \in queue[s].have
         \/ \E t \in Threads :
              thread[t].step = "process" /\ thread[t].at = s /\ thread[t].piece = q
    /\ \A t \in Threads : thread[t].at = s =>
         /\ thread[t].step = "process" => thread[t].piece.tx = tx
         /\ thread[t].step = "claim" => window[tx] >= QueueSize
    /\ tx.total > 1 =>
         /\ \A r \in Slots : queue[r].id = tx.id => r = s
         /\ \A t \in Threads : Taken(t, tx) => thread[t].step = "process" /\ thread[t].at = s

(* The first piece of tx is in the hands of a thread that has a new entry  *)
(* for it.                                                                 *)
Begins(tx, t) ==
    /\ Taken(t, tx)
    /\ Arrived(tx) = {thread[t].piece}
    /\ \A r \in Slots : queue[r].id # tx.id
    /\ thread[t].step = "claim" => thread[t].at = ptr
    /\ thread[t].step = "process" => Distance(thread[t].at) = 1 /\ window[tx] >= 1

Tracked(tx) ==
    \/ \E s \in Slots : Keeps(tx, s)
    \/ \E t \in Threads : Begins(tx, t)

TrackedInv == \A tx \in Transmissions : Owed(tx) => Tracked(tx)

(* What is in a thread's hands or in an entry did arrive, and only a piece *)
(* of a transmission that was raced is in hand while others are at work.   *)
HandsInv ==
    \A t \in Threads : thread[t].step # "idle" =>
        /\ arrivals[thread[t].piece] > 0
        /\ thread[t].piece.tx \notin raced =>
              \A u \in Threads \ {t} : thread[u].step = "idle"

BegunInv ==
    \A tx \in Transmissions : Arrived(tx) = {} => \A s \in Slots : queue[s].id # tx.id

KeepInv == TrackedInv /\ HandsInv /\ BegunInv

LEMMA Modulo ==
    ASSUME NEW x \in Nat, x < 2 * QueueSize
    PROVE  x % QueueSize = IF x < QueueSize THEN x ELSE x - QueueSize
OBVIOUS

LEMMA BehindFacts ==
    ASSUME TypeOK, NEW k \in 1..QueueSize
    PROVE  Behind(k) \in Slots /\ Distance(Behind(k)) = k
<1> DEFINE x == ptr + QueueSize - k
<1>1. ptr \in Nat /\ ptr < QueueSize
  BY DEF TypeOK, Slots
<1>2. x \in Nat /\ x < 2 * QueueSize
  BY <1>1
<1>3. Behind(k) = IF x < QueueSize THEN x ELSE x - QueueSize
  <2> HIDE DEF x
  <2>1. x % QueueSize = IF x < QueueSize THEN x ELSE x - QueueSize
    BY <1>2, Modulo
  <2> QED
    BY <2>1 DEF Behind, x
<1> QED
  BY <1>1, <1>3 DEF Slots, Distance

LEMMA DistanceFacts ==
    ASSUME TypeOK, NEW s \in Slots
    PROVE  /\ Distance(s) \in 1..QueueSize
           /\ Distance(s) = QueueSize <=> s = ptr
           /\ \A r \in Slots : Distance(r) = Distance(s) => r = s
BY DEF TypeOK, Slots, Distance

LEMMA AdvanceDistance ==
    ASSUME TypeOK, NEW s \in Slots, Advance
    PROVE  Distance(s)' = IF s = ptr THEN 1 ELSE Distance(s) + 1
<1>1. ptr \in Nat /\ ptr < QueueSize /\ s \in Nat /\ s < QueueSize
  BY DEF TypeOK, Slots
<1>2. ptr' = IF ptr + 1 < QueueSize THEN ptr + 1 ELSE 0
  <2>1. (ptr + 1) % QueueSize =
            IF ptr + 1 < QueueSize THEN ptr + 1 ELSE ptr + 1 - QueueSize
    BY <1>1, Modulo
  <2> QED
    BY <1>1, <2>1 DEF Advance
<1> QED
  BY <1>1, <1>2 DEF Distance

(* What the histories say is never taken back.                             *)
LEMMA HistoryGrows ==
    ASSUME TypeOK, [Next]_vars
    PROVE  /\ \A tx \in Transmissions : /\ window[tx] <= window'[tx]
                                        /\ decoded'[tx] = 0 => decoded[tx] = 0
           /\ givenUp \subseteq givenUp' /\ raced \subseteq raced'
           /\ \A p \in Pieces : arrivals[p] > 0 => arrivals'[p] > 0
<1> USE DEF history
<1>2. \A packet : CountDecoded(packet) =>
          \A tx \in Transmissions : decoded'[tx] = 0 => decoded[tx] = 0
  BY DEF CountDecoded, TypeOK
<1>3. Advance => \A tx \in Transmissions : window[tx] <= window'[tx]
  BY DEF Advance, TypeOK
<1>4. \A tx \in Transmissions : window[tx] <= window[tx]
  BY DEF TypeOK
<1>5. ASSUME NEW t \in Threads, NEW p \in Pieces, Lookup(t, p) \/ ReceiveWhole(t, p)
      PROVE  /\ raced \subseteq raced' /\ givenUp' = givenUp
             /\ \A q \in Pieces : arrivals[q] > 0 => arrivals'[q] > 0
  <2>1. /\ NoteRace(t, p) /\ givenUp' = givenUp
        /\ arrivals' = [arrivals EXCEPT ![p] = @ + 1]
    BY <1>5 DEF Lookup, ReceiveWhole
  <2>2. raced \subseteq raced'
    BY <2>1 DEF NoteRace
  <2>3. \A q \in Pieces : arrivals[q] > 0 => arrivals'[q] > 0
    BY <2>1 DEF TypeOK
  <2> QED
    BY <2>1, <2>2, <2>3
<1>6. ASSUME NEW t \in Threads, NEW p \in Pieces, Lookup(t, p) PROVE window' = window /\ decoded' = decoded
  BY <1>6 DEF Lookup
<1>7. ASSUME NEW t \in Threads, NEW p \in Pieces, ReceiveWhole(t, p)
      PROVE  \A tx \in Transmissions : /\ window[tx] <= window'[tx]
                                       /\ decoded'[tx] = 0 => decoded[tx] = 0
  BY <1>2, <1>3, <1>4, <1>7 DEF ReceiveWhole
<1>8. ASSUME NEW t \in Threads, Claim(t)
      PROVE  /\ \A tx \in Transmissions : window[tx] <= window'[tx]
             /\ UNCHANGED <<decoded, givenUp, raced, arrivals>>
  BY <1>3, <1>8 DEF Claim
<1>9. ASSUME NEW t \in Threads, Process(t)
      PROVE  /\ \A tx \in Transmissions : decoded'[tx] = 0 => decoded[tx] = 0
             /\ UNCHANGED <<window, givenUp, raced, arrivals>>
  BY <1>2, <1>9 DEF Process, Decode
<1>10. ASSUME NEW t \in Threads, ProcessWhole(t) PROVE UNCHANGED history
  BY <1>10 DEF ProcessWhole
<1>11. ASSUME NEW s \in Slots, Retry(s)
       PROVE  /\ \A tx \in Transmissions : decoded'[tx] = 0 => decoded[tx] = 0
              /\ givenUp \subseteq givenUp'
              /\ UNCHANGED <<window, raced, arrivals>>
  BY <1>2, <1>11 DEF Retry
<1>12. CASE UNCHANGED vars
  BY <1>4, <1>12 DEF vars
<1> HIDE DEF history
<1>13. CASE \E t \in Threads : \E p \in Pieces : Lookup(t, p) \/ ReceiveWhole(t, p)
  BY <1>4, <1>5, <1>6, <1>7, <1>13
<1>14. CASE \E t \in Threads : Claim(t) \/ Process(t) \/ ProcessWhole(t)
  BY <1>4, <1>8, <1>9, <1>10, <1>14 DEF history
<1>15. CASE \E s \in Slots : Retry(s)
  BY <1>4, <1>11, <1>15
<1> QED
  BY <1>12, <1>13, <1>14, <1>15 DEF Next

LEMMA OwedBefore ==
    ASSUME TypeOK, TypeOK', [Next]_vars, NEW tx \in Transmissions, Owed(tx)'
    PROVE  Arrived(tx) # {} => Owed(tx)
<1>1. window[tx] \in Nat /\ window'[tx] \in Nat
  BY DEF TypeOK
<1> QED
  BY <1>1, HistoryGrows DEF Owed

(* What a thread that receives a piece does, whatever becomes of it.       *)
LEMMA ArriveFacts ==
    ASSUME TypeOK, NEW t \in Threads, NEW p \in Pieces, Lookup(t, p) \/ ReceiveWhole(t, p)
    PROVE  /\ thread[t].step = "idle"
           /\ arrivals'[p] > 0
           /\ \A q \in Pieces : q # p => arrivals'[q] = arrivals[q]
           /\ \A u \in Threads : u # t => thread'[u] = thread[u]
           /\ thread'[t] = thread[t] \/ thread'[t].piece = p
           /\ (\E u \in Threads \ {t} : thread[u].step # "idle") =>
                 p.tx \in raced' /\ \A tx \in Transmissions : InHand(tx) => tx \in raced'
           /\ queue' = queue
<1>1. /\ arrivals' = [arrivals EXCEPT ![p] = @ + 1] /\ NoteRace(t, p) /\ queue' = queue
      /\ thread[t].step = "idle"
  BY DEF Lookup, ReceiveWhole
<1>2. /\ arrivals'[p] > 0
      /\ \A q \in Pieces : q # p => arrivals'[q] = arrivals[q]
  BY <1>1 DEF TypeOK
<1>3. \/ thread' = thread
      \/ \E at, step : thread' = [thread EXCEPT ![t] = [step |-> step, piece |-> p, at |-> at]]
  <2>1. CASE Lookup(t, p)
    BY <2>1 DEF Lookup
  <2>2. CASE ReceiveWhole(t, p)
    BY <2>2 DEF ReceiveWhole
  <2> QED
    BY <2>1, <2>2
<1>4. /\ \A u \in Threads : u # t => thread'[u] = thread[u]
      /\ thread'[t] = thread[t] \/ thread'[t].piece = p
  BY <1>3 DEF TypeOK
<1>5. p.tx \in Transmissions
  BY PieceFacts
<1>6. (\E u \in Threads \ {t} : thread[u].step # "idle") =>
         p.tx \in raced' /\ \A tx \in Transmissions : InHand(tx) => tx \in raced'
  BY <1>1, <1>5 DEF NoteRace
<1> QED
  BY <1>1, <1>2, <1>4, <1>6

LEMMA HandsStep ==
    ASSUME TypeOK, HandsInv, [Next]_vars
    PROVE  HandsInv'
<1>1. ASSUME NEW t \in Threads, NEW p \in Pieces, Lookup(t, p) \/ ReceiveWhole(t, p)
      PROVE  HandsInv'
  <2> SUFFICES ASSUME NEW v \in Threads, thread'[v].step # "idle"
               PROVE  /\ arrivals'[thread'[v].piece] > 0
                      /\ thread'[v].piece.tx \notin raced' =>
                            \A u \in Threads \ {v} : thread'[u].step = "idle"
    BY DEF HandsInv
  <2>1. CASE v = t
    <3>1. thread'[v].piece = p
      BY <1>1, <2>1, ArriveFacts
    <3>2. p.tx \notin raced' => \A u \in Threads \ {v} : thread'[u].step = "idle"
      BY <1>1, <2>1, ArriveFacts
    <3> QED
      BY <1>1, <3>1, <3>2, ArriveFacts
  <2>2. CASE v # t
    <3>1. thread'[v] = thread[v]
      BY <1>1, <2>2, ArriveFacts
    <3>2. thread[v].piece \in Pieces /\ thread[v].piece.tx \in Transmissions
      BY <3>1, PieceFacts DEF TypeOK
    <3>3. InHand(thread[v].piece.tx)
      BY <3>1 DEF InHand
    <3>4. thread'[v].piece.tx \in raced'
      BY <1>1, <2>2, <3>1, <3>2, <3>3, ArriveFacts
    <3>5. arrivals[thread[v].piece] > 0
      BY <3>1 DEF HandsInv
    <3>6. arrivals'[thread'[v].piece] > 0
      BY <3>1, <3>2, <3>5, HistoryGrows
    <3> QED
      BY <3>4, <3>6
  <2> QED
    BY <2>1, <2>2
<1>2. ASSUME UNCHANGED <<arrivals, raced>>,
             \A u \in Threads : /\ thread'[u].step # "idle" => thread[u].step # "idle"
                                                            /\ thread'[u].piece = thread[u].piece
      PROVE  HandsInv'
  BY <1>2 DEF HandsInv
<1>3. ASSUME NEW t \in Threads, Claim(t) \/ Process(t) \/ ProcessWhole(t)
      PROVE  HandsInv'
  <2>1. UNCHANGED <<arrivals, raced>>
    BY <1>3 DEF Claim, Process, ProcessWhole, history
  <2>2. \/ thread[t].step = "claim" /\ thread' = [thread EXCEPT ![t].step = "process"]
        \/ thread' = [thread EXCEPT ![t] = Idle]
    BY <1>3 DEF Claim, Process, ProcessWhole
  <2>3. \A u \in Threads : thread'[u].step # "idle" => thread[u].step # "idle"
                                                    /\ thread'[u].piece = thread[u].piece
    <3>1. CASE thread' = [thread EXCEPT ![t] = Idle]
      BY <3>1 DEF Idle, TypeOK
    <3>2. CASE thread[t].step = "claim" /\ thread' = [thread EXCEPT ![t].step = "process"]
      <4>1. thread'[t].piece = thread[t].piece
        BY <3>2 DEF TypeOK
      <4>2. \A u \in Threads : u # t => thread'[u] = thread[u]
        BY <3>2 DEF TypeOK
      <4> QED
        BY <3>2, <4>1, <4>2
    <3> QED
      BY <2>2, <3>1, <3>2
  <2> QED
    BY <1>2, <2>1, <2>3
<1>4. ASSUME NEW s \in Slots, Retry(s) PROVE HandsInv'
  BY <1>2, <1>4 DEF Retry
<1>5. CASE UNCHANGED vars
  BY <1>2, <1>5 DEF vars, history
<1> QED
  BY <1>1, <1>3, <1>4, <1>5 DEF Next

(* Only a piece that arrived gives an entry its packet ID.                 *)
LEMMA ProcessFacts ==
    ASSUME TypeOK, NEW t \in Threads, Process(t) \/ ProcessWhole(t)
    PROVE  /\ thread[t].step = "process"
           /\ thread[t].piece \in Pieces /\ thread[t].at \in Slots
           /\ thread' = [thread EXCEPT ![t] = Idle]
           /\ UNCHANGED <<ptr, arrivals, window, givenUp, raced>>
           /\ \A r \in Slots : r # thread[t].at => queue'[r] = queue[r]
           /\ queue'[thread[t].at].id \in {queue[thread[t].at].id, thread[t].piece.tx.id}
<1> DEFINE p == thread[t].piece
           s == thread[t].at
           e == queue[s]
<1>1. /\ thread[t].step = "process"
      /\ thread' = [thread EXCEPT ![t] = Idle]
      /\ UNCHANGED <<ptr, arrivals, window, givenUp, raced>>
  BY DEF Process, ProcessWhole, history
<1>2. p \in Pieces /\ s \in Slots /\ e \in Entry
  BY <1>1 DEF TypeOK
<1>3. CASE ProcessWhole(t)
  BY <1>1, <1>2, <1>3 DEF ProcessWhole, TypeOK, Entry
<1>4. CASE Process(t)
  <2>1. Overwrite(e, p).id = p.tx.id /\ Add(e, p).id = e.id
    BY <1>2 DEF Overwrite, Add, Entry
  <2>2. AllFragments(Add(e, p)) => Assemble(Add(e, p)) \in Entry /\ Assemble(Add(e, p)).id = e.id
    <3>1. Add(e, p) \in Entry
      BY <1>2, AddType
    <3>2. AllFragments(Add(e, p)) => Assemble(Add(e, p)) \in Entry
      BY <3>1, AssembleType DEF AllFragments
    <3> QED
      BY <2>1, <3>1, <3>2 DEF Assemble, Entry
  <2>3. \E new : queue' = [queue EXCEPT ![s] = new] /\ new.id \in {e.id, p.tx.id}
    <3>1. CASE UNCHANGED queue
      <4>1. queue' = [queue EXCEPT ![s] = e]
        BY <1>2, <3>1 DEF TypeOK
      <4> QED
        BY <4>1
    <3>2. CASE queue' = [queue EXCEPT ![s] = Overwrite(e, p)]
      BY <2>1, <3>2
    <3>3. CASE queue' = [queue EXCEPT ![s] = Add(e, p)]
      BY <2>1, <3>3
    <3>4. CASE AllFragments(Add(e, p)) /\ Decode(s, Assemble(Add(e, p)))
      <4> DEFINE full == Assemble(Add(e, p))
      <4>1. full \in Entry /\ full.id = e.id
        BY <2>2, <3>4
      <4>2. \/ queue' = [queue EXCEPT ![s] = [full EXCEPT !.inUse = FALSE]]
            \/ queue' = [queue EXCEPT ![s] = [full EXCEPT !.complete = TRUE]]
        BY <3>4 DEF Decode
      <4> HIDE DEF full
      <4>3. [full EXCEPT !.inUse = FALSE].id = e.id /\ [full EXCEPT !.complete = TRUE].id = e.id
        BY <4>1 DEF Entry
      <4> QED
        BY <4>2, <4>3
    <3> QED
      BY <1>4, <3>1, <3>2, <3>3, <3>4 DEF Process
  <2> HIDE DEF e, p, s
  <2> QED
    BY <1>1, <1>2, <2>3 DEF TypeOK, e, p, s
<1> QED
  BY <1>3, <1>4

LEMMA BegunStep ==
    ASSUME TypeOK, HandsInv, BegunInv, OneFragmentation, [Next]_vars
    PROVE  BegunInv'
<1> SUFFICES ASSUME NEW tx \in Transmissions, Arrived(tx)' = {}, NEW r \in Slots
             PROVE  queue'[r].id # tx.id
  BY DEF BegunInv
<1>1. Arrived(tx) = {}
  BY HistoryGrows DEF Arrived
<1>2. queue[r].id # tx.id
  BY <1>1 DEF BegunInv
<1>3. ASSUME NEW t \in Threads, Process(t) \/ ProcessWhole(t) PROVE queue'[r].id # tx.id
  <2>1. thread[t].piece.tx # tx
    BY <1>1, <1>3, ProcessFacts DEF HandsInv, Arrived
  <2>2. thread[t].piece.tx.id # tx.id
    BY <1>3, <2>1, ProcessFacts, PieceFacts DEF OneFragmentation
  <2> QED
    BY <1>2, <1>3, <2>2, ProcessFacts
<1>4. ASSUME NEW s \in Slots, Retry(s) PROVE queue'[r].id # tx.id
  BY <1>2, <1>4 DEF Retry, TypeOK, Entry
<1>5. ASSUME queue' = queue PROVE queue'[r].id # tx.id
  BY <1>2, <1>5
<1>6. ASSUME NEW t \in Threads, NEW p \in Pieces, Lookup(t, p) \/ ReceiveWhole(t, p)
      PROVE  queue' = queue
  BY <1>6 DEF Lookup, ReceiveWhole
<1>7. ASSUME NEW t \in Threads, Claim(t) PROVE queue' = queue
  BY <1>7 DEF Claim
<1>8. CASE UNCHANGED vars
  BY <1>5, <1>8 DEF vars
<1> QED
  BY <1>3, <1>4, <1>5, <1>6, <1>7, <1>8 DEF Next

----------------------------------------------------------------------------
(* An entry that is not written keeps a transmission while threads leave   *)
(* it alone and the pointer moves no further than the window.              *)
LEMMA KeepsUntouched ==
    ASSUME TypeOK, NEW tx \in Transmissions, NEW s \in Slots, Keeps(tx, s),
           queue'[s] = queue[s],
           Distance(s)' <= window'[tx],
           window[tx] >= QueueSize => window'[tx] >= QueueSize,
           Arrived(tx)' \subseteq Arrived(tx),
           tx.total > 1 => \A r \in Slots : queue'[r].id = tx.id => queue[r].id = tx.id,
           \A t \in Threads :
              \/ thread'[t] = thread[t]
              \/ /\ thread[t].step = "process" => thread[t].at # s
                 /\ thread'[t].step = "process" => thread'[t].at # s
                 /\ thread'[t].step = "claim" /\ thread'[t].at = s => window'[tx] >= QueueSize
                 /\ tx.total > 1 => ~Taken(t, tx)'
    PROVE  Keeps(tx, s)'
<1>1. \A q \in Arrived(tx)' :
         \/ q.no \in queue'[s].have
         \/ \E t \in Threads :
              thread'[t].step = "process" /\ thread'[t].at = s /\ thread'[t].piece = q
  BY DEF Keeps
<1>2. \A t \in Threads : thread'[t].at = s =>
         /\ thread'[t].step = "process" => thread'[t].piece.tx = tx
         /\ thread'[t].step = "claim" => window'[tx] >= QueueSize
  BY DEF Keeps
<1>3. tx.total > 1 =>
         /\ \A r \in Slots : queue'[r].id = tx.id => r = s
         /\ \A t \in Threads : Taken(t, tx)' => thread'[t].step = "process" /\ thread'[t].at = s
  BY DEF Keeps, Taken
<1> QED
  BY <1>1, <1>2, <1>3 DEF Keeps

(* The pointer moves on: the entry of a transmission whose window is not   *)
(* over is not the next one to be taken.                                   *)
LEMMA KeepsAdvance ==
    ASSUME TypeOK, TypeOK', NEW tx \in Transmissions, NEW s \in Slots, Keeps(tx, s), Advance,
           Arrived(tx)' # {}, window'[tx] <= QueueSize
    PROVE  /\ s # ptr
           /\ window'[tx] = window[tx] + 1
           /\ Distance(s)' <= window'[tx]
           /\ \A t \in Threads : thread[t].at = s => thread[t].step # "claim"
<1>1. window[tx] \in Nat /\ window'[tx] \in Nat /\ window[tx] <= QueueSize + 1
  BY DEF TypeOK
<1>2. Started(tx)
  BY DEF Arrived, Started
<1>3. window'[tx] = IF window[tx] <= QueueSize THEN window[tx] + 1 ELSE window[tx]
  BY <1>2 DEF Advance
<1>4. window[tx] < QueueSize /\ window'[tx] = window[tx] + 1
  BY <1>1, <1>3
<1>5. Distance(s) <= window[tx] /\ Distance(s) \in 1..QueueSize
  BY DistanceFacts DEF Keeps
<1>6. s # ptr
  BY <1>1, <1>4, <1>5, DistanceFacts
<1>7. Distance(s)' = Distance(s) + 1
  BY <1>6, AdvanceDistance
<1>8. \A t \in Threads : thread[t].at = s => thread[t].step # "claim"
  BY <1>1, <1>4 DEF Keeps
<1> QED
  BY <1>1, <1>4, <1>5, <1>6, <1>7, <1>8

LEMMA TrackedClaim ==
    ASSUME TypeOK, TypeOK', HandsInv, NEW tx \in Transmissions, Owed(tx)', Tracked(tx),
           tx \notin raced, NEW t \in Threads, Claim(t)
    PROVE  Tracked(tx)'
<1>1. /\ thread[t].step = "claim" /\ thread' = [thread EXCEPT ![t].step = "process"]
      /\ queue' = queue /\ arrivals' = arrivals /\ Advance
  BY DEF Claim
<1>2. /\ \A u \in Threads : u # t => thread'[u] = thread[u]
      /\ thread'[t].step = "process" /\ thread'[t].piece = thread[t].piece
      /\ thread'[t].at = thread[t].at
  BY <1>1 DEF TypeOK
<1>3. Arrived(tx)' = Arrived(tx) /\ Arrived(tx)' # {} /\ window'[tx] <= QueueSize
  BY <1>1 DEF Arrived, Owed
<1>4. ASSUME NEW s \in Slots, Keeps(tx, s) PROVE Keeps(tx, s)'
  <2>a. /\ Distance(s)' <= window'[tx] /\ window'[tx] = window[tx] + 1
        /\ \A u \in Threads : thread[u].at = s => thread[u].step # "claim"
    BY <1>1, <1>3, <1>4, KeepsAdvance
  <2>1. /\ Distance(s)' <= window'[tx]
        /\ window'[tx] = window[tx] + 1 /\ window[tx] \in Nat
        /\ thread[t].at # s
    <3>1. window[tx] \in Nat
      BY DEF TypeOK
    <3> QED
      BY <1>1, <2>a, <3>1
  <2>2. tx.total > 1 => ~Taken(t, tx)
    BY <1>1, <1>4 DEF Keeps
  <2>3. tx.total > 1 => ~Taken(t, tx)'
    BY <1>1, <1>2, <2>2 DEF Taken
  <2> QED
    BY <1>1, <1>2, <1>3, <1>4, <2>1, <2>3, KeepsUntouched
<1>5. ASSUME NEW u \in Threads, Begins(tx, u) PROVE Begins(tx, u)'
  <2>1. u = t
    BY <1>1, <1>5 DEF Begins, Taken, HandsInv
  <2>2. thread[t].at = ptr /\ ptr \in Slots
    BY <1>1, <1>5, <2>1 DEF Begins, TypeOK
  <2>3. Distance(thread[t].at)' = 1
    <3>1. PICK s \in Slots : s = thread[t].at /\ s = thread'[t].at
      BY <1>2, <2>2
    <3>2. Distance(s)' = 1
      BY <1>1, <2>2, <3>1, AdvanceDistance
    <3> QED
      BY <3>1, <3>2 DEF Distance
  <2>4. window'[tx] >= 1
    <3>1. Started(tx)
      BY <1>3 DEF Arrived, Started
    <3> QED
      BY <1>1, <3>1 DEF Advance, TypeOK
  <2> QED
    BY <1>1, <1>2, <1>3, <1>5, <2>1, <2>3, <2>4 DEF Begins, Taken
<1> QED
  BY <1>4, <1>5 DEF Tracked

LEMMA LookupFacts ==
    ASSUME TypeOK, NEW t \in Threads, NEW p \in Pieces, Lookup(t, p)
    PROVE  \/ /\ thread'[t].step = "process" /\ thread'[t].piece = p
              /\ thread'[t].at \in Slots
              /\ queue[thread'[t].at].inUse /\ queue[thread'[t].at].id = p.tx.id
           \/ /\ thread'[t].step = "claim" /\ thread'[t].piece = p /\ thread'[t].at = ptr
              /\ \A r \in Slots : ~(queue[r].inUse /\ queue[r].id = p.tx.id)
<1>1. CASE \E k \in Matches(p.tx.id) :
              thread' = [thread EXCEPT ![t] =
                            [step |-> "process", piece |-> p, at |-> Behind(k)]]
  <2>1. PICK k \in Matches(p.tx.id) :
              thread' = [thread EXCEPT ![t] =
                            [step |-> "process", piece |-> p, at |-> Behind(k)]]
    BY <1>1
  <2>2. Behind(k) \in Slots /\ queue[Behind(k)].inUse /\ queue[Behind(k)].id = p.tx.id
    BY BehindFacts DEF Matches
  <2>3. thread'[t] = [step |-> "process", piece |-> p, at |-> Behind(k)]
    BY <2>1 DEF TypeOK
  <2> QED
    BY <2>2, <2>3
<1>2. CASE /\ Matches(p.tx.id) = {}
           /\ thread' = [thread EXCEPT ![t] = [step |-> "claim", piece |-> p, at |-> ptr]]
  <2>1. ASSUME NEW r \in Slots PROVE ~(queue[r].inUse /\ queue[r].id = p.tx.id)
    <3>1. PICK k \in 1..QueueSize : k = Distance(r)
      BY DistanceFacts
    <3>2. Behind(k) = r
      BY <3>1, BehindFacts, DistanceFacts
    <3> QED
      BY <1>2, <3>2 DEF Matches
  <2>2. thread'[t] = [step |-> "claim", piece |-> p, at |-> ptr]
    BY <1>2 DEF TypeOK
  <2> QED
    BY <2>1, <2>2
<1> QED
  BY <1>1, <1>2 DEF Lookup

(* A piece arrives while another of its transmission is in hand: a race.   *)
LEMMA BegunIsRaced ==
    ASSUME TypeOK, NEW t \in Threads, NEW p \in Pieces, Lookup(t, p) \/ ReceiveWhole(t, p),
           NEW tx \in Transmissions, NEW u \in Threads, Taken(u, tx)
    PROVE  tx \in raced'
<1>1. u # t /\ InHand(tx)
  BY ArriveFacts DEF Taken, InHand
<1> QED
  BY <1>1, ArriveFacts DEF Taken

LEMMA ArrivedFacts ==
    ASSUME TypeOK, NEW t \in Threads, NEW p \in Pieces, Lookup(t, p) \/ ReceiveWhole(t, p),
           NEW tx \in Transmissions
    PROVE  /\ p.tx # tx => Arrived(tx)' = Arrived(tx)
           /\ p.tx = tx => Arrived(tx)' = Arrived(tx) \union {p}
<1>1. /\ arrivals'[p] > 0
      /\ \A q \in Pieces : q # p => arrivals'[q] = arrivals[q]
  BY ArriveFacts
<1> QED
  BY <1>1 DEF Arrived

LEMMA TrackedLookup ==
    ASSUME OneFragmentation, TypeOK, TypeOK', HandsInv, BegunInv,
           NEW tx \in Transmissions, Owed(tx)', Arrived(tx) # {} => Tracked(tx),
           NEW t \in Threads, NEW p \in Pieces, Lookup(t, p)
    PROVE  Tracked(tx)'
<1>1. /\ queue' = queue /\ ptr' = ptr /\ window' = window /\ tx \notin raced'
      /\ thread[t].step = "idle"
      /\ \A u \in Threads : u # t => thread'[u] = thread[u]
  BY ArriveFacts DEF Lookup, Owed
<1>2. p.tx \in Transmissions /\ p.tx.total > 1 /\ (p.tx.id = tx.id => p.tx = tx)
  BY PieceFacts DEF OneFragmentation, Lookup
<1>3. ~\E u \in Threads : Taken(u, tx)
  BY <1>1, BegunIsRaced
<1>4. window[tx] \in Nat /\ QueueSize \in Nat
  BY DEF TypeOK
<1>5. ASSUME NEW s \in Slots, Keeps(tx, s), p.tx # tx PROVE Keeps(tx, s)'
  <2>1. Distance(s)' = Distance(s) /\ Distance(s) <= window[tx]
    BY <1>1, <1>5 DEF Distance, Keeps
  <2>2. ~Taken(t, tx)' /\ (thread'[t].step = "process" => thread'[t].at # s)
    BY <1>2, <1>5, LookupFacts DEF Taken, Keeps
  <2>3. thread'[t].step = "claim" /\ thread'[t].at = s => window'[tx] >= QueueSize
    BY <1>1, <2>1, LookupFacts, DistanceFacts
  <2> QED
    BY <1>1, <1>5, <2>1, <2>2, <2>3, ArrivedFacts, KeepsUntouched
<1>6. ASSUME NEW s \in Slots, Keeps(tx, s), p.tx = tx PROVE Keeps(tx, s)'
  <2>1. Distance(s)' = Distance(s)
    BY <1>1 DEF Distance
  <2>2. thread'[t].step = "process" /\ thread'[t].piece = p /\ thread'[t].at = s
    BY <1>2, <1>6, LookupFacts DEF Keeps
  <2>3. ASSUME NEW q \in Arrived(tx)'
        PROVE  \/ q.no \in queue'[s].have
               \/ \E u \in Threads :
                    thread'[u].step = "process" /\ thread'[u].at = s /\ thread'[u].piece = q
    <3>1. CASE q = p
      BY <2>2, <3>1
    <3>2. CASE q # p
      <4>1. q \in Arrived(tx)
        BY <1>6, <3>2, ArrivedFacts
      <4>2. ASSUME NEW u \in Threads, thread[u].step = "process" PROVE thread'[u] = thread[u]
        BY <1>1, <4>2
      <4> QED
        BY <1>1, <1>6, <4>1, <4>2 DEF Keeps
    <3> QED
      BY <3>1, <3>2
  <2>4. ASSUME NEW u \in Threads, thread'[u].at = s
        PROVE  /\ thread'[u].step = "process" => thread'[u].piece.tx = tx
               /\ thread'[u].step = "claim" => window'[tx] >= QueueSize
    <3>1. CASE u = t
      BY <1>6, <2>2, <3>1
    <3>2. CASE u # t
      BY <1>1, <1>6, <2>4, <3>2 DEF Keeps
    <3> QED
      BY <3>1, <3>2
  <2>5. /\ \A r \in Slots : queue'[r].id = tx.id => r = s
        /\ \A u \in Threads : Taken(u, tx)' => thread'[u].step = "process" /\ thread'[u].at = s
    BY <1>1, <1>2, <1>6, <2>2 DEF Keeps, Taken
  <2> QED
    BY <1>1, <1>6, <2>1, <2>3, <2>4, <2>5 DEF Keeps
<1>7. CASE Arrived(tx) = {}
  <2>1. p.tx = tx /\ Arrived(tx)' = {p}
    BY <1>7, ArrivedFacts DEF Owed
  <2>2. \A r \in Slots : queue[r].id # tx.id
    BY <1>7 DEF BegunInv
  <2>3. thread'[t].step = "claim" /\ thread'[t].piece = p /\ thread'[t].at = ptr
    BY <2>1, <2>2, LookupFacts
  <2>4. Begins(tx, t)'
    BY <1>1, <2>1, <2>2, <2>3 DEF Begins, Taken
  <2> QED
    BY <2>4 DEF Tracked
<1>8. CASE Tracked(tx)
  BY <1>3, <1>5, <1>6, <1>8 DEF Tracked, Begins
<1> QED
  BY <1>7, <1>8

LEMMA TrackedReceiveWhole ==
    ASSUME OneFragmentation, TypeOK, TypeOK', HandsInv, BegunInv,
           NEW tx \in Transmissions, Owed(tx)', Arrived(tx) # {} => Tracked(tx),
           NEW t \in Threads, NEW p \in Pieces, ReceiveWhole(t, p)
    PROVE  Tracked(tx)'
<1>1. /\ queue' = queue /\ tx \notin raced' /\ thread[t].step = "idle"
      /\ \A u \in Threads : u # t => thread'[u] = thread[u]
  BY ArriveFacts DEF Owed
<1>2. p.tx \in Transmissions /\ p.tx.total = 1 /\ (p.tx.id = tx.id => p.tx = tx)
  BY PieceFacts DEF OneFragmentation, ReceiveWhole
<1>3. ~\E u \in Threads : Taken(u, tx)
  BY <1>1, BegunIsRaced
<1>4. window[tx] \in Nat /\ window'[tx] \in Nat /\ QueueSize \in Nat
  BY DEF TypeOK
<1>5. tx = p.tx => \A q \in Pieces : q.tx = tx => q = p
  BY <1>2, PieceFacts
<1>6. CASE CountDecoded(<<p>>) /\ UNCHANGED <<ptr, thread, window>>
  <2>1. p.tx # tx
    <3> SUFFICES ASSUME p.tx = tx PROVE FALSE
      OBVIOUS
    <3>1. <<p>> = Whole(tx)
      BY <1>2, WholeOfOne
    <3>2. decoded'[tx] = decoded[tx] + 1 /\ decoded[tx] \in Nat
      BY <1>6, <3>1, CountDecodedFacts DEF TypeOK
    <3> QED
      BY <3>2 DEF Owed
  <2>2. Arrived(tx)' = Arrived(tx) /\ Arrived(tx) # {}
    BY <2>1, ArrivedFacts DEF Owed
  <2>3. ASSUME NEW s \in Slots, Keeps(tx, s) PROVE Keeps(tx, s)'
    <3>1. Distance(s)' = Distance(s) /\ Distance(s) <= window[tx]
      BY <1>6, <2>3 DEF Distance, Keeps
    <3> QED
      BY <1>1, <1>6, <2>2, <2>3, <3>1, KeepsUntouched
  <2> QED
    BY <1>3, <2>2, <2>3 DEF Tracked, Begins
<1>7. CASE /\ Advance
           /\ thread' = [thread EXCEPT ![t] = [step |-> "process", piece |-> p, at |-> ptr]]
  <2>1. thread'[t].step = "process" /\ thread'[t].piece = p /\ thread'[t].at = ptr
    BY <1>7 DEF TypeOK
  <2>2. CASE Arrived(tx) = {}
    <3>1. p.tx = tx /\ Arrived(tx)' = {p}
      BY <2>2, ArrivedFacts DEF Owed
    <3>2. \A r \in Slots : queue[r].id # tx.id
      BY <2>2 DEF BegunInv
    <3>3. Distance(ptr) = QueueSize /\ ptr \in Slots
      BY DistanceFacts DEF TypeOK
    <3>4. Distance(thread[t].at)' = 1
      <4>1. PICK s \in Slots : s = ptr /\ s = thread'[t].at
        BY <2>1, <3>3
      <4>2. Distance(s)' = 1
        BY <1>7, <4>1, AdvanceDistance
      <4> QED
        BY <4>1, <4>2 DEF Distance
    <3>5. window'[tx] >= 1
      <4>1. Started(tx)
        BY <3>1 DEF Arrived, Started
      <4> QED
        BY <1>7, <4>1 DEF Advance, TypeOK
    <3>6. Begins(tx, t)'
      BY <1>1, <2>1, <3>1, <3>2, <3>4, <3>5 DEF Begins, Taken
    <3> QED
      BY <3>6 DEF Tracked
  <2>3. CASE Arrived(tx) # {}
    <3>1. Arrived(tx)' \subseteq Arrived(tx)
      BY <1>5, <2>3, ArrivedFacts DEF Arrived
    <3>2. ASSUME NEW s \in Slots, Keeps(tx, s) PROVE Keeps(tx, s)'
      <4>1. /\ s # ptr /\ window'[tx] = window[tx] + 1
            /\ Distance(s)' <= window'[tx]
        BY <1>7, <3>2, KeepsAdvance DEF Owed
      <4>2. tx.total > 1 => ~Taken(t, tx)'
        BY <1>2, <2>1 DEF Taken
      <4>3. window[tx] >= QueueSize => window'[tx] >= QueueSize
        BY <1>4, <4>1
      <4> QED
        BY <1>1, <2>1, <3>1, <3>2, <4>1, <4>2, <4>3, KeepsUntouched
    <3> QED
      BY <1>3, <2>3, <3>2 DEF Tracked, Begins
  <2> QED
    BY <2>2, <2>3
<1> QED
  BY <1>6, <1>7 DEF ReceiveWhole

LEMMA AddFields ==
    ASSUME NEW e \in Entry, NEW p \in Pieces
    PROVE  /\ Add(e, p).id = e.id
           /\ Add(e, p).have \subseteq e.have \union {p.no}
           /\ e.have \subseteq Add(e, p).have
           /\ Add(e, p).inUse = e.inUse
<1>1. CASE p.no = 0
  BY <1>1 DEF Add, Entry
<1>2. CASE p.no # 0
  BY <1>2 DEF Add, Entry
<1> QED
  BY <1>1, <1>2

(* What the thread that owns an entry leaves in it.                        *)
LEMMA OwnPiece ==
    ASSUME OneFragmentation, IInv, NEW t \in Threads, Process(t),
           NEW tx \in Transmissions, thread[t].piece.tx = tx, decoded'[tx] = 0
    PROVE  LET s == thread[t].at
               p == thread[t].piece
           IN  /\ queue'[s].id = tx.id
               /\ queue[s].id = tx.id => /\ queue[s].have \subseteq queue'[s].have
                                         /\ queue[s].inUse => queue'[s].inUse
               /\ queue[s].id # tx.id => queue'[s].inUse
               /\ p.no \in queue'[s].have
               /\ (queue[s].have = 0..tx.total - 1 => queue[s].complete) \/ queue[s].id # tx.id =>
                     (queue'[s].have = 0..tx.total - 1 => queue'[s].complete)
<1> DEFINE p == thread[t].piece
           s == thread[t].at
           e == queue[s]
           added == Add(e, p)
           full == Assemble(added)
<1>1. TypeOK /\ \A r \in Slots : EntryInv(queue[r])
  BY DEF IInv
<1>2. p \in Pieces /\ s \in Slots /\ e \in Entry /\ p.tx.total > 1 /\ EntryInv(e) /\ p.tx = tx
  BY <1>1 DEF Process, TypeOK
<1>3. p.no \in 0..tx.total - 1 /\ tx.total \in Nat /\ tx.id # 0 /\ decoded[tx] \in Nat
  BY <1>1, <1>2, PieceFacts DEF TypeOK
<1>4. \A new : queue' = [queue EXCEPT ![s] = new] => queue'[s] = new
  BY <1>1, <1>2 DEF TypeOK
<1>5. CASE e.id # tx.id /\ queue' = [queue EXCEPT ![s] = Overwrite(e, p)]
  <2>1. queue'[s] = Overwrite(e, p)
    BY <1>4, <1>5
  <2>2. /\ Overwrite(e, p).id = tx.id /\ Overwrite(e, p).have = {p.no}
        /\ Overwrite(e, p).inUse
    BY <1>2 DEF Overwrite, Entry
  <2>3. {p.no} # 0..tx.total - 1
    <3>1. 0 \in 0..tx.total - 1 /\ 1 \in 0..tx.total - 1
      BY <1>2, <1>3
    <3> QED
      BY <3>1
  <2> QED
    BY <1>5, <2>1, <2>2, <2>3
<1>6. CASE e.id = tx.id /\ p.no \in e.have /\ UNCHANGED queue
  BY <1>6
<1>7. ASSUME e.id = tx.id, p.no \notin e.have PROVE Gathering(e, tx)
  <2>1. PICK u \in Transmissions : u.id = e.id /\ (Gathering(e, u) \/ Gathered(e, u))
    BY <1>2, <1>3, <1>7 DEF EntryInv
  <2>2. u = tx
    BY <1>7, <2>1 DEF OneFragmentation
  <2> QED
    BY <1>3, <1>7, <2>1, <2>2 DEF Gathered
<1>8. e.id = tx.id => /\ added \in Entry /\ added.id = tx.id
                      /\ added.have \subseteq e.have \union {p.no}
                      /\ e.have \subseteq added.have
                      /\ added.inUse = e.inUse
  BY <1>2, AddType, AddFields
<1>9. CASE /\ e.id = tx.id
           /\ p.no \notin e.have
           /\ ~AllFragments(added)
           /\ queue' = [queue EXCEPT ![s] = added]
  <2>1. queue'[s] = added
    BY <1>4, <1>9
  <2>2. Gathering(added, tx)
    BY <1>2, <1>7, <1>9, AddInv
  <2>3. p.no \in added.have
    <3>1. e.total > 1 \/ p.no # 0
      BY <1>2, <1>7, <1>9 DEF Gathering
    <3> QED
      BY <1>2, <3>1 DEF Add, Entry
  <2> HIDE DEF added
  <2> QED
    BY <1>8, <1>9, <2>1, <2>2, <2>3 DEF Gathering
<1>10. CASE /\ e.id = tx.id
            /\ p.no \notin e.have
            /\ AllFragments(added)
            /\ Decode(s, full)
  <2>1. /\ full.have = 0..tx.total - 1 /\ full.frag0 = Whole(tx)
    BY <1>2, <1>7, <1>10, AddInv
  <2>2. full \in Entry
    BY <1>8, <1>10, AssembleType DEF AllFragments
  <2>3. full.id = tx.id /\ full.inUse = e.inUse
    BY <1>8, <1>10, <2>2 DEF Assemble, Entry
  <2>4. e.have \subseteq full.have
    BY <1>7, <1>10, <2>1 DEF Gathering
  <2>5. ~CountDecoded(full.frag0)
    <3> SUFFICES ASSUME CountDecoded(full.frag0) PROVE FALSE
      OBVIOUS
    <3>1. CountDecoded(Whole(tx))
      BY <2>1
    <3>2. decoded'[tx] = decoded[tx] + 1
      BY <1>1, <3>1, CountDecodedFacts DEF TypeOK
    <3> QED
      BY <1>3, <3>2
  <2>6. queue'[s] = [full EXCEPT !.complete = TRUE]
    BY <1>4, <1>10, <2>5 DEF Decode
  <2>7. /\ queue'[s].have = full.have /\ queue'[s].id = full.id
        /\ queue'[s].inUse = full.inUse /\ queue'[s].complete
    BY <2>2, <2>6 DEF Entry
  <2> HIDE DEF full
  <2> QED
    BY <1>3, <1>10, <2>1, <2>3, <2>4, <2>7
<1> QED
  BY <1>2, <1>5, <1>6, <1>9, <1>10 DEF Process

LEMMA TrackedProcess ==
    ASSUME OneFragmentation, IInv, TypeOK', HandsInv,
           NEW tx \in Transmissions, Owed(tx)', Tracked(tx), tx \notin raced,
           NEW t \in Threads, Process(t) \/ ProcessWhole(t)
    PROVE  Tracked(tx)'
<1> DEFINE p == thread[t].piece
           at == thread[t].at
<1>0. TypeOK
  BY DEF IInv
<1>1. /\ thread[t].step = "process"
      /\ p \in Pieces /\ at \in Slots
      /\ thread' = [thread EXCEPT ![t] = Idle]
      /\ UNCHANGED <<ptr, arrivals, window>>
      /\ \A r \in Slots : r # at => queue'[r] = queue[r]
      /\ queue'[at].id \in {queue[at].id, p.tx.id}
  BY <1>0, ProcessFacts
<1>2. /\ thread'[t] = Idle /\ thread'[t].step = "idle"
      /\ \A u \in Threads : u # t => thread'[u] = thread[u]
  BY <1>0, <1>1 DEF TypeOK, Idle
<1>3. Arrived(tx)' = Arrived(tx) /\ \A s \in Slots : Distance(s)' = Distance(s)
  BY <1>1 DEF Arrived, Distance
<1>4. p.tx \in Transmissions /\ (p.tx.id = tx.id => p.tx = tx)
  BY <1>1, PieceFacts DEF OneFragmentation
<1>5. p.tx = tx => \A u \in Threads : u # t => thread[u].step = "idle"
  BY <1>1 DEF HandsInv
<1>6. ASSUME NEW s \in Slots, Keeps(tx, s), at # s PROVE Keeps(tx, s)'
  <2>1. tx.total > 1 => p.tx # tx
    BY <1>1, <1>6 DEF Keeps, Taken
  <2>2. tx.total > 1 => \A r \in Slots : queue'[r].id = tx.id => queue[r].id = tx.id
    BY <1>1, <1>4, <2>1
  <2>3. Distance(s)' <= window'[tx]
    BY <1>1, <1>3, <1>6 DEF Keeps
  <2>4. ~Taken(t, tx)'
    BY <1>2 DEF Taken
  <2>5. queue'[s] = queue[s]
    BY <1>1, <1>6
  <2> HIDE DEF p
  <2> QED
    BY <1>0, <1>1, <1>2, <1>3, <1>6, <2>2, <2>3, <2>4, <2>5, KeepsUntouched
(* The thread puts its piece into the entry of the transmission.           *)
<1>7. ASSUME p.tx = tx,
             queue'[at].inUse, queue'[at].id = tx.id,
             queue'[at].have = 0..tx.total - 1 => queue'[at].complete,
             Distance(at) <= window[tx],
             \A q \in Arrived(tx) : q.no \in queue'[at].have,
             tx.total > 1 => \A r \in Slots : queue'[r].id = tx.id => r = at
      PROVE  Tracked(tx)'
  <2>1. \A u \in Threads : thread'[u].step = "idle"
    BY <1>2, <1>5, <1>7
  <2>2. PICK s \in Slots : s = at
    BY <1>1
  <2>3. Keeps(tx, s)'
    BY <1>1, <1>3, <1>7, <2>1, <2>2 DEF Keeps, Taken
  <2> QED
    BY <2>3 DEF Tracked
<1>8. ASSUME p.tx = tx
      PROVE  /\ queue'[at].id = tx.id
             /\ queue'[at].inUse \/ (queue[at].id = tx.id /\ ~queue[at].inUse)
             /\ p.no \in queue'[at].have
             /\ queue[at].id = tx.id => \A q \in Arrived(tx) :
                   q.no \in queue[at].have => q.no \in queue'[at].have
             /\ (queue[at].have = 0..tx.total - 1 => queue[at].complete) \/ queue[at].id # tx.id =>
                   (queue'[at].have = 0..tx.total - 1 => queue'[at].complete)
  <2>1. CASE Process(t)
    <3>1. decoded'[tx] = 0
      BY DEF Owed
    <3> QED
      BY <1>8, <2>1, <3>1, OwnPiece
  <2>2. CASE ProcessWhole(t)
    <3>1. queue[at] \in Entry /\ p.tx.total = 1
      BY <1>0, <1>1, <2>2 DEF ProcessWhole, TypeOK
    <3>2. queue'[at] = [queue[at] EXCEPT !.inUse = TRUE, !.id = p.tx.id, !.frag0 = <<p>>,
                                         !.total = 1, !.have = {0}, !.complete = TRUE]
      BY <1>0, <1>1, <2>2 DEF ProcessWhole, TypeOK
    <3>3. /\ queue'[at].inUse /\ queue'[at].id = p.tx.id /\ queue'[at].have = {0}
          /\ queue'[at].complete
      BY <3>1, <3>2 DEF Entry
    <3>4. p.no = 0 /\ \A q \in Arrived(tx) : q.no = 0
      BY <1>1, <1>8, <3>1, PieceFacts DEF Arrived
    <3> HIDE DEF p, at
    <3> QED
      BY <1>8, <3>3, <3>4
  <2> QED
    BY <2>1, <2>2
<1>9. ASSUME NEW s \in Slots, Keeps(tx, s), at = s PROVE Tracked(tx)'
  <2>1. p.tx = tx
    BY <1>1, <1>9 DEF Keeps
  <2>2. /\ queue[at].inUse /\ queue[at].id = tx.id
        /\ queue[at].have = 0..tx.total - 1 => queue[at].complete
        /\ Distance(at) <= window[tx]
    BY <1>9 DEF Keeps
  <2>3. \A q \in Arrived(tx) : q.no \in queue'[at].have
    <3> SUFFICES ASSUME NEW q \in Arrived(tx) PROVE q.no \in queue'[at].have
      OBVIOUS
    <3>1. CASE q.no \in queue[at].have
      BY <1>8, <2>1, <2>2, <3>1
    <3>2. CASE q.no \notin queue[at].have
      <4>1. PICK u \in Threads :
                thread[u].step = "process" /\ thread[u].at = s /\ thread[u].piece = q
        BY <1>9, <3>2 DEF Keeps
      <4>2. u = t
        BY <1>5, <2>1, <4>1
      <4> QED
        BY <1>8, <2>1, <4>1, <4>2
    <3> QED
      BY <3>1, <3>2
  <2>4. tx.total > 1 => \A r \in Slots : queue'[r].id = tx.id => r = at
    BY <1>1, <1>9 DEF Keeps
  <2> HIDE DEF p, at
  <2> QED
    BY <1>7, <1>8, <2>1, <2>2, <2>3, <2>4
<1>10. ASSUME NEW u \in Threads, Begins(tx, u) PROVE Tracked(tx)'
  <2>1. u = t
    BY <1>1, <1>10 DEF Begins, Taken, HandsInv
  <2>2. /\ p.tx = tx /\ Arrived(tx) = {p}
        /\ \A r \in Slots : queue[r].id # tx.id
        /\ Distance(at) = 1 /\ window[tx] >= 1
    BY <1>1, <1>10, <2>1 DEF Begins, Taken
  <2>3. Distance(at) <= window[tx]
    BY <2>2
  <2>4. tx.total > 1 => \A r \in Slots : queue'[r].id = tx.id => r = at
    BY <1>1, <2>2
  <2>5. \A q \in Arrived(tx) : q.no \in queue'[at].have
    BY <1>8, <2>2
  <2>6. queue[at].id # tx.id
    BY <1>1, <2>2
  <2> HIDE DEF p, at
  <2> QED
    BY <1>7, <1>8, <2>2, <2>3, <2>4, <2>5, <2>6
<1> QED
  BY <1>6, <1>9, <1>10 DEF Tracked

(* The entry of a transmission that is still owed is not decoded or given  *)
(* up.                                                                     *)
LEMMA TrackedRetry ==
    ASSUME OneFragmentation, IInv, TypeOK', NEW tx \in Transmissions, Owed(tx)', Tracked(tx),
           NEW r \in Slots, Retry(r)
    PROVE  Tracked(tx)'
<1> DEFINE e == queue[r]
<1>1. TypeOK /\ e \in Entry /\ EntryInv(e) /\ e.inUse /\ e.complete
  BY DEF IInv, TypeOK, Retry
<1>2. PICK u \in Transmissions : u.id = e.id /\ Gathered(e, u)
  BY <1>1 DEF EntryInv, Gathering
<1>3. e.frag0 = Whole(u) /\ decoded[u] \in Nat
  BY <1>1, <1>2 DEF Gathered, TypeOK
<1>4. u # tx
  <2>1. CASE CountDecoded(e.frag0)
    <3>1. CountDecoded(Whole(u))
      BY <1>3, <2>1
    <3>2. decoded'[u] = decoded[u] + 1
      BY <1>1, <3>1, CountDecodedFacts DEF TypeOK
    <3> QED
      BY <1>3, <3>2 DEF Owed
  <2>2. CASE givenUp' = givenUp \union {v \in Transmissions : v.id = e.id}
    BY <1>2, <2>2 DEF Owed
  <2> QED
    BY <2>1, <2>2 DEF Retry
<1>5. e.id # tx.id
  BY <1>2, <1>4 DEF OneFragmentation
<1>6. /\ UNCHANGED <<ptr, thread, arrivals, window>>
      /\ \A s \in Slots : s # r => queue'[s] = queue[s]
      /\ queue'[r].id = e.id
  BY <1>1 DEF Retry, TypeOK, Entry
<1>7. Arrived(tx)' = Arrived(tx) /\ \A s \in Slots : Distance(s)' = Distance(s)
  BY <1>6 DEF Arrived, Distance
<1>8. ASSUME NEW s \in Slots, Keeps(tx, s) PROVE Keeps(tx, s)'
  <2>1. s # r
    BY <1>5, <1>8 DEF Keeps
  <2>2. queue'[s] = queue[s]
    BY <1>6, <2>1
  <2>3. Distance(s)' <= window'[tx]
    BY <1>6, <1>7, <1>8 DEF Keeps
  <2>4. \A q \in Slots : queue'[q].id = tx.id => queue[q].id = tx.id
    BY <1>6
  <2> QED
    BY <1>1, <1>6, <1>7, <1>8, <2>2, <2>3, <2>4, KeepsUntouched
<1>9. ASSUME NEW t \in Threads, Begins(tx, t) PROVE Begins(tx, t)'
  <2>1. \A s \in Slots : queue'[s].id # tx.id
    BY <1>5, <1>6, <1>9 DEF Begins
  <2> QED
    BY <1>6, <1>7, <1>9, <2>1 DEF Begins, Taken, Distance
<1> QED
  BY <1>8, <1>9 DEF Tracked

LEMMA KeepStep ==
    ASSUME OneFragmentation, IInv, TypeOK', KeepInv, [Next]_vars
    PROVE  KeepInv'
<1>1. TypeOK /\ HandsInv /\ BegunInv /\ TrackedInv
  BY DEF IInv, KeepInv
<1>2. HandsInv' /\ BegunInv'
  BY <1>1, HandsStep, BegunStep
<1>3. ASSUME NEW tx \in Transmissions, Owed(tx)' PROVE Tracked(tx)'
  <2>1. Arrived(tx) # {} => Tracked(tx)
    BY <1>1, <1>3, OwedBefore DEF TrackedInv
  <2>2. tx \notin raced
    BY <1>1, <1>3, HistoryGrows DEF Owed
  <2>3. ASSUME NEW t \in Threads, NEW p \in Pieces, Lookup(t, p) PROVE Tracked(tx)'
    BY <1>1, <1>3, <2>1, <2>3, TrackedLookup
  <2>4. ASSUME NEW t \in Threads, NEW p \in Pieces, ReceiveWhole(t, p) PROVE Tracked(tx)'
    BY <1>1, <1>3, <2>1, <2>4, TrackedReceiveWhole
  <2>5. ASSUME arrivals' = arrivals PROVE Tracked(tx)
    BY <1>3, <2>1, <2>5 DEF Owed, Arrived
  <2>6. ASSUME NEW t \in Threads, Claim(t) PROVE Tracked(tx)'
    <3>1. arrivals' = arrivals
      BY <2>6 DEF Claim
    <3> QED
      BY <1>1, <1>3, <2>2, <2>5, <2>6, <3>1, TrackedClaim
  <2>7. ASSUME NEW t \in Threads, Process(t) \/ ProcessWhole(t) PROVE Tracked(tx)'
    <3>1. arrivals' = arrivals
      BY <1>1, <2>7, ProcessFacts
    <3> QED
      BY <1>1, <1>3, <2>2, <2>5, <2>7, <3>1, TrackedProcess
  <2>8. ASSUME NEW r \in Slots, Retry(r) PROVE Tracked(tx)'
    <3>1. arrivals' = arrivals
      BY <2>8 DEF Retry
    <3> QED
      BY <1>3, <2>5, <2>8, <3>1, TrackedRetry
  <2>9. CASE UNCHANGED vars
    <3>1. UNCHANGED <<queue, ptr, thread, arrivals, window>>
      BY <2>9 DEF vars, history
    <3>2. Tracked(tx)
      BY <2>5, <3>1
    <3> QED
      BY <3>1, <3>2 DEF Tracked, Keeps, Begins, Taken, Arrived, Distance
  <2> QED
    BY <2>3, <2>4, <2>6, <2>7, <2>8, <2>9 DEF Next
<1> QED
  BY <1>2, <1>3 DEF KeepInv, TrackedInv

(* A packet all of whose pieces arrived before the ring went around, and   *)
(* while no two threads were at work at once, was decoded or is held for a *)
(* retry, in whichever order the pieces came and whatever else the threads *)
(* did.                                                                    *)
THEOREM NothingIsLost ==
    ASSUME OneFragmentation
    PROVE  Spec => []NothingLost
<1>1. Init => KeepInv
  <2> SUFFICES ASSUME Init PROVE KeepInv
    OBVIOUS
  <2>1. \A tx \in Transmissions : Arrived(tx) = {}
    BY DEF Init, Arrived
  <2>2. TrackedInv
    BY <2>1 DEF TrackedInv, Owed
  <2>3. HandsInv
    BY DEF Init, HandsInv, Idle
  <2>4. BegunInv
    BY DEF Init, BegunInv, FreeEntry
  <2> QED
    BY <2>2, <2>3, <2>4 DEF KeepInv
<1>2. IInv /\ KeepInv => NothingLost
  <2> SUFFICES ASSUME IInv, KeepInv, NEW tx \in Transmissions,
                      \A p \in Pieces : p.tx = tx => arrivals[p] > 0,
                      window[tx] <= QueueSize, tx \notin givenUp, tx \notin raced,
                      ~InHand(tx), ~(decoded[tx] > 0)
               PROVE  Held(tx)
    BY DEF NothingLost
  <2>1. /\ tx.total \in 1..MaxFragments
        /\ \A i \in 0..tx.total - 1 : /\ Piece(tx, i) \in Pieces
                                      /\ Piece(tx, i).tx = tx /\ Piece(tx, i).no = i
    BY DEF Pieces, Piece, Numbers
  <2>2. \A i \in 0..tx.total - 1 : Piece(tx, i) \in Arrived(tx)
    BY <2>1 DEF Arrived
  <2>3. Arrived(tx) # {}
    <3>1. 0 \in 0..tx.total - 1
      BY <2>1
    <3> QED
      BY <2>2, <3>1
  <2>4. decoded[tx] = 0
    BY DEF IInv, TypeOK
  <2>5. Tracked(tx)
    BY <2>3, <2>4 DEF KeepInv, TrackedInv, Owed
  <2>6. \A t \in Threads : ~Taken(t, tx)
    BY DEF InHand, Taken
  <2>7. PICK s \in Slots : Keeps(tx, s)
    BY <2>5, <2>6 DEF Tracked, Begins
  <2>8. ASSUME NEW i \in 0..tx.total - 1 PROVE i \in queue[s].have
    <3>1. Piece(tx, i) \in Arrived(tx) /\ Piece(tx, i).no = i /\ Piece(tx, i).tx = tx
      BY <2>1, <2>2
    <3> QED
      BY <2>6, <2>7, <3>1 DEF Keeps, Taken
  <2>9. PICK u \in Transmissions :
            u.id = queue[s].id /\ (Gathering(queue[s], u) \/ Gathered(queue[s], u))
    BY <2>7 DEF IInv, EntryInv, Keeps
  <2>10. u = tx
    BY <2>7, <2>9 DEF OneFragmentation, Keeps
  <2>11. queue[s].have = 0..tx.total - 1
    BY <2>8, <2>9, <2>10 DEF Gathering, Gathered
  <2>12. queue[s].inUse /\ queue[s].complete
    BY <2>7, <2>11 DEF Keeps
  <2>13. queue[s].frag0 = Whole(tx)
    BY <2>9, <2>10, <2>12 DEF Gathering, Gathered
  <2> QED
    BY <2>12, <2>13 DEF Held
<1>3. IInv /\ TypeOK' /\ KeepInv /\ [Next]_vars => KeepInv'
  BY KeepStep
<1> QED
  BY <1>1, <1>2, <1>3, TypeCorrect, InductiveInvariant, PTL DEF Spec

=============================================================================
