-------------------------- MODULE SrejBytesProofs --------------------------
(***************************************************************************)
(* What SrejBytes adds to Srej, for every file, window and buffer size.    *)
(* Every behaviour of SrejBytes is one of Srej, so all that SrejProofs     *)
(* shows of Srej holds here too.                                           *)
(***************************************************************************)
EXTENDS SrejBytes, SrejProofs

(* The sizes, descriptors and bytes keep no step of Srej from its own.      *)
LEMMA BytesRefines == BytesSpec => Spec
<1>1. BytesInit => Init
  BY DEF BytesInit
<1>2. [BytesNext]_<<vars, bytesVars>> => [Next]_vars
  BY DEF BytesNext
<1>3. QED
  BY <1>1, <1>2, PTL DEF BytesSpec, Spec

(* A packet that is not the filename PDU has no more bytes than a full one. *)
LEMMA PayloadFits ==
  ASSUME NEW m, m.body \in Blocks \cup {NO_PAYLOAD}
  PROVE  PayloadSize(m) \in 0 .. BufferSize
<1>1. m.body # FILENAME_PAYLOAD
  BY ParamsAssumption DEF Blocks, NO_PAYLOAD, FILENAME_PAYLOAD
<1>2. BlockSize(m.body) \in 0 .. BufferSize
  BY BytesAssumption DEF BlockSize
<1>3. QED
  BY <1>1, <1>2, BytesAssumption DEF PayloadSize

(* What a child holds in its ring was not sent as packet 0, so it is no     *)
(* filename PDU.                                                            *)
LEMMA HeldIsData ==
  ASSUME IInv, RInv, NEW c \in Children, sState[c] \in {"flush"} \cup Receiving,
         NEW i \in DOMAIN sring[c], sring[c][i].valid
  PROVE  sring[c][i].pdu.body \in Blocks \cup {NO_PAYLOAD}
<1>1. /\ sring[c] \in [0 .. (ServerWindow - 1) -> ChildSlot]
      /\ expected[c] \in 0 .. (NumBlocks + 1)
  BY DEF IInv, ServerInv, ChildInv, Receiving, Ended
<1>2. i \in 0 .. (ServerWindow - 1)
  BY <1>1
<1>3. sState[c] \in {"buffer", "flush"}
  BY <1>2 DEF RInv, RingInv, Receiving
<1>4. /\ sring[c][i].pdu \in FromRcopy
      /\ sring[c][i].pdu.ok
      /\ sring[c][i].pdu.seq = sring[c][i].sequenceNumber
  BY <1>1, <1>2 DEF ChildSlot
<1>5. sring[c][i].sequenceNumber > 0
  <2>1. CASE sState[c] = "buffer"
    BY <1>1, <1>2, <2>1, ParamsAssumption DEF RInv, RingInv, HoldsFrom
  <2>2. CASE sState[c] = "flush"
    BY <1>1, <1>2, <2>2, ParamsAssumption DEF RInv, RingInv, HoldsFrom
  <2>3. QED
    BY <1>3, <2>1, <2>2
<1>6. QED
  BY <1>4, <1>5 DEF FromRcopy, RcopyPdu, DataPacket, EofPacket, FilenamePacket

(* As long as the buffer size passes unharmed through the uint8_t of        *)
(* onStart (serverLib.c:54), no packet in the ring of a child is larger     *)
(* than its slot, whatever the network delivers.                            *)
THEOREM PacketsFitHolds ==
  ASSUME BufferSize < Uint8
  PROVE  BytesSpec => []PacketsFitTheirSlots
<1>1. SlotBytes = BufferSize + 7
  BY BytesAssumption, ServerAssumption DEF SlotBytes
<1>2. IInv /\ RInv => PacketsFitTheirSlots
  <2> SUFFICES ASSUME IInv, RInv, NEW c \in Children,
                      sState[c] \in {"flush"} \cup Receiving,
                      NEW i \in DOMAIN sring[c], sring[c][i].valid
               PROVE  7 + PayloadSize(sring[c][i].pdu) <= SlotBytes
    BY DEF PacketsFitTheirSlots
  <2>1. PayloadSize(sring[c][i].pdu) \in 0 .. BufferSize
    BY HeldIsData, PayloadFits
  <2>2. QED
    BY <1>1, <2>1, BytesAssumption
<1>3. QED
  BY <1>2, BytesRefines, Invariance, RInvHolds, PTL
-----------------------------------------------------------------------------
(***************************************************************************)
(* The bytes of the file.                                                  *)
(***************************************************************************)
(* Where blocks begin. *)
LEMMA BlockStarts ==
  ASSUME NEW n \in Nat
  PROVE  /\ BlockStart(n) \in Nat
         /\ n < NumBlocks => /\ BlockStart(n) = n * BufferSize
                             /\ BlockSize(n) \in Nat
                             /\ BlockStart(n + 1) = BlockStart(n) + BlockSize(n)
         /\ NumBlocks <= n => BlockStart(n + 1) = BlockStart(n)
<1>1. /\ NumBlocks \in Nat /\ BufferSize \in Nat /\ LastSize \in Nat
  BY ParamsAssumption, BytesAssumption
<1>2. CASE NumBlocks <= n
  BY <1>1, <1>2 DEF BlockStart
<1>3. CASE n + 1 < NumBlocks
  <2>1. (n + 1) * BufferSize = n * BufferSize + BufferSize
    BY <1>1
  <2>2. QED
    BY <1>1, <1>3, <2>1 DEF BlockStart, BlockSize
<1>4. CASE n + 1 = NumBlocks
  BY <1>1, <1>4 DEF BlockStart, BlockSize
<1>5. QED
  BY <1>1, <1>2, <1>3, <1>4

(* The bytes of a block are in the file. *)
LEMMA BytesInFile ==
  ASSUME NEW k \in Blocks,
         NEW p \in (k * BufferSize) .. (k * BufferSize + BlockSize(k) - 1)
  PROVE  p \in OutputBytes
<1>1. /\ NumBlocks \in Nat /\ OldBlocks \in Nat /\ BufferSize \in Nat
      /\ FilenameBytes \in Nat /\ BlockSize(k) \in 0 .. BufferSize
      /\ k \in Nat /\ k + 1 <= NumBlocks
  BY ParamsAssumption, ServerAssumption, BytesAssumption DEF BlockSize, Blocks
<1>2. k * BufferSize \in Nat /\ (NumBlocks + OldBlocks) * BufferSize \in Nat
  BY <1>1
<1>3. k * BufferSize + BufferSize <= (NumBlocks + OldBlocks) * BufferSize
  <2>1. PICK d \in Nat : NumBlocks + OldBlocks = k + 1 + d
    <3>1. NumBlocks + OldBlocks - (k + 1) \in Nat
      BY <1>1
    <3>2. QED
      BY <1>1, <3>1
  <2>2. (k + 1 + d) * BufferSize = k * BufferSize + BufferSize + d * BufferSize
    BY <1>1
  <2>3. d * BufferSize \in Nat
    BY <1>1
  <2>4. QED
    BY <1>1, <1>2, <2>1, <2>2, <2>3
<1>4. p \in Int /\ 0 <= p /\ p <= k * BufferSize + BlockSize(k) - 1
  BY <1>1, <1>2 DEF BytesOf
<1>5. QED
  BY <1>1, <1>2, <1>3, <1>4 DEF OutputBytes

(* A write of the bytes from x on ends where they end, or at the room.      *)
LEMMA AfterWriteIs ==
  ASSUME room \in Nat, NEW x \in Nat, NEW m, PayloadSize(m) \in Nat
  PROVE  AfterWrite(m, UpToRoom(x)) = UpToRoom(x + PayloadSize(m))
BY DEF AfterWrite, UpToRoom

(* Packets that carry the blocks from number e on are written one behind    *)
(* the other, each where its block begins.                                  *)
LEMMA OffsetsAre ==
  ASSUME room \in Nat, NEW e \in Nat, NEW ms, Len(ms) \in Nat,
         \A i \in 1 .. Len(ms) :
           /\ PayloadSize(ms[i]) \in Nat
           /\ BlockStart(e + i) = BlockStart(e + i - 1) + PayloadSize(ms[i])
  PROVE  \A i \in 1 .. (Len(ms) + 1) :
           WriteOffsets(ms, UpToRoom(BlockStart(e)))[i] = UpToRoom(BlockStart(e + i - 1))
<1> DEFINE n == Len(ms)
           G == [i \in 1 .. (n + 1) |-> UpToRoom(BlockStart(e + i - 1))]
           at == WriteOffsets(ms, UpToRoom(BlockStart(e)))
           Step(g) == [i \in 1 .. (n + 1) |->
                         IF i = 1 THEN UpToRoom(BlockStart(e))
                         ELSE AfterWrite(ms[i - 1], g[i - 1])]
<1>1. G = Step(G)
  <2> SUFFICES ASSUME NEW i \in 1 .. (n + 1)
               PROVE  G[i] = Step(G)[i]
    OBVIOUS
  <2>1. CASE i = 1
    BY <2>1
  <2>2. CASE i # 1
    <3>1. i - 1 \in 1 .. n
      BY <2>2
    <3>2. G[i - 1] = UpToRoom(BlockStart(e + (i - 1) - 1))
      BY <3>1
    <3>3. /\ PayloadSize(ms[i - 1]) \in Nat
          /\ BlockStart(e + (i - 1)) = BlockStart(e + (i - 1) - 1) + PayloadSize(ms[i - 1])
      BY <3>1
    <3>4. BlockStart(e + (i - 1) - 1) \in Nat
      <4>1. e + (i - 1) - 1 \in Nat
        BY <3>1
      <4>2. QED
        BY <4>1, BlockStarts
    <3>5. AfterWrite(ms[i - 1], G[i - 1]) = UpToRoom(BlockStart(e + (i - 1)))
      BY <3>2, <3>3, <3>4, AfterWriteIs
    <3>6. e + (i - 1) = e + i - 1
      BY <3>1
    <3>7. QED
      BY <2>2, <3>5, <3>6
  <2>3. QED
    BY <2>1, <2>2
<1>2. at = Step(at)
  BY <1>1 DEF WriteOffsets
<1>3. QED
  <2> DEFINE S == {k \in 0 .. n : at[k + 1] = G[k + 1]}
  <2>1. 0 \in S
    BY <1>1, <1>2
  <2>2. ASSUME NEW k \in 0 .. (n - 1), at[k + 1] = G[k + 1]
        PROVE  at[k + 2] = G[k + 2]
    <3>1. k + 2 \in 1 .. (n + 1) /\ k + 2 # 1 /\ (k + 2) - 1 = k + 1
      OBVIOUS
    <3>2. /\ Step(at)[k + 2] = AfterWrite(ms[k + 1], at[k + 1])
          /\ Step(G)[k + 2] = AfterWrite(ms[k + 1], G[k + 1])
      BY <3>1
    <3> HIDE DEF at, G, Step
    <3>3. QED
      BY <1>1, <1>2, <2>2, <3>2
  <2>3. \A k \in 0 .. (n - 1) : k \in S => k + 1 \in S
    <3>1. \A k \in 0 .. (n - 1) : k + 1 \in 0 .. n /\ (k + 1) + 1 = k + 2
      OBVIOUS
    <3> HIDE DEF at, G
    <3>2. QED
      BY <2>2, <3>1
  <2>4. \A k \in 0 .. n : k \in S
    <3> HIDE DEF S
    <3>1. QED
      BY <2>1, <2>3, SetInduction
  <2>5. ASSUME NEW i \in 1 .. (n + 1)
        PROVE  at[i] = G[i]
    <3>1. i - 1 \in 0 .. n /\ (i - 1) + 1 = i
      OBVIOUS
    <3> HIDE DEF at, G
    <3>2. QED
      BY <2>4, <3>1
  <2>6. QED
    BY <2>5

(* onDataFlush, killed in the middle of it or not, writes what is held up   *)
(* to before some packet x.                                                 *)
LEMMA FlushesFrom ==
  ASSUME ServerInv, NEW c \in Children,
         ChildFlush(c) \/ (ChildCutShort(c) /\ sState[c] = "flush")
  PROVE  \E x \in expected[c] .. (highest[c] + 1) :
           /\ \A k \in expected[c] .. (x - 1) : Held(c, k)
           /\ file' = Flushed(c, x)
           /\ expected' = [expected EXCEPT ![c] = x]
<1>1. CASE ChildFlush(c)
  BY <1>1 DEF ChildFlush
<1>2. CASE ChildCutShort(c) /\ sState[c] = "flush"
  <2>1. PICK x \in (expected[c] + 1) .. (highest[c] + 1) :
          /\ \A k \in expected[c] .. (x - 1) : Held(c, k)
          /\ file' = Flushed(c, x)
          /\ expected' = [expected EXCEPT ![c] = x]
    BY <1>2 DEF ChildCutShort
  <2>2. x \in expected[c] .. (highest[c] + 1)
    BY <2>1, ParamsAssumption DEF ServerInv, ChildInv
  <2>3. QED
    BY <2>1, <2>2
<1>3. QED
  BY <1>1, <1>2

(* What the code means by sequence: the packets a child writes in one step  *)
(* are intact packets of rcopy with the numbers from expected[c] on, and    *)
(* each of them goes to the position of its number, if it has a payload.    *)
LEMMA WrittenByChild ==
  ASSUME IInv, NEW c \in Children, ChildNext(c), expected'[c] # expected[c]
  PROVE  LET ms == WrittenBy(c)
             e == expected[c]
             n == Len(ms)
         IN  /\ e \in Nat /\ n \in Nat
             /\ DOMAIN ms = 1 .. n
             /\ expected' = [expected EXCEPT ![c] = e + n]
             /\ \A i \in 1 .. n :
                  /\ RcopyPdu(ms[i])
                  /\ ms[i].seq = e + i - 1
                  /\ file'[e + i - 1] = IF ms[i].body = NO_PAYLOAD THEN file[e + i - 1]
                                        ELSE ms[i].body
             /\ \A k \in Positions \ (e .. (e + n - 1)) : file'[k] = file[k]
<1> DEFINE ms == WrittenBy(c)
           e == expected[c]
           n == Len(ms)
           m == Head(inbox[c])
<1>1. /\ e \in 0 .. (NumBlocks + 1)
      /\ expected = [d \in Children |-> expected[d]]
      /\ file \in [Positions -> Int]
      /\ NumBlocks \in Nat /\ OldBlocks \in Nat
  BY ParamsAssumption, ServerAssumption DEF IInv, ServerInv, ChildInv
<1>2. CASE InOrderExpected(c) \/ BufferExpected(c) \/ (ChildCutShort(c) /\ sState[c] # "flush")
  <2>1. /\ sState[c] # "flush"
        /\ Arrived(c)
        /\ m.ok /\ m.seq = e
        /\ file' = Written(file, e, m)
        /\ expected' = [expected EXCEPT ![c] = e + 1]
    BY <1>2 DEF InOrderExpected, BufferExpected, ChildCutShort, IsExpected, ChildReceives,
                TakenAsData, Receiving
  <2>2. ms = <<m>>
    BY <2>1 DEF WrittenBy
  <2>3. n = 1 /\ ms[1] = m /\ DOMAIN ms = 1 .. 1
    BY <2>2
  <2>4. m \in FromRcopy
    BY <2>1, ChildReceivesOK DEF IInv
  <2>5. RcopyPdu(m)
    BY <2>1, <2>4 DEF FromRcopy
  <2>6. e \in Positions
    BY <1>1, <2>1, <2>4, SeqBounded DEF Positions
  <2>7. /\ file'[e] = IF m.body = NO_PAYLOAD THEN file[e] ELSE m.body
        /\ \A k \in Positions \ (e .. e) : file'[k] = file[k]
    BY <1>1, <2>1, <2>6 DEF Written
  <2> HIDE DEF ms, n, m, e
  <2>8. /\ n \in Nat /\ 1 .. n = 1 .. 1 /\ e + n = e + 1 /\ e + n - 1 = e
        /\ \A i \in 1 .. n : i = 1 /\ e + i - 1 = e
    BY <1>1, <2>3
  <2>9. e \in Nat /\ DOMAIN ms = 1 .. n /\ expected' = [expected EXCEPT ![c] = e + n]
    BY <1>1, <2>1, <2>3, <2>8
  <2>10. \A i \in 1 .. n :
           /\ RcopyPdu(ms[i])
           /\ ms[i].seq = e + i - 1
           /\ file'[e + i - 1] = IF ms[i].body = NO_PAYLOAD THEN file[e + i - 1]
                                 ELSE ms[i].body
    BY <2>1, <2>3, <2>5, <2>7, <2>8
  <2>11. \A k \in Positions \ (e .. (e + n - 1)) : file'[k] = file[k]
    BY <2>7, <2>8
  <2>12. QED
    BY <2>8, <2>9, <2>10, <2>11 DEF ms, n, e
<1>3. CASE ChildFlush(c) \/ (ChildCutShort(c) /\ sState[c] = "flush")
  <2>1. PICK x \in e .. (highest[c] + 1) :
          /\ \A k \in e .. (x - 1) : Held(c, k)
          /\ file' = [k \in Positions |->
               IF k \in e .. (x - 1)
               THEN Written(file, k, getEntry(sring[c], ServerWindow, k))[k]
               ELSE file[k]]
          /\ expected' = [expected EXCEPT ![c] = x]
    BY <1>3, FlushesFrom DEF Flushed, IInv
  <2>2. /\ sState[c] = "flush"
        /\ highest[c] \in -1 .. NumBlocks
        /\ ServerWindow \in Nat \ {0}
        /\ sring[c] \in [0 .. (ServerWindow - 1) -> ChildSlot]
    BY <1>3, ServerWindowOK DEF ChildFlush, IInv, ServerInv, ChildInv, Ended
  <2>3. /\ x \in 0 .. (NumBlocks + 1)
        /\ e <= x /\ x - e \in Nat
        /\ expected'[c] = x
    <3>1. expected'[c] = x
      BY <1>1, <2>1
    <3>2. QED
      BY <1>1, <2>1, <2>2, <3>1
  <2>4. ms = [i \in 1 .. (x - e) |-> getEntry(sring[c], ServerWindow, e + i - 1)]
    BY <2>2, <2>3 DEF WrittenBy
  <2>5. n = x - e /\ DOMAIN ms = 1 .. n
    BY <2>3, <2>4
  <2>6. \A k \in e .. (x - 1) :
          LET p == getEntry(sring[c], ServerWindow, k) IN RcopyPdu(p) /\ p.seq = k
    <3> SUFFICES ASSUME NEW k \in e .. (x - 1)
                 PROVE  LET p == getEntry(sring[c], ServerWindow, k) IN
                          RcopyPdu(p) /\ p.seq = k
      OBVIOUS
    <3>1. k % ServerWindow \in 0 .. (ServerWindow - 1)
      BY <1>1, <2>2
    <3>2. Held(c, k)
      BY <2>1
    <3>3. LET p == getEntry(sring[c], ServerWindow, k) IN p \in FromRcopy /\ p.ok /\ p.seq = k
      BY <2>2, <3>1, <3>2
         DEF Held, getValid, getSequenceNumber, getEntry, getIndex, ChildSlot
    <3>4. QED
      BY <3>3 DEF FromRcopy
  <2>7. \A k \in e .. (x - 1) :
          LET p == getEntry(sring[c], ServerWindow, k) IN
            file'[k] = IF p.body = NO_PAYLOAD THEN file[k] ELSE p.body
    <3> SUFFICES ASSUME NEW k \in e .. (x - 1)
                 PROVE  LET p == getEntry(sring[c], ServerWindow, k) IN
                          file'[k] = IF p.body = NO_PAYLOAD THEN file[k] ELSE p.body
      OBVIOUS
    <3>1. k \in Positions
      BY <1>1, <2>3 DEF Positions
    <3>2. QED
      BY <1>1, <2>1, <3>1 DEF Written
  <2>8. ASSUME NEW i \in 1 .. n
        PROVE  /\ RcopyPdu(ms[i])
               /\ ms[i].seq = e + i - 1
               /\ file'[e + i - 1] = IF ms[i].body = NO_PAYLOAD THEN file[e + i - 1]
                                     ELSE ms[i].body
    <3>1. e + i - 1 \in e .. (x - 1)
      BY <1>1, <2>3, <2>5
    <3>2. ms[i] = getEntry(sring[c], ServerWindow, e + i - 1)
      BY <2>4, <2>5
    <3> HIDE DEF ms, e, n
    <3>3. QED
      BY <2>6, <2>7, <3>1, <3>2
  <2>9. \A k \in Positions \ (e .. (e + n - 1)) : file'[k] = file[k]
    <3>1. e + n - 1 = x - 1
      BY <1>1, <2>3, <2>5
    <3>2. QED
      BY <2>1, <3>1
  <2>10. e \in Nat /\ n \in Nat /\ expected' = [expected EXCEPT ![c] = e + n]
    <3>1. e + n = x /\ e \in Nat /\ n \in Nat
      BY <1>1, <2>3, <2>5
    <3>2. QED
      BY <2>1, <3>1
  <2> HIDE DEF ms, e, n
  <2>11. QED
    BY <2>5, <2>8, <2>9, <2>10 DEF ms, e, n
<1>4. CASE ChildStart(c) \/ ChildTimeout(c)
  BY <1>4 DEF ChildStart, ChildTimeout, GivesUp, Counted
<1>5. CASE ChildEmptyDatagram(c) \/ ChildCorrupt(c) \/ ChildOldPacket(c)
  BY <1>5 DEF ChildEmptyDatagram, ChildCorrupt, ChildOldPacket, OldPacketReply
<1>6. CASE InOrderEof(c) \/ InOrderAhead(c) \/ InOrderAheadNoRing(c) \/ BufferAhead(c)
  BY <1>6 DEF InOrderEof, InOrderAhead, InOrderAheadNoRing, BufferAhead
<1>7. QED
  BY <1>2, <1>3, <1>4, <1>5, <1>6 DEF ChildNext

(* A packet from number k on, if it is not the filename PDU, is block k, or *)
(* the empty payload behind the last block.                                 *)
LEMMA PacketIsBlock ==
  ASSUME NEW k \in Nat, NEW m, RcopyPdu(m), m.seq = k, m.body # FILENAME_PAYLOAD
  PROVE  /\ PayloadSize(m) \in Nat
         /\ BlockStart(k + 1) = BlockStart(k) + PayloadSize(m)
         /\ k \in Blocks => m.body = k /\ PayloadSize(m) = BlockSize(k)
         /\ k \notin Blocks => PayloadSize(m) = 0
<1>1. CASE DataPacket(m)
  <2>1. k \in Blocks /\ m.body = k /\ k < NumBlocks
    BY <1>1, ParamsAssumption DEF DataPacket, Blocks
  <2>2. PayloadSize(m) = BlockSize(k)
    BY <2>1 DEF PayloadSize, NO_PAYLOAD, FILENAME_PAYLOAD
  <2>3. QED
    BY <2>1, <2>2, BlockStarts
<1>2. CASE EofPacket(m)
  <2>1. k = NumBlocks /\ k \notin Blocks
    BY <1>2, ParamsAssumption DEF EofPacket, Blocks
  <2>2. PayloadSize(m) = 0
    BY <1>2 DEF EofPacket, PayloadSize
  <2>3. BlockStart(k + 1) = BlockStart(k) /\ BlockStart(k) \in Nat
    BY <2>1, BlockStarts
  <2>4. QED
    BY <2>1, <2>2, <2>3
<1>3. QED
  BY <1>1, <1>2 DEF RcopyPdu, FilenamePacket

(* A write from where block k begins to where it ends, as far as there is   *)
(* room, writes the bytes of block k that there is room for.                *)
LEMMA CoveredIsBlock ==
  ASSUME room \in Nat, NEW k \in Blocks, NEW p \in Int
  PROVE  p \in BytesOf(k)
           <=> p \in UpToRoom(BlockStart(k)) .. (UpToRoom(BlockStart(k + 1)) - 1)
<1>1. /\ k \in Nat /\ k < NumBlocks
      /\ BlockStart(k) = k * BufferSize /\ BlockStart(k) \in Nat
      /\ BlockSize(k) \in Nat
      /\ BlockStart(k + 1) = BlockStart(k) + BlockSize(k)
  BY BlockStarts, ParamsAssumption DEF Blocks
<1>2. BytesOf(k) = {q \in BlockStart(k) .. (BlockStart(k) + BlockSize(k) - 1) : q < room}
  BY <1>1 DEF BytesOf
<1>3. QED
  BY <1>1, <1>2 DEF UpToRoom

(* Nothing is written where a block begins, and the next begins there too.  *)
LEMMA CoveredByNothing ==
  ASSUME room \in Nat, NEW k \in Nat, BlockStart(k + 1) = BlockStart(k), NEW p \in Int
  PROVE  p \notin UpToRoom(BlockStart(k)) .. (UpToRoom(BlockStart(k + 1)) - 1)
BY BlockStarts DEF UpToRoom

(* A child that wrote no filename PDU puts the right bytes in their place,  *)
(* and touches no others.                                                   *)
LEMMA WritesInPlace ==
  ASSUME IInv, BytesInv, NEW c \in Children, ChildNext(c), ChildWrites(c),
         c \notin shifted'
  PROVE  LET written == expected[c] .. (expected'[c] - 1) IN
           /\ fdOffset'[c] = UpToRoom(BlockStart(expected'[c]))
           /\ \A k \in Blocks : file'[k] = IF k \in written THEN k ELSE file[k]
           /\ \A p \in OutputBytes :
                \/ /\ bytes'[p] = p
                   /\ \E k \in Blocks : file'[k] = k /\ p \in BytesOf(k)
                \/ /\ bytes'[p] = bytes[p]
                   /\ \A k \in Blocks : k \in written => p \notin BytesOf(k)
<1> DEFINE ms == WrittenBy(c)
           e == expected[c]
           n == Len(ms)
           at == WriteOffsets(ms, fdOffset[c])
           Covers(i, p) == p \in at[i] .. (at[i + 1] - 1)
<1>1. /\ expected'[c] # expected[c]
      /\ bytes' = [p \in OutputBytes |->
           IF \E i \in DOMAIN ms : Covers(i, p)
           THEN LET i == CHOOSE j \in DOMAIN ms : Covers(j, p)
                IN  PayloadByte(ms[i], p - at[i])
           ELSE bytes[p]]
      /\ fdOffset' = [fdOffset EXCEPT ![c] = at[n + 1]]
      /\ shifted' = IF \E i \in DOMAIN ms : ms[i].body = FILENAME_PAYLOAD
                    THEN shifted \cup {c} ELSE shifted
      /\ room' = room
  BY DEF ChildWrites
<1>2. /\ e \in Nat /\ n \in Nat
      /\ DOMAIN ms = 1 .. n
      /\ expected' = [expected EXCEPT ![c] = e + n]
      /\ \A i \in 1 .. n :
           /\ RcopyPdu(ms[i])
           /\ ms[i].seq = e + i - 1
           /\ file'[e + i - 1] = IF ms[i].body = NO_PAYLOAD THEN file[e + i - 1]
                                 ELSE ms[i].body
      /\ \A k \in Positions \ (e .. (e + n - 1)) : file'[k] = file[k]
  BY <1>1, WrittenByChild
<1>3. /\ expected'[c] = e + n
      /\ \A d \in Children \ {c} : expected'[d] = expected[d] /\ fdOffset'[d] = fdOffset[d]
      /\ fdOffset'[c] = at[n + 1]
      /\ fdOffset' = [d \in Children |-> fdOffset'[d]]
      /\ bytes' = [p \in OutputBytes |-> bytes'[p]]
      /\ room \in Nat /\ room' \in Nat
  <2>1. /\ expected = [d \in Children |-> expected[d]]
        /\ fdOffset = [d \in Children |-> fdOffset[d]]
        /\ room \in Nat
    BY DEF IInv, ServerInv, BytesInv
  <2>2. bytes' = [p \in OutputBytes |-> bytes'[p]]
    BY <1>1
  <2> HIDE DEF ms, e, n, at, Covers
  <2>3. QED
    BY <1>1, <1>2, <2>1, <2>2
<1>4. /\ c \notin shifted
      /\ \A i \in 1 .. n : ms[i].body # FILENAME_PAYLOAD
  BY <1>1, <1>2
<1>5. \A i \in 1 .. (n + 1) : at[i] = UpToRoom(BlockStart(e + i - 1))
  <2>1. fdOffset[c] = UpToRoom(BlockStart(e))
    BY <1>4 DEF BytesInv
  <2>2. ASSUME NEW i \in 1 .. n
        PROVE  /\ PayloadSize(ms[i]) \in Nat
               /\ BlockStart(e + i) = BlockStart(e + i - 1) + PayloadSize(ms[i])
    <3>1. e + i - 1 \in Nat /\ (e + i - 1) + 1 = e + i
      BY <1>2
    <3>2. RcopyPdu(ms[i]) /\ ms[i].seq = e + i - 1 /\ ms[i].body # FILENAME_PAYLOAD
      BY <1>2, <1>4
    <3> HIDE DEF ms, e
    <3>3. QED
      BY <3>1, <3>2, PacketIsBlock
  <2>3. room \in Nat /\ e \in Nat /\ Len(ms) \in Nat
    BY <1>2, <1>3
  <2> HIDE DEF ms, e
  <2>4. \A i \in 1 .. (Len(ms) + 1) :
          WriteOffsets(ms, UpToRoom(BlockStart(e)))[i] = UpToRoom(BlockStart(e + i - 1))
    <3>1. \A i \in 1 .. Len(ms) :
            /\ PayloadSize(ms[i]) \in Nat
            /\ BlockStart(e + i) = BlockStart(e + i - 1) + PayloadSize(ms[i])
      BY <2>2
    <3>2. QED
      BY <2>3, <3>1, OffsetsAre
  <2>5. QED
    BY <2>1, <2>4
<1> HIDE DEF ms, e, n, at
<1>6. ASSUME NEW i \in 1 .. n
      PROVE  /\ e + i - 1 \in Nat /\ (e + i - 1) + 1 = e + i
             /\ at[i] = UpToRoom(BlockStart(e + i - 1))
             /\ at[i + 1] = UpToRoom(BlockStart(e + i))
  <2>1. /\ e + i - 1 \in Nat /\ (e + i - 1) + 1 = e + i
        /\ i \in 1 .. (n + 1) /\ i + 1 \in 1 .. (n + 1) /\ e + (i + 1) - 1 = e + i
    BY <1>2
  <2>2. QED
    BY <1>4, <1>5, <2>1
<1>7. ASSUME NEW i \in 1 .. n, e + i - 1 \in Blocks
      PROVE  /\ ms[i].body = e + i - 1
             /\ file'[e + i - 1] = e + i - 1
             /\ \A p \in Int : Covers(i, p) <=> p \in BytesOf(e + i - 1)
  <2>1. ms[i].body = e + i - 1
    <3>1. /\ e + i - 1 \in Nat /\ e + i - 1 \in Blocks
          /\ RcopyPdu(ms[i]) /\ ms[i].seq = e + i - 1
          /\ ms[i].body # FILENAME_PAYLOAD
      BY <1>2, <1>4, <1>5, <1>6, <1>7
    <3>2. QED
      BY <3>1, PacketIsBlock
  <2>2. ms[i].body # NO_PAYLOAD
    BY <1>6, <2>1 DEF NO_PAYLOAD
  <2>3. \A p \in Int : Covers(i, p) <=> p \in BytesOf(e + i - 1)
    BY <1>3, <1>6, <1>7, CoveredIsBlock
  <2>4. QED
    BY <1>2, <2>1, <2>2, <2>3
<1>8. ASSUME NEW i \in 1 .. n, NEW p \in Int, Covers(i, p)
      PROVE  e + i - 1 \in Blocks
  <2>1. SUFFICES ASSUME e + i - 1 \notin Blocks
                 PROVE  FALSE
    OBVIOUS
  <2>2. BlockStart(e + i) = BlockStart(e + i - 1)
    <3>1. BlockStart((e + i - 1) + 1) = BlockStart(e + i - 1) + 0
      BY <1>2, <1>4, <1>5, <1>6, <2>1, PacketIsBlock
    <3>2. BlockStart(e + i - 1) \in Nat
      BY <1>6, BlockStarts
    <3>3. QED
      BY <1>6, <3>1, <3>2
  <2>3. QED
    BY <1>3, <1>6, <1>8, <2>2, CoveredByNothing
<1>9. ASSUME NEW p \in OutputBytes, NEW i \in 1 .. n, Covers(i, p)
      PROVE  /\ PayloadByte(ms[i], p - at[i]) = p
             /\ e + i - 1 \in Blocks /\ file'[e + i - 1] = e + i - 1
             /\ p \in BytesOf(e + i - 1)
  <2>1. p \in Int
    BY DEF OutputBytes
  <2>2. e + i - 1 \in Blocks
    BY <1>8, <1>9, <2>1
  <2>3. /\ ms[i].body = e + i - 1 /\ file'[e + i - 1] = e + i - 1
        /\ p \in BytesOf(e + i - 1)
    BY <1>7, <1>9, <2>1, <2>2
  <2>4. at[i] = (e + i - 1) * BufferSize /\ at[i] \in Int
    <3>1. /\ BlockStart(e + i - 1) = (e + i - 1) * BufferSize
          /\ BlockStart(e + i - 1) \in Nat
      BY <1>6, <2>2, BlockStarts, ParamsAssumption DEF Blocks
    <3>2. p < room /\ BlockStart(e + i - 1) <= p
      BY <2>3, <3>1 DEF BytesOf
    <3>3. UpToRoom(BlockStart(e + i - 1)) = BlockStart(e + i - 1)
      BY <1>3, <2>1, <3>1, <3>2 DEF UpToRoom
    <3>4. QED
      BY <1>6, <3>1, <3>3
  <2>5. ms[i].body # FILENAME_PAYLOAD
    BY <1>4, <1>5
  <2>6. PayloadByte(ms[i], p - at[i]) = at[i] + (p - at[i])
    BY <2>3, <2>4, <2>5 DEF PayloadByte
  <2>7. QED
    BY <2>1, <2>2, <2>3, <2>4, <2>6
<1>10. ASSUME NEW p \in OutputBytes, NEW j \in 1 .. n, Covers(j, p)
      PROVE  /\ bytes'[p] = p
             /\ \E k \in Blocks : file'[k] = k /\ p \in BytesOf(k)
  <2> DEFINE i == CHOOSE l \in DOMAIN ms : Covers(l, p)
  <2>1. i \in 1 .. n /\ Covers(i, p)
    BY <1>2, <1>10
  <2>2. bytes'[p] = PayloadByte(ms[i], p - at[i])
    BY <1>1, <1>2, <1>10
  <2> HIDE DEF i, Covers
  <2>3. QED
    BY <1>9, <2>1, <2>2
<1>11. ASSUME NEW p \in OutputBytes, ~ \E i \in 1 .. n : Covers(i, p)
      PROVE  bytes'[p] = bytes[p]
  BY <1>1, <1>2, <1>11
<1>12. ASSUME NEW k \in Blocks, file'[k] = k, k \notin e .. (e + n - 1)
      PROVE  file[k] = k
  BY <1>2, <1>12, ParamsAssumption, ServerAssumption DEF Blocks, Positions
<1>13. ASSUME NEW k \in Blocks, k \in e .. (e + n - 1)
      PROVE  \E i \in 1 .. n : k = e + i - 1
  <2>1. k - e + 1 \in 1 .. n /\ k = e + (k - e + 1) - 1
    BY <1>2, <1>13
  <2>2. QED
    BY <2>1
<1> HIDE DEF Covers
<1>14. fdOffset'[c] = UpToRoom(BlockStart(expected'[c]))
  <2>1. n + 1 \in 1 .. (n + 1) /\ e + (n + 1) - 1 = e + n
    BY <1>2
  <2>2. QED
    BY <1>3, <1>5, <2>1
<1>15. ASSUME NEW k \in Blocks
       PROVE  file'[k] = IF k \in e .. (e + n - 1) THEN k ELSE file[k]
  <2>1. CASE k \in e .. (e + n - 1)
    BY <1>7, <1>13, <2>1
  <2>2. CASE k \notin e .. (e + n - 1)
    BY <1>2, <2>2, ParamsAssumption, ServerAssumption DEF Blocks, Positions
  <2>3. QED
    BY <2>1, <2>2
<1>16. ASSUME NEW p \in OutputBytes, ~ \E i \in 1 .. n : Covers(i, p),
             NEW k \in Blocks, k \in e .. (e + n - 1)
       PROVE  p \notin BytesOf(k)
  <2>1. p \in Int
    BY DEF OutputBytes
  <2>2. QED
    BY <1>7, <1>13, <1>16, <2>1
<1>17. e .. (e + n - 1) = expected[c] .. (expected'[c] - 1)
  <2>1. expected'[c] - 1 = e + n - 1
    BY <1>2, <1>3
  <2>2. QED
    BY <2>1 DEF e
<1>18. QED
  BY <1>10, <1>11, <1>14, <1>15, <1>16, <1>17

(* A child that writes keeps the two views of the file in agreement.        *)
LEMMA ChildWritesBytes ==
  ASSUME IInv, BytesInv, NEW c \in Children, ChildNext(c), ChildWrites(c)
  PROVE  BytesInv'
<1> DEFINE written == expected[c] .. (expected'[c] - 1)
<1>1. /\ \A d \in Children \ {c} : fdOffset'[d] = fdOffset[d]
      /\ fdOffset' = [d \in Children |-> fdOffset'[d]]
      /\ bytes' = [p \in OutputBytes |-> bytes'[p]]
      /\ room \in Nat /\ room' = room
      /\ shifted \subseteq shifted'
  <2>1. /\ fdOffset = [d \in Children |-> fdOffset[d]]
        /\ room \in Nat
    BY DEF BytesInv
  <2>2. QED
    BY <2>1 DEF ChildWrites
<1>2. \A d \in Children \ {c} : expected'[d] = expected[d]
  <2>1. expected'[c] # expected[c]
    BY DEF ChildWrites
  <2>2. expected' = [expected EXCEPT ![c] = expected[c] + Len(WrittenBy(c))]
    BY <2>1, WrittenByChild
  <2>3. expected = [d \in Children |-> expected[d]]
    BY DEF IInv, ServerInv
  <2>4. QED
    BY <2>2, <2>3
<1>3. ASSUME c \notin shifted'
      PROVE  /\ fdOffset'[c] = UpToRoom(BlockStart(expected'[c]))
             /\ \A k \in Blocks : file'[k] = IF k \in written THEN k ELSE file[k]
             /\ \A p \in OutputBytes :
                  \/ /\ bytes'[p] = p
                     /\ \E k \in Blocks : file'[k] = k /\ p \in BytesOf(k)
                  \/ /\ bytes'[p] = bytes[p]
                     /\ \A k \in Blocks : k \in written => p \notin BytesOf(k)
  BY <1>3, WritesInPlace
<1> HIDE DEF written
<1>4. \A d \in Children \ shifted' : fdOffset'[d] = UpToRoom(BlockStart(expected'[d]))
  BY <1>1, <1>2, <1>3 DEF BytesInv
<1>5. ASSUME shifted' = {}
      PROVE  /\ \A k \in Blocks : file'[k] = k => \A p \in BytesOf(k) : bytes'[p] = p
             /\ \A p \in OutputBytes : bytes'[p] \notin {HOLE, OLD} =>
                  /\ bytes'[p] = p
                  /\ \E k \in Blocks : file'[k] = k /\ p \in BytesOf(k)
  <2>1. /\ c \notin shifted'
        /\ \A k \in Blocks : file[k] = k => \A p \in BytesOf(k) : bytes[p] = p
        /\ \A p \in OutputBytes : bytes[p] \notin {HOLE, OLD} =>
             /\ bytes[p] = p
             /\ \E k \in Blocks : file[k] = k /\ p \in BytesOf(k)
    BY <1>1, <1>5 DEF BytesInv, BlocksAreBytes
  <2>2. ASSUME NEW k \in Blocks, file'[k] = k, NEW p \in BytesOf(k)
        PROVE  bytes'[p] = p
    BY <1>3, <2>1, <2>2, BytesInFile DEF BytesOf
  <2>3. ASSUME NEW p \in OutputBytes, bytes'[p] \notin {HOLE, OLD}
        PROVE  /\ bytes'[p] = p
               /\ \E k \in Blocks : file'[k] = k /\ p \in BytesOf(k)
    BY <1>3, <2>1, <2>3
  <2>4. QED
    BY <2>2, <2>3
<1>6. BlocksAreBytes'
  BY <1>1, <1>5 DEF BlocksAreBytes, BytesOf
<1>7. (\A d \in Children \ shifted : fdOffset[d] = UpToRoom(BlockStart(expected[d])))'
  BY <1>1, <1>4 DEF UpToRoom, BlockStart
<1>8. QED
  BY <1>1, <1>6, <1>7 DEF BytesInv

(* Only children write the file and count what they write.                  *)
LEMMA OnlyChildrenCount ==
  ASSUME [Next]_vars, file' # file \/ expected' # expected
  PROVE  \E c \in Children : ChildNext(c)
<1>1. ClientStep => file' = file /\ expected' = expected
  BY DEF ClientStep, serverVars
<1>2. MainStep => file' = file /\ expected' = expected
  BY DEF MainStep, ServerFork, ServerIgnore, serverVars
<1>3. Kill => file' = file /\ expected' = expected
  BY DEF Kill, ChildKilled, serverVars
<1>4. Network \/ Tick \/ Idle \/ UNCHANGED vars => file' = file /\ expected' = expected
  BY DEF Network, Tick, Idle, vars, serverVars
<1>5. QED
  BY <1>1, <1>2, <1>3, <1>4 DEF Next, ChildStep

(* A step that moves no expected[c] on writes nothing.                      *)
LEMMA NoWriteKeepsFile ==
  ASSUME ServerInv, [Next]_vars, expected' = expected
  PROVE  file' = file
<1> SUFFICES ASSUME file' # file
             PROVE  FALSE
  OBVIOUS
<1>1. PICK c \in Children : ChildNext(c)
  BY OnlyChildrenCount
<1>2. /\ expected = [d \in Children |-> expected[d]]
      /\ expected[c] \in Nat
      /\ file \in [Positions -> Int]
  BY ParamsAssumption DEF ServerInv, ChildInv
<1>3. CASE InOrderExpected(c) \/ BufferExpected(c) \/ (ChildCutShort(c) /\ sState[c] # "flush")
  <2>1. expected' = [expected EXCEPT ![c] = expected[c] + 1]
    BY <1>2, <1>3 DEF InOrderExpected, BufferExpected, ChildCutShort
  <2>2. QED
    BY <1>2, <2>1
<1>4. CASE ChildFlush(c) \/ (ChildCutShort(c) /\ sState[c] = "flush")
  <2>1. PICK x \in expected[c] .. (highest[c] + 1) :
          /\ file' = [k \in Positions |->
               IF k \in expected[c] .. (x - 1)
               THEN Written(file, k, getEntry(sring[c], ServerWindow, k))[k]
               ELSE file[k]]
          /\ expected' = [expected EXCEPT ![c] = x]
    BY <1>4, FlushesFrom DEF Flushed
  <2>2. x = expected[c]
    BY <1>2, <2>1
  <2>3. \A k \in Positions : k \notin expected[c] .. (x - 1)
    BY <1>2, <2>2
  <2>4. file' = file
    BY <1>2, <2>1, <2>3
  <2>5. QED
    BY <2>4
<1>5. CASE ChildStart(c) \/ ChildTimeout(c)
  BY <1>5 DEF ChildStart, ChildTimeout, GivesUp, Counted
<1>6. CASE ChildEmptyDatagram(c) \/ ChildCorrupt(c) \/ ChildOldPacket(c)
  BY <1>6 DEF ChildEmptyDatagram, ChildCorrupt, ChildOldPacket, OldPacketReply
<1>7. CASE InOrderEof(c) \/ InOrderAhead(c) \/ InOrderAheadNoRing(c) \/ BufferAhead(c)
  BY <1>7 DEF InOrderEof, InOrderAhead, InOrderAheadNoRing, BufferAhead
<1>8. QED
  BY <1>1, <1>3, <1>4, <1>5, <1>6, <1>7 DEF ChildNext

(* A child that gets further does so by a step of its own.                  *)
LEMMA WriterSteps ==
  ASSUME ServerInv, [Next]_vars, NEW c \in Children, expected'[c] # expected[c]
  PROVE  ChildNext(c)
<1>1. PICK d \in Children : ChildNext(d)
  BY OnlyChildrenCount
<1>2. CASE d = c
  BY <1>1, <1>2
<1>3. CASE d # c
  BY <1>1, <1>3, OthersUntouched
<1>4. QED
  BY <1>2, <1>3

(* The two views agree when the server starts: nothing is written, and no   *)
(* block and no byte of an older file is taken for one of the copy.         *)
LEMMA BytesInitOK == BytesInit => BytesInv
<1> SUFFICES ASSUME BytesInit
             PROVE  BytesInv
  OBVIOUS
<1>1. /\ NumBlocks \in Nat /\ OldBlocks \in Nat /\ BufferSize \in Nat \ {0}
      /\ room \in Nat
  <2>1. NumBlocks \in Nat /\ OldBlocks \in Nat /\ BufferSize \in Nat \ {0}
    BY ParamsAssumption, ServerAssumption, BytesAssumption
  <2> DEFINE s == IF file[0] = OLD THEN OldBlocks * BufferSize ELSE 0
  <2>0. s \in Nat
    BY <2>1
  <2>2. PICK r \in Nat : room = Max({r, s})
    <3>1. \E r \in Rooms : room = Max({r, s})
      BY DEF BytesInit
    <3>2. QED
      BY <3>1, BytesAssumption
  <2> HIDE DEF s
  <2>3. \E x \in {r, s} : \A y \in {r, s} : x >= y
    BY <2>0
  <2>4. room \in {r, s}
    BY <2>2, <2>3 DEF Max
  <2>5. QED
    BY <2>1, <2>4, <2>0
<1>2. \A c \in Children : fdOffset[c] = UpToRoom(BlockStart(expected[c]))
  <2>1. BlockStart(0) = 0
    BY <1>1 DEF BlockStart
  <2>2. \A c \in Children : expected[c] = 0 /\ fdOffset[c] = 0
    BY DEF BytesInit, Init, ServerInit
  <2>3. QED
    BY <1>1, <2>1, <2>2 DEF UpToRoom
<1>3. \A k \in Positions : file[k] \in {HOLE, OLD}
  BY DEF BytesInit, Init, ServerInit
<1>4. \A p \in OutputBytes : bytes[p] \in {HOLE, OLD}
  <2> SUFFICES ASSUME NEW p \in OutputBytes, p < OldBlocks * BufferSize
               PROVE  file[p \div BufferSize] \in {HOLE, OLD}
    BY DEF BytesInit
  <2>1. p \in Nat
    BY DEF OutputBytes
  <2>2. p \div BufferSize \in Nat /\ (p \div BufferSize) * BufferSize <= p
    BY <1>1, <2>1
  <2>3. p \div BufferSize < OldBlocks
    <3> DEFINE q == p \div BufferSize
    <3>1. SUFFICES ASSUME OldBlocks <= q
                   PROVE  FALSE
      BY <1>1, <2>2
    <3>2. PICK d \in Nat : q = OldBlocks + d
      <4>1. q - OldBlocks \in Nat
        BY <1>1, <2>2, <3>1
      <4>2. QED
        BY <1>1, <2>2, <4>1
    <3>3. /\ (OldBlocks + d) * BufferSize = OldBlocks * BufferSize + d * BufferSize
          /\ d * BufferSize \in Nat
      BY <1>1
    <3>4. QED
      BY <1>1, <2>1, <2>2, <3>2, <3>3
  <2>4. QED
    BY <1>1, <1>3, <2>2, <2>3 DEF Positions
<1>5. BlocksAreBytes
  <2>1. \A k \in Blocks : file[k] # k
    BY <1>1, <1>3 DEF Blocks, Positions, HOLE, OLD
  <2>2. QED
    BY <1>4, <2>1 DEF BlocksAreBytes
<1>6. QED
  BY <1>1, <1>2, <1>5 DEF BytesInit, BytesInv

LEMMA BytesStep ==
  ASSUME IInv, BytesInv, [BytesNext]_<<vars, bytesVars>>
  PROVE  BytesInv'
<1>1. [Next]_vars /\ ServerInv
  BY DEF BytesNext, IInv
<1>2. ASSUME NEW c \in Children, ChildWrites(c)
      PROVE  BytesInv'
  <2>1. expected'[c] # expected[c]
    BY <1>2 DEF ChildWrites
  <2>2. QED
    BY <1>1, <1>2, <2>1, WriterSteps, ChildWritesBytes
<1>3. ASSUME expected' = expected, UNCHANGED bytesVars
      PROVE  BytesInv'
  <2>1. file' = file
    BY <1>1, <1>3, NoWriteKeepsFile
  <2>2. BytesInv' <=> BytesInv
    BY <1>3, <2>1
       DEF BytesInv, BlocksAreBytes, BytesOf, UpToRoom, BlockStart, bytesVars
  <2>3. QED
    BY <2>2
<1>4. UNCHANGED <<vars, bytesVars>> => expected' = expected /\ UNCHANGED bytesVars
  BY DEF vars, serverVars
<1>5. QED
  BY <1>2, <1>3, <1>4 DEF BytesNext, NoWrite

(* Each descriptor of a child is where the block it expects begins, or at   *)
(* the end of the disk, as long as the child wrote no filename PDU: the     *)
(* sizes write() returns, which nobody looks at, add up (serverLib.c:149,   *)
(* 195 and 266).                                                            *)
THEOREM BytesInvHolds == BytesSpec => []BytesInv
<1>1. BytesSpec => []IInv
  BY BytesRefines, Invariance, PTL
<1>2. BytesInit => BytesInv
  BY BytesInitOK
<1>3. IInv /\ BytesInv /\ [BytesNext]_<<vars, bytesVars>> => BytesInv'
  BY BytesStep
<1>4. QED
  BY <1>1, <1>2, <1>3, PTL DEF BytesSpec

(* Counting writes is as good as counting bytes: as long as no filename PDU *)
(* was written, every block is where Srej has it, byte by byte as far as    *)
(* there is room, and nothing else of the copy is anywhere in the file,     *)
(* however many children write it and whatever the file was before.         *)
THEOREM BlocksAreBytesHolds == BytesSpec => []BlocksAreBytes
BY BytesInvHolds, PTL DEF BytesInv

(* A byte of the copy that is right stays so, whatever the children write   *)
(* over one another, but for a child that wrote a filename PDU.             *)
THEOREM CopiedStaysHolds == BytesSpec => CopiedStays
<1>1. ASSUME IInv, BytesInv, [BytesNext]_<<vars, bytesVars>>,
             NEW p \in OutputBytes, bytes[p] = p, bytes'[p] # p
      PROVE  \E c \in shifted' : expected'[c] # expected[c]
  <2>1. bytes' # bytes
    BY <1>1
  <2>2. PICK c \in Children : ChildWrites(c)
    BY <1>1, <2>1 DEF BytesNext, NoWrite, bytesVars
  <2>3. expected'[c] # expected[c]
    BY <2>2 DEF ChildWrites
  <2>4. ChildNext(c)
    BY <1>1, <2>3, WriterSteps DEF BytesNext, IInv
  <2>5. c \in shifted'
    BY <1>1, <2>2, <2>4, WritesInPlace
  <2>6. QED
    BY <2>3, <2>5
<1>2. IInv /\ BytesInv /\ [BytesNext]_<<vars, bytesVars>> =>
        [\A p \in OutputBytes : bytes[p] = p /\ bytes'[p] # p =>
           \E c \in shifted' : expected'[c] # expected[c]]_<<vars, bytesVars>>
  BY <1>1
<1>3. BytesSpec => []IInv
  BY BytesRefines, Invariance, PTL
<1>4. QED
  BY <1>2, <1>3, BytesInvHolds, PTL DEF BytesSpec, CopiedStays
=============================================================================
