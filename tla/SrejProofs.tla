----------------------------- MODULE SrejProofs -----------------------------
(***************************************************************************)
(* Proofs about Srej, for every file, window, retry limit, number of       *)
(* children and network: IInv is inductive, and the safety properties that *)
(* follow from it.                                                         *)
(***************************************************************************)
EXTENDS SrejInvariant, SequenceTheorems, FiniteSetTheorems, TLAPS

-----------------------------------------------------------------------------
(***************************************************************************)
(* The queues.                                                             *)
(***************************************************************************)
LEMMA QueuedInSeq ==
  ASSUME NEW S, NEW q \in Seq(S), NEW ds \in Seq(S)
  PROVE  Queued(q, ds) \in Seq(S)
<1>1. q \o ds \in Seq(S)
  BY ConcatProperties
<1>2. CASE Len(q \o ds) <= Capacity
  BY <1>1, <1>2 DEF Queued
<1>3. CASE ~(Len(q \o ds) <= Capacity)
  <2>1. /\ Capacity \in Nat
        /\ Len(q \o ds) \in Nat
    BY <1>1, NetworkAssumption, LenProperties
  <2>2. SubSeq(q \o ds, 1, Capacity) \in Seq(S)
    <3>1. \A i \in 1 .. Capacity : i \in 1 .. Len(q \o ds)
      BY <1>3, <2>1
    <3>2. QED
      BY <1>1, <2>1, <3>1, SubSeqProperties
  <2>3. QED
    BY <1>3, <2>2 DEF Queued
<1>4. QED
  BY <1>2, <1>3

(* rcopy, the well-known socket and the children are different endpoints.   *)
LEMMA EndpointsFacts ==
  /\ Client \in Endpoints
  /\ Main \in Endpoints
  /\ Client # Main
  /\ Children \subseteq Endpoints
  /\ Client \notin Children
  /\ Main \notin Children
BY NetworkAssumption DEF Client, Main, Children, Endpoints

(* Sending what the receiver may receive. *)
LEMMA DeliveredOK ==
  ASSUME NEW box, NEW f, MailOK(box, f),
         NEW to \in Endpoints, NEW ds \in Seq(MayReceive(to, f))
  PROVE  MailOK(Delivered(box, to, ds), f)
<1>1. Queued(box[to], ds) \in Seq(MayReceive(to, f))
  BY QueuedInSeq DEF MailOK
<1>2. QED
  BY <1>1 DEF MailOK, Delivered

(* Receiving. *)
LEMMA TakenOK ==
  ASSUME NEW f, MailOK(inbox, f), NEW p \in Endpoints, Arrived(p)
  PROVE  /\ MailOK(Taken(p), f)
         /\ Head(inbox[p]) \in MayReceive(p, f)
<1>1. /\ inbox[p] \in Seq(MayReceive(p, f))
      /\ inbox[p] # <<>>
  BY DEF MailOK, Arrived
<1>2. /\ Tail(inbox[p]) \in Seq(MayReceive(p, f))
      /\ Head(inbox[p]) \in MayReceive(p, f)
  BY <1>1, HeadTailProperties
<1>3. QED
  BY <1>2 DEF MailOK, Taken

(* Closing a socket. *)
LEMMA ClosedOK ==
  ASSUME NEW box, NEW f, MailOK(box, f), NEW p \in Endpoints
  PROVE  MailOK([box EXCEPT ![p] = <<>>], f)
BY EmptySeq DEF MailOK

(* When blocks are added to the file, what was acknowledged stays so. *)
LEMMA LandedMonotone ==
  ASSUME NEW f, NEW g, NEW n, Landed(f, n),
         \A k \in Blocks : Filled(f, k) => Filled(g, k)
  PROVE  Landed(g, n)
BY DEF Landed, Blocks

(* Mail that is in order stays so when the output file gains blocks.        *)
LEMMA MailMonotone ==
  ASSUME NEW box, NEW f, NEW g, MailOK(box, f),
         \A k \in Blocks : Filled(f, k) => Filled(g, k)
  PROVE  MailOK(box, g)
<1>1. \A n : Landed(f, n) => Landed(g, n)
  BY LandedMonotone
<1>2. FromChildren(f) \subseteq FromChildren(g) /\ ToServer(f) \subseteq ToServer(g)
  BY <1>1 DEF FromChildren, ToServer
<1>3. \A p \in Endpoints : MayReceive(p, f) \subseteq MayReceive(p, g)
  BY <1>2 DEF MayReceive
<1>4. \A p \in Endpoints : Seq(MayReceive(p, f)) \subseteq Seq(MayReceive(p, g))
  BY <1>3, SeqMonotonic
<1>5. QED
  BY <1>4 DEF MailOK
(* A corrupted PDU is one more thing the receiver may receive. *)
LEMMA CorruptedOK ==
  ASSUME NEW p, NEW f, NEW m \in MayReceive(p, f)
  PROVE  Corrupted(m) \in MayReceive(p, f)
<1>1. m \in Datagram(Endpoints)
  BY DEF MayReceive, FromChildren, ToServer, FromRcopy
<1>2. Corrupted(m) \in Datagram(Endpoints)
  BY <1>1 DEF Corrupted, Datagram, NO_PAYLOAD
<1>3. QED
  BY <1>2 DEF Corrupted, MayReceive, FromChildren, ToServer, FromRcopy

(* The network invents nothing. *)
LEMMA NetworkKeepsMail ==
  ASSUME NEW f, MailOK(inbox, f), NEW p \in Endpoints, NetworkFault(p)
  PROVE  MailOK(inbox', f)
<1> DEFINE S == MayReceive(p, f)
           q == inbox[p]
<1>1. /\ q \in Seq(S)
      /\ Len(q) \in Nat
      /\ \A i \in 1 .. Len(q) : q[i] \in S
      /\ DOMAIN q = 1 .. Len(q)
  BY LenProperties, ElementOfSeq DEF MailOK
<1>2. SUFFICES /\ inbox' = [inbox EXCEPT ![p] = inbox'[p]]
               /\ inbox'[p] \in Seq(S)
  BY DEF MailOK
<1>3. inbox = [r \in Endpoints |-> inbox[r]]
  BY DEF MailOK
<1>4. CASE Lose(p)
  <2>1. PICK i \in 1 .. Len(q) : inbox' = [inbox EXCEPT ![p] = RemoveAt(q, i)]
    BY <1>4 DEF Lose
  <2>2. /\ SubSeq(q, 1, i - 1) \in Seq(S)
        /\ SubSeq(q, i + 1, Len(q)) \in Seq(S)
    <3>1. /\ \A j \in 1 .. (i - 1) : q[j] \in S
          /\ \A j \in (i + 1) .. Len(q) : q[j] \in S
      BY <1>1
    <3> HIDE DEF S, q
    <3>2. QED
      BY <1>1, <3>1, SubSeqProperties
  <2>3. RemoveAt(q, i) \in Seq(S)
    BY <2>2, ConcatProperties DEF RemoveAt
  <2>4. QED
    BY <1>3, <2>1, <2>3
<1>5. CASE Corrupt(p)
  <2>1. PICK i \in 1 .. Len(q) : inbox' = [inbox EXCEPT ![p][i] = Corrupted(@)]
    BY <1>5 DEF Corrupt
  <2>2. [q EXCEPT ![i] = Corrupted(q[i])] \in Seq(S)
    <3>1. Corrupted(q[i]) \in S
      BY <1>1, CorruptedOK
    <3>2. QED
      BY <1>1, <3>1, ExceptSeq
  <2>3. inbox' = [inbox EXCEPT ![p] = [q EXCEPT ![i] = Corrupted(q[i])]]
    BY <2>1
  <2>4. QED
    BY <1>3, <2>2, <2>3
<1>6. CASE Duplicate(p)
  <2>1. PICK i \in 1 .. Len(q) : inbox' = [inbox EXCEPT ![p] = Append(q, q[i])]
    BY <1>6 DEF Duplicate
  <2>2. Append(q, q[i]) \in Seq(S)
    BY <1>1, AppendProperties
  <2>3. QED
    BY <1>3, <2>1, <2>2
<1>7. CASE Reorder(p)
  <2>1. PICK i \in 1 .. (Len(q) - 1) :
          inbox' = [inbox EXCEPT ![p][i] = q[i + 1], ![p][i + 1] = q[i]]
    BY <1>7 DEF Reorder
  <2>2. i \in 1 .. Len(q) /\ i + 1 \in 1 .. Len(q)
    BY <1>1
  <2>3. [q EXCEPT ![i] = q[i + 1]] \in Seq(S) /\ Len([q EXCEPT ![i] = q[i + 1]]) = Len(q)
    BY <1>1, <2>2, ExceptSeq
  <2>4. [[q EXCEPT ![i] = q[i + 1]] EXCEPT ![i + 1] = q[i]] \in Seq(S)
    BY <1>1, <2>2, <2>3, ExceptSeq
  <2>5. inbox' = [inbox EXCEPT ![p] = [[q EXCEPT ![i] = q[i + 1]] EXCEPT ![i + 1] = q[i]]]
    BY <1>3, <2>1
  <2>6. QED
    BY <1>3, <2>4, <2>5
<1>8. QED
  BY <1>4, <1>5, <1>6, <1>7 DEF NetworkFault

-----------------------------------------------------------------------------
(***************************************************************************)
(* What the two sides send and receive.                                    *)
(***************************************************************************)
LEMMA Singleton ==
  ASSUME NEW S, NEW e \in S
  PROVE  <<e>> \in Seq(S)
<1>1. <<e>> = Append(<<>>, e)
  OBVIOUS
<1>2. QED
  BY <1>1, EmptySeq, AppendProperties

(* What rcopy builds is of the kind the network may carry from it.          *)
LEMMA RcopyPdusOK ==
  /\ FilenamePdu \in FromRcopy /\ FilenamePdu.body # NO_PAYLOAD
  /\ \A k \in Blocks : DataPdu(k, k) \in {m \in FromRcopy : DataPacket(m)}
  /\ EofPdu(NumBlocks) \in FromRcopy
  /\ EmptyDatagram(Client) \in FromRcopy
BY ParamsAssumption, EndpointsFacts
   DEF FilenamePdu, DataPdu, EofPdu, EmptyDatagram, createPDU, FromRcopy, Datagram,
       RcopyPdu, DataPacket, EofPacket, FilenamePacket, Blocks, NO_PAYLOAD, NOTHING,
       FILENAME_PAYLOAD, DATA_FLAG, FILENAME_FLAG

(* What a child builds is of the kind the network may carry from it; an RR  *)
(* needs the blocks before it in the file.                                  *)
LEMMA ChildPdusOK ==
  ASSUME NEW c \in Children, NEW f
  PROVE  /\ \A ok \in BOOLEAN : FilenameResponse(c, ok) \in FromChildren(f)
         /\ \A n \in Nat : Srej(c, n) \in FromChildren(f)
         /\ \A n \in Nat : Landed(f, n) => Rr(c, n) \in FromChildren(f)
BY EndpointsFacts
   DEF FilenameResponse, Srej, Rr, createPDU, FromChildren, Datagram,
       FILENAME_RESPONSE_FLAG, SREJ_FLAG, RR_FLAG, FILENAME_OK_FLAG, FILENAME_BAD_FLAG

(* All but EOF may be sent at any time.                                     *)
LEMMA MaySend ==
  ASSUME NEW f, NEW m \in FromRcopy, m.ok => m.body # NO_PAYLOAD
  PROVE  m \in ToServer(f)
BY DEF ToServer

(* Whatever else holds of it, what waits at the server comes from rcopy.    *)
LEMMA ServerMail ==
  ASSUME NEW f, NEW box, MailOK(box, f), NEW p \in Endpoints \ {Client}
  PROVE  box[p] \in Seq(FromRcopy)
<1>1. ToServer(f) \subseteq FromRcopy
  BY DEF ToServer
<1>2. box[p] \in Seq(ToServer(f))
  BY DEF MailOK, MayReceive
<1>3. QED
  BY <1>1, <1>2, SeqMonotonic

(* rcopy sends m to the server or to a child. *)
LEMMA RcopySends ==
  ASSUME NEW box, NEW f, MailOK(box, f),
         NEW to \in Endpoints \ {Client}, NEW m \in ToServer(f)
  PROVE  MailOK(Delivered(box, to, <<m>>), f)
<1>1. <<m>> \in Seq(MayReceive(to, f))
  BY Singleton DEF MayReceive
<1>2. QED
  BY <1>1, DeliveredOK

(* A child answers rcopy with m. *)
LEMMA ChildSends ==
  ASSUME NEW box, NEW f, MailOK(box, f), NEW m \in FromChildren(f)
  PROVE  MailOK(Delivered(box, Client, <<m>>), f)
<1>1. <<m>> \in Seq(MayReceive(Client, f))
  BY Singleton DEF MayReceive
<1>2. QED
  BY <1>1, DeliveredOK, EndpointsFacts

(* rcopy moving to another state leaves the mail and the sockets in order.  *)
LEMMA RcopyMovesOK ==
  ASSUME NEW f, NEW s, NEW box, MailOK(box, f), sockets \in SUBSET Endpoints,
         RcopyMoves(s, box)
  PROVE  /\ MailOK(inbox', f)
         /\ sockets' \in SUBSET Endpoints
         /\ rState' = s
BY ClosedOK, EndpointsFacts DEF RcopyMoves

(* A child moving to another state leaves the mail and the sockets in       *)
(* order.                                                                   *)
LEMMA ChildMovesOK ==
  ASSUME NEW f, NEW c \in Children, NEW s, NEW box, MailOK(box, f),
         sockets \in SUBSET Endpoints, ChildMoves(c, s, box)
  PROVE  /\ MailOK(inbox', f)
         /\ sockets' \in SUBSET Endpoints
         /\ sState' = [sState EXCEPT ![c] = s]
BY ClosedOK, EndpointsFacts DEF ChildMoves

(* The slot rcopy looks in for packet n. *)
LEMMA RcopyEntryOK ==
  ASSUME ring \in [0 .. (WindowSize - 1) -> RcopySlot], NEW n \in Nat
  PROVE  getEntry(ring, WindowSize, n) \in ToServer(file)
<1>1. n % WindowSize \in 0 .. (WindowSize - 1)
  BY ParamsAssumption
<1>2. /\ getEntry(ring, WindowSize, n) \in FromRcopy
      /\ getEntry(ring, WindowSize, n).ok => DataPacket(getEntry(ring, WindowSize, n))
  BY <1>1 DEF getEntry, getIndex, RcopySlot
<1>3. QED
  BY <1>2, ParamsAssumption DEF ToServer, DataPacket, Blocks, NO_PAYLOAD

-----------------------------------------------------------------------------
(***************************************************************************)
(* The steps of rcopy.  Each leaves the output file alone; what it may     *)
(* disturb are the queues and rcopy's own part of the invariant.           *)
(***************************************************************************)
(* What rcopy receives comes from a child; an RR is for blocks in the file. *)
LEMMA RcopyReceives ==
  ASSUME UdpInv, Arrived(Client)
  PROVE  LET m == Head(inbox[Client]) IN
           /\ MailOK(Taken(Client), file)
           /\ m.from \in Endpoints \ {Client}
           /\ m.ok /\ m.flag = RR_FLAG => m.body \in Nat /\ Landed(file, m.body)
           /\ m.ok /\ m.flag = SREJ_FLAG => m.body \in Nat
<1>1. /\ MailOK(Taken(Client), file)
      /\ Head(inbox[Client]) \in FromChildren(file)
  BY TakenOK, EndpointsFacts DEF UdpInv, MayReceive
<1>2. QED
  BY <1>1, EndpointsFacts
     DEF FromChildren, RR_FLAG, SREJ_FLAG, FILENAME_RESPONSE_FLAG

(* Every step of rcopy keeps the invariants of the network and of rcopy.    *)
LEMMA RcopyStep ==
  ASSUME UdpInv, RcopyInv, file' = file, RcopyNext
  PROVE  UdpInv' /\ RcopyInv'
<1> USE DEF RcopyStates, RcopyPolls, STAY_IN_DATA_STATE, MOVE_TO_DONE_STATE
<1>1. CASE RcopyStart
  <2>1. MailOK(Delivered(inbox, server, <<FilenamePdu>>), file)
    BY RcopySends, RcopyPdusOK, MaySend DEF UdpInv, RcopyInv
  <2>2. /\ MailOK(inbox', file)
        /\ sockets' \in SUBSET Endpoints
        /\ rState' = "filename"
    BY <1>1, <2>1, RcopyMovesOK DEF RcopyStart, UdpInv
  <2>3. ring' \in [0 .. (WindowSize - 1) -> RcopySlot]
    BY <1>1, RcopyPdusOK
       DEF RcopyStart, setupCircularBuffer, EmptySlot, EmptyDatagram, RcopySlot
  <2>4. UdpInv'
    BY <1>1, <2>2 DEF RcopyStart, UdpInv
  <2>5. RcopyInv'
    BY <1>1, <2>2, <2>3, ParamsAssumption
       DEF RcopyStart, RcopyInv, EofMeansWritten, EofSent
  <2>6. QED
    BY <2>4, <2>5
<1>2. CASE RcopyFilenameTimeout
  <2>1. MailOK(Delivered(inbox, server, <<FilenamePdu>>), file) /\ MailOK(inbox, file)
    BY RcopySends, RcopyPdusOK, MaySend DEF UdpInv, RcopyInv
  <2>2. /\ MailOK(inbox', file)
        /\ sockets' \in SUBSET Endpoints
        /\ rState' = IF counter + 1 < MaxTries THEN "filename" ELSE "done"
    BY <1>2, <2>1, RcopyMovesOK DEF RcopyFilenameTimeout, RetryFilename, UdpInv
  <2>3. UdpInv'
    BY <1>2, <2>2 DEF RcopyFilenameTimeout, PollReturns, UdpInv
  <2>4. RcopyInv'
    BY <1>2, <2>2, ParamsAssumption
       DEF RcopyFilenameTimeout, RetryFilename, RcopyInv, EofMeansWritten, EofSent
  <2>5. QED
    BY <2>3, <2>4
<1>3. CASE RcopyFilenameCorrupt
  <2> DEFINE m == Head(inbox[Client])
  <2>1. /\ MailOK(Taken(Client), file)
        /\ m.from \in Endpoints \ {Client}
    BY <1>3, RcopyReceives DEF RcopyFilenameCorrupt
  <2>2. MailOK(Delivered(Taken(Client), m.from, <<FilenamePdu>>), file)
    BY <2>1, RcopySends, RcopyPdusOK, MaySend
  <2>3. /\ MailOK(inbox', file)
        /\ sockets' \in SUBSET Endpoints
        /\ rState' = IF 1 < MaxTries THEN "filename" ELSE "done"
    BY <1>3, <2>1, <2>2, RcopyMovesOK DEF RcopyFilenameCorrupt, RetryFilename, UdpInv
  <2>4. UdpInv'
    BY <1>3, <2>3 DEF RcopyFilenameCorrupt, PollReturns, UdpInv
  <2>5. RcopyInv'
    BY <1>3, <2>1, <2>3, ParamsAssumption
       DEF RcopyFilenameCorrupt, RetryFilename, RcopyInv, EofMeansWritten, EofSent
  <2>6. QED
    BY <2>4, <2>5
<1>4. CASE RcopyFilenameResponse
  <2> DEFINE m == Head(inbox[Client])
  <2>1. /\ MailOK(Taken(Client), file)
        /\ m.from \in Endpoints \ {Client}
    BY <1>4, RcopyReceives DEF RcopyFilenameResponse
  <2>2. /\ MailOK(inbox', file)
        /\ sockets' \in SUBSET Endpoints
        /\ rState' \in {"open", "done"}
    BY <1>4, <2>1, RcopyMovesOK
       DEF RcopyFilenameResponse, onFilenameGetNextState, UdpInv
  <2>3. UdpInv'
    BY <1>4, <2>2 DEF RcopyFilenameResponse, PollReturns, UdpInv
  <2>4. RcopyInv'
    BY <1>4, <2>1, <2>2, ParamsAssumption
       DEF RcopyFilenameResponse, RcopyInv, EofMeansWritten, EofSent
  <2>5. QED
    BY <2>3, <2>4
<1>5. CASE RcopySend
  <2> DEFINE pdu == DataPdu(current + 1, offset)
  <2>1. /\ offset = current + 1
        /\ offset \in Blocks
        /\ current + 1 \in Nat
    BY <1>5, ParamsAssumption DEF RcopySend, RcopyInv, Blocks
  <2>2. pdu \in ToServer(file) /\ pdu \in FromRcopy /\ DataPacket(pdu)
    BY <2>1, RcopyPdusOK, MaySend, ParamsAssumption DEF DataPacket, Blocks, NO_PAYLOAD
  <2>3. MailOK(Delivered(inbox, server, <<pdu>>), file)
    BY <2>2, RcopySends DEF UdpInv, RcopyInv
  <2>4. /\ MailOK(inbox', file)
        /\ sockets' \in SUBSET Endpoints
        /\ rState' = "drain"
    BY <1>5, <2>3, RcopyMovesOK DEF RcopySend, UdpInv
  <2>5. ring' \in [0 .. (WindowSize - 1) -> RcopySlot]
    <3>1. ring' = addToCircularBuffer(ring, WindowSize, current + 1, pdu)
      BY <1>5 DEF RcopySend
    <3>2. ring \in [0 .. (WindowSize - 1) -> RcopySlot]
      BY <1>5 DEF RcopySend, RcopyInv
    <3>3. (current + 1) % WindowSize \in 0 .. (WindowSize - 1)
      BY <2>1, ParamsAssumption
    <3>4. [valid |-> ring[(current + 1) % WindowSize].valid,
           sequenceNumber |-> current + 1, pdu |-> pdu] \in RcopySlot
      BY <2>1, <2>2, <3>2, <3>3 DEF RcopySlot
    <3>5. QED
      BY <3>1, <3>2, <3>3, <3>4 DEF addToCircularBuffer, getIndex
  <2>6. UdpInv'
    BY <1>5, <2>4 DEF RcopySend, UdpInv
  <2>7. RcopyInv'
    BY <1>5, <2>1, <2>4, <2>5, ParamsAssumption
       DEF RcopySend, RcopyInv, EofMeansWritten, EofSent, Blocks
  <2>8. QED
    BY <2>6, <2>7
<1>6. CASE RcopyDrained
  <2>1. /\ MailOK(inbox', file)
        /\ sockets' \in SUBSET Endpoints
        /\ rState' = "open"
    BY <1>6, RcopyMovesOK DEF RcopyDrained, UdpInv
  <2>2. UdpInv'
    BY <1>6, <2>1 DEF RcopyDrained, UdpInv
  <2>3. RcopyInv'
    BY <1>6, <2>1 DEF RcopyDrained, RcopyInv, EofMeansWritten, EofSent
  <2>4. QED
    BY <2>2, <2>3
<1>7. CASE RcopyEof
  <2>1. /\ current = NumBlocks - 1
        /\ rr >= NumBlocks
    BY <1>7, ParamsAssumption DEF RcopyEof, RcopyInv, isServerDoneReceiving
  <2>2. Landed(file, NumBlocks)
    BY <2>1, ParamsAssumption DEF RcopyInv, Landed
  <2>3. MailOK(Delivered(inbox, server, <<EofPdu(current + 1)>>), file)
    <3>1. current + 1 = NumBlocks
      BY <2>1, ParamsAssumption
    <3>2. EofPdu(NumBlocks) \in ToServer(file)
      BY <2>2, RcopyPdusOK DEF ToServer
    <3>3. QED
      BY <3>1, <3>2, RcopySends DEF UdpInv, RcopyInv
  <2>4. /\ MailOK(inbox', file)
        /\ sockets' \in SUBSET Endpoints
        /\ rState' \in {"done", "closedPoll"}
    BY <1>7, <2>3, RcopyMovesOK DEF RcopyEof, UdpInv
  <2>5. UdpInv'
    BY <1>7, <2>4 DEF RcopyEof, UdpInv
  <2>6. RcopyInv'
    BY <1>7, <2>1, <2>2, <2>4, ParamsAssumption
       DEF RcopyEof, RcopyInv, EofMeansWritten, EofSent
  <2>7. QED
    BY <2>5, <2>6
<1>8. CASE RcopyAwaitAcks
  <2>1. /\ MailOK(inbox', file)
        /\ sockets' \in SUBSET Endpoints
        /\ rState' = "openPoll"
    BY <1>8, RcopyMovesOK DEF RcopyAwaitAcks, UdpInv
  <2>2. UdpInv'
    BY <1>8, <2>1 DEF RcopyAwaitAcks, UdpInv
  <2>3. RcopyInv'
    BY <1>8, <2>1, ParamsAssumption DEF RcopyAwaitAcks, RcopyInv, EofMeansWritten, EofSent
  <2>4. QED
    BY <2>2, <2>3
<1>9. CASE RcopyWindowClosed
  <2>1. /\ MailOK(inbox', file)
        /\ sockets' \in SUBSET Endpoints
        /\ rState' = "closedPoll"
    BY <1>9, RcopyMovesOK DEF RcopyWindowClosed, UdpInv
  <2>2. UdpInv'
    BY <1>9, <2>1 DEF RcopyWindowClosed, UdpInv
  <2>3. RcopyInv'
    BY <1>9, <2>1, ParamsAssumption DEF RcopyWindowClosed, RcopyInv, EofMeansWritten, EofSent
  <2>4. QED
    BY <2>2, <2>3
<1>10. CASE RcopyPollTimeout
  <2>1. getEntry(ring, WindowSize, rr) \in ToServer(file)
    BY <1>10, RcopyEntryOK DEF RcopyPollTimeout, RcopyInv, GivesUp, Counted
  <2>2. MailOK(Delivered(inbox, server, <<getEntry(ring, WindowSize, rr)>>), file)
    BY <2>1, RcopySends DEF UdpInv, RcopyInv
  <2>3. /\ MailOK(inbox', file)
        /\ sockets' \in SUBSET Endpoints
        /\ rState' \in {"done", rState}
    <3>1. CASE counter > MaxTries - 1
      BY <1>10, <3>1, RcopyMovesOK DEF RcopyPollTimeout, UdpInv, GivesUp, Counted
    <3>2. CASE ~(counter > MaxTries - 1)
      BY <1>10, <2>2, <3>2, RcopyMovesOK DEF RcopyPollTimeout, UdpInv, GivesUp, Counted
    <3>3. QED
      BY <3>1, <3>2
  <2>4. counter' \in 0 .. MaxTries
    BY <1>10, ParamsAssumption DEF RcopyPollTimeout, RcopyInv, GivesUp, Counted
  <2>5. UdpInv'
    BY <1>10, <2>3 DEF RcopyPollTimeout, PollReturns, UdpInv, GivesUp, Counted
  <2>6. RcopyInv'
    BY <1>10, <2>3, <2>4 DEF RcopyPollTimeout, RcopyInv, EofMeansWritten, EofSent, GivesUp, Counted
  <2>7. QED
    BY <2>5, <2>6
<1>11. CASE RcopyReceiveCorrupt
  <2> DEFINE m == Head(inbox[Client])
  <2>1. /\ MailOK(Taken(Client), file)
        /\ m.from \in Endpoints \ {Client}
    BY <1>11, RcopyReceives DEF RcopyReceiveCorrupt
  <2>2. /\ MailOK(inbox', file)
        /\ sockets' \in SUBSET Endpoints
        /\ rState' = AfterPoll(upper)
    BY <1>11, <2>1, RcopyMovesOK DEF RcopyReceiveCorrupt, UdpInv
  <2>3. UdpInv'
    BY <1>11, <2>2 DEF RcopyReceiveCorrupt, PollReturns, UdpInv
  <2>4. RcopyInv'
    BY <1>11, <2>1, <2>2, ParamsAssumption
       DEF RcopyReceiveCorrupt, AfterPoll, RcopyInv, EofMeansWritten, EofSent
  <2>5. QED
    BY <2>3, <2>4
<1>12. CASE RcopyReceiveRR
  <2> DEFINE m == Head(inbox[Client])
  <2>1. /\ MailOK(Taken(Client), file)
        /\ m.from \in Endpoints \ {Client}
        /\ m.body \in Nat /\ Landed(file, m.body)
    BY <1>12, RcopyReceives DEF RcopyReceiveRR
  <2>2. /\ MailOK(inbox', file)
        /\ sockets' \in SUBSET Endpoints
        /\ rState' = AfterPoll(upperAfter(m.body))
    BY <1>12, <2>1, RcopyMovesOK DEF RcopyReceiveRR, UdpInv
  <2>3. UdpInv'
    BY <1>12, <2>2 DEF RcopyReceiveRR, PollReturns, UdpInv
  <2>4. RcopyInv'
    <3>1. upper' \in Nat /\ rr' \in Nat /\ Landed(file, rr')
      BY <1>12, <2>1, ParamsAssumption DEF RcopyReceiveRR, upperAfter
    <3>2. QED
      BY <1>12, <2>1, <2>2, <3>1, ParamsAssumption
         DEF RcopyReceiveRR, AfterPoll, RcopyInv, EofMeansWritten, EofSent
  <2>5. QED
    BY <2>3, <2>4
<1>13. CASE RcopyReceiveSrej
  <2> DEFINE m == Head(inbox[Client])
  <2>1. /\ MailOK(Taken(Client), file)
        /\ m.from \in Endpoints \ {Client}
        /\ m.ok /\ m.flag = SREJ_FLAG => m.body \in Nat
    BY <1>13, RcopyReceives DEF RcopyReceiveSrej
  <2>2. PICK seq \in RequestedBy(m) :
          RcopyMoves(AfterPoll(upper),
            Delivered(Taken(Client), m.from, <<getEntry(ring, WindowSize, seq)>>))
    BY <1>13 DEF RcopyReceiveSrej
  <2>3. seq \in Nat
    BY <1>13, <2>1, ParamsAssumption DEF RcopyReceiveSrej, RequestedBy
  <2>4. getEntry(ring, WindowSize, seq) \in ToServer(file)
    BY <1>13, <2>3, RcopyEntryOK DEF RcopyReceiveSrej, RcopyInv
  <2>5. MailOK(Delivered(Taken(Client), m.from, <<getEntry(ring, WindowSize, seq)>>), file)
    BY <2>1, <2>4, RcopySends
  <2>6. /\ MailOK(inbox', file)
        /\ sockets' \in SUBSET Endpoints
        /\ rState' = AfterPoll(upper)
    BY <2>2, <2>5, RcopyMovesOK DEF UdpInv
  <2>7. UdpInv'
    BY <1>13, <2>6 DEF RcopyReceiveSrej, PollReturns, UdpInv
  <2>8. RcopyInv'
    BY <1>13, <2>1, <2>6, ParamsAssumption
       DEF RcopyReceiveSrej, AfterPoll, RcopyInv, EofMeansWritten, EofSent
  <2>9. QED
    BY <2>7, <2>8
<1>14. QED
  BY <1>1, <1>2, <1>3, <1>4, <1>5, <1>6, <1>7, <1>8, <1>9, <1>10, <1>11, <1>12, <1>13
     DEF RcopyNext

-----------------------------------------------------------------------------
(***************************************************************************)
(* The output file.                                                        *)
(***************************************************************************)
LEMMA ServerWindowOK == ServerWindow \in Nat
BY ParamsAssumption, ServerAssumption DEF ServerWindow

(* Writing packet k at position k. *)
LEMMA WrittenAt ==
  ASSUME NEW f \in [Positions -> Int], NEW k \in Positions, InPlace(k, f[k]),
         NEW m \in FromRcopy, m.ok, m.seq = k,
         NEW v, v = Written(f, k, m)[k]
  PROVE  /\ v \in Int
         /\ InPlace(k, v)
         /\ k \in Blocks => v = k \/ (k = 0 /\ v = FILENAME_PAYLOAD)
<1>1. /\ m \in Datagram(Endpoints)
      /\ DataPacket(m) \/ EofPacket(m) \/ FilenamePacket(m)
  BY DEF FromRcopy, RcopyPdu
<1>2. v = IF m.body = NO_PAYLOAD THEN f[k] ELSE m.body
  BY DEF Written
<1>3. QED
  BY <1>1, <1>2, ParamsAssumption
     DEF DataPacket, EofPacket, FilenamePacket, Datagram, InPlace, Blocks,
         NO_PAYLOAD, FILENAME_PAYLOAD

(* A write in sequence: the next expected packet. *)
LEMMA WrittenInSequence ==
  ASSUME file \in [Positions -> Int], FileIntegrity,
         NEW e \in Nat, Landed(file, e),
         NEW m \in FromRcopy, m.ok, m.seq = e,
         file' = Written(file, e, m)
  PROVE  /\ e <= NumBlocks
         /\ file' \in [Positions -> Int]
         /\ FileIntegrity'
         /\ \A k \in Blocks : Filled(file, k) => Filled(file', k)
         /\ Landed(file', e + 1)
<1>1. e <= NumBlocks /\ e \in Positions
  BY ParamsAssumption, ServerAssumption
     DEF FromRcopy, RcopyPdu, DataPacket, EofPacket, FilenamePacket, Blocks, Positions
<1>2. /\ file'[e] \in Int
      /\ InPlace(e, file'[e])
      /\ e \in Blocks => file'[e] = e \/ (e = 0 /\ file'[e] = FILENAME_PAYLOAD)
  BY <1>1, WrittenAt DEF FileIntegrity
<1>3. /\ file' \in [Positions -> Int]
      /\ \A k \in Positions : k # e => file'[k] = file[k]
  <2>1. CASE m.body = NO_PAYLOAD
    BY <2>1 DEF Written
  <2>2. CASE m.body # NO_PAYLOAD
    BY <2>2 DEF Written, FromRcopy, Datagram
  <2>3. QED
    BY <2>1, <2>2
<1>4. FileIntegrity'
  BY <1>2, <1>3 DEF FileIntegrity
<1>5. Blocks \subseteq Positions
  BY ParamsAssumption, ServerAssumption DEF Blocks, Positions
<1>6. \A k \in Blocks : Filled(file, k) => Filled(file', k)
  BY <1>2, <1>3, <1>5 DEF Filled
<1>7. Landed(file', e + 1)
  <2> SUFFICES ASSUME NEW k \in Blocks, k < e + 1
               PROVE  Filled(file', k)
    BY DEF Landed, Blocks
  <2>1. CASE k = e
    BY <1>2, <2>1 DEF Filled
  <2>2. CASE k < e
    BY <1>6, <2>2 DEF Landed, Blocks
  <2>3. QED
    BY <2>1, <2>2 DEF Blocks
<1>8. QED
  BY <1>1, <1>3, <1>4, <1>6, <1>7

-----------------------------------------------------------------------------
(***************************************************************************)
(* The steps of a child.                                                   *)
(***************************************************************************)
LEMMA ChildReceivesOK ==
  ASSUME UdpInv, NEW c \in Children, Arrived(c)
  PROVE  /\ MailOK(Taken(c), file)
         /\ Head(inbox[c]) \in FromRcopy
         /\ Head(inbox[c]).from = Client
<1>1. /\ c \in Endpoints
      /\ c # Client
  BY EndpointsFacts
<1>2. QED
  BY <1>1, TakenOK DEF UdpInv, MayReceive, ToServer, FromRcopy

(* A packet of rcopy has a number of at most NumBlocks. *)
LEMMA SeqBounded ==
  ASSUME NEW m \in FromRcopy, m.ok
  PROVE  m.seq \in 0 .. NumBlocks
BY ParamsAssumption
   DEF FromRcopy, RcopyPdu, DataPacket, EofPacket, FilenamePacket, Blocks

(* A step of child c is no concern of the other children. *)
LEMMA OneChildSteps ==
  ASSUME ServerInv, NEW c \in Children,
         sState' = [sState EXCEPT ![c] = sState'[c]],
         expected' = [expected EXCEPT ![c] = expected'[c]],
         highest' = [highest EXCEPT ![c] = highest'[c]],
         sring' = [sring EXCEPT ![c] = sring'[c]],
         sCounter' = [sCounter EXCEPT ![c] = sCounter'[c]],
         file' \in [Positions -> Int],
         \A k \in Blocks : Filled(file, k) => Filled(file', k),
         ChildInv(c)'
  PROVE  ServerInv'
<1>1. \A d \in Children \ {c} :
        /\ sState'[d] = sState[d] /\ expected'[d] = expected[d]
        /\ highest'[d] = highest[d] /\ sring'[d] = sring[d]
        /\ sCounter'[d] = sCounter[d]
  BY DEF ServerInv
<1>2. \A d \in Children : Landed(file', expected[d])
  BY LandedMonotone DEF ServerInv, ChildInv
<1>3. \A d \in Children \ {c} : ChildInv(d)'
  BY <1>1, <1>2 DEF ServerInv, ChildInv
<1>4. QED
  BY <1>3 DEF ServerInv

(* What a child holds after it put packet m into its ring. *)
LEMMA BufferedOK ==
  ASSUME NEW r \in [0 .. (ServerWindow - 1) -> ChildSlot], ServerWindow # 0,
         NEW m \in FromRcopy, m.ok
  PROVE  LET b == setValid(addToCircularBuffer(r, ServerWindow, m.seq, m),
                           ServerWindow, m.seq, TRUE)
             i == m.seq % ServerWindow
         IN  /\ b \in [0 .. (ServerWindow - 1) -> ChildSlot]
             /\ b[i] = [valid |-> TRUE, sequenceNumber |-> m.seq, pdu |-> m]
             /\ \A j \in 0 .. (ServerWindow - 1) : j # i => b[j] = r[j]
<1> DEFINE i == m.seq % ServerWindow
           slot == [valid |-> TRUE, sequenceNumber |-> m.seq, pdu |-> m]
           early == [valid |-> r[i].valid, sequenceNumber |-> m.seq, pdu |-> m]
           r1 == [r EXCEPT ![i] = early]
<1>1. i \in 0 .. (ServerWindow - 1)
  BY ServerWindowOK, SeqBounded
<1>2. slot \in ChildSlot
  BY SeqBounded DEF ChildSlot
<1>3. setValid(addToCircularBuffer(r, ServerWindow, m.seq, m), ServerWindow, m.seq, TRUE)
        = [r1 EXCEPT ![i] = slot]
  <2>1. addToCircularBuffer(r, ServerWindow, m.seq, m) = r1
    BY DEF addToCircularBuffer, getIndex
  <2>2. setValid(r1, ServerWindow, m.seq, TRUE)
          = [r1 EXCEPT ![i] = [valid |-> TRUE, sequenceNumber |-> r1[i].sequenceNumber,
                                pdu |-> r1[i].pdu]]
    BY DEF setValid, getIndex
  <2>3. r1[i] = early
    BY <1>1
  <2>4. QED
    BY <2>1, <2>2, <2>3
<1>4. QED
  <2> DEFINE b == [r1 EXCEPT ![i] = slot]
  <2> HIDE DEF i, slot, early
  <2>1. /\ b \in [0 .. (ServerWindow - 1) -> ChildSlot]
        /\ b[i] = slot
        /\ \A j \in 0 .. (ServerWindow - 1) : j # i => b[j] = r[j]
    BY <1>1, <1>2
  <2>2. QED
    BY <1>3, <2>1 DEF i, slot

(* An answer to a datagram that leaves the file, the ring and the counters  *)
(* alone: a timeout, a datagram that is dropped, an RR that is repeated.    *)
LEMMA ChildIdleStep ==
  ASSUME UdpInv, ServerInv, NEW c \in Children, NEW s \in ChildStates, NEW n \in 0 .. MaxTries,
         NEW box, MailOK(box, file), ChildMoves(c, s, box),
         sState[c] \notin {"unused", "forked"} \cup Ended,
         s \in {sState[c]} \cup Ended,
         sCounter' = [sCounter EXCEPT ![c] = n], due' \subseteq due,
         UNCHANGED <<expected, highest, sring, file, faults>>
  PROVE  UdpInv' /\ ServerInv'
<1>1. /\ MailOK(inbox', file)
      /\ sockets' \in SUBSET Endpoints
      /\ sState' = [sState EXCEPT ![c] = s]
  BY ChildMovesOK DEF UdpInv
<1>2. UdpInv'
  BY <1>1 DEF UdpInv
<1>3. sState'[c] = s /\ sCounter'[c] = n
  BY <1>1 DEF ServerInv
<1>4. ChildInv(c)'
  BY <1>3 DEF ServerInv, ChildInv, Ended
<1>5. ServerInv'
  <2>1. /\ sState' = [sState EXCEPT ![c] = sState'[c]]
        /\ sCounter' = [sCounter EXCEPT ![c] = sCounter'[c]]
    BY <1>1, <1>3
  <2>2. /\ expected' = [expected EXCEPT ![c] = expected'[c]]
        /\ highest' = [highest EXCEPT ![c] = highest'[c]]
        /\ sring' = [sring EXCEPT ![c] = sring'[c]]
        /\ file' \in [Positions -> Int]
    BY DEF ServerInv
  <2>3. QED
    BY <1>4, <2>1, <2>2, OneChildSteps
<1>6. QED
  BY <1>2, <1>5

(* The loop of onDataFlush up to before packet x writes in sequence: what   *)
(* is held was sent by rcopy under the number it is written for.            *)
LEMMA FlushedOK ==
  ASSUME ServerInv, FileIntegrity, NEW c \in Children, sState[c] = "flush",
         NEW x \in expected[c] .. (highest[c] + 1),
         \A k \in expected[c] .. (x - 1) : Held(c, k),
         file' = Flushed(c, x)
  PROVE  /\ x \in 0 .. (NumBlocks + 1)
         /\ ServerWindow \in Nat \ {0}
         /\ sring[c] \in [0 .. (ServerWindow - 1) -> ChildSlot]
         /\ file' \in [Positions -> Int]
         /\ FileIntegrity'
         /\ \A k \in Blocks : Filled(file, k) => Filled(file', k)
         /\ Landed(file', x)
<1> DEFINE e == expected[c]
<1>0. e \in Nat /\ Landed(file, e)
  BY ParamsAssumption DEF ServerInv, ChildInv
<1>1. /\ \A k \in e .. (x - 1) : Held(c, k)
      /\ file' = [k \in Positions |->
           IF k \in e .. (x - 1)
           THEN Written(file, k, getEntry(sring[c], ServerWindow, k))[k]
           ELSE file[k]]
  BY DEF Flushed
<1>2. /\ highest[c] \in -1 .. NumBlocks
      /\ x \in 0 .. (NumBlocks + 1)
      /\ e <= x
      /\ ServerWindow \in Nat \ {0}
      /\ sring[c] \in [0 .. (ServerWindow - 1) -> ChildSlot]
  <2>1. /\ sState[c] = "flush"
        /\ highest[c] \in -1 .. NumBlocks
        /\ ServerWindow # 0
        /\ sring[c] \in [0 .. (ServerWindow - 1) -> ChildSlot]
    BY DEF ServerInv, ChildInv, Ended
  <2>2. x \in 0 .. (NumBlocks + 1) /\ e <= x
    BY <1>0, <2>1, ParamsAssumption
  <2>3. QED
    BY <2>1, <2>2, ServerWindowOK
<1>3. \A k \in e .. (x - 1) :
        LET p == getEntry(sring[c], ServerWindow, k) IN
          p \in FromRcopy /\ p.ok /\ p.seq = k
  <2> SUFFICES ASSUME NEW k \in e .. (x - 1)
               PROVE  LET p == getEntry(sring[c], ServerWindow, k) IN
                        p \in FromRcopy /\ p.ok /\ p.seq = k
    OBVIOUS
  <2>1. k % ServerWindow \in 0 .. (ServerWindow - 1)
    BY <1>0, <1>2
  <2>2. Held(c, k)
    BY <1>1
  <2>3. QED
    BY <1>2, <2>1, <2>2
       DEF Held, getValid, getSequenceNumber, getEntry, getIndex, ChildSlot
<1>4. \A k \in Positions \cap (e .. (x - 1)) :
        /\ file'[k] \in Int
        /\ InPlace(k, file'[k])
        /\ k \in Blocks => file'[k] = k \/ (k = 0 /\ file'[k] = FILENAME_PAYLOAD)
  <2> SUFFICES ASSUME NEW k \in Positions \cap (e .. (x - 1))
               PROVE  /\ file'[k] \in Int
                      /\ InPlace(k, file'[k])
                      /\ k \in Blocks =>
                           file'[k] = k \/ (k = 0 /\ file'[k] = FILENAME_PAYLOAD)
    OBVIOUS
  <2>1. file'[k] = Written(file, k, getEntry(sring[c], ServerWindow, k))[k]
    BY <1>1
  <2>2. QED
    BY <1>3, <2>1, WrittenAt DEF ServerInv, FileIntegrity
<1>5. \A k \in Positions \ (e .. (x - 1)) : file'[k] = file[k]
  BY <1>1
<1>6. file' \in [Positions -> Int]
  <2>1. /\ file' = [k \in Positions |-> file'[k]]
        /\ \A k \in Positions : file'[k] \in Int
    BY <1>1, <1>4, <1>5 DEF ServerInv
  <2>2. QED
    BY <2>1
<1>7. FileIntegrity'
  BY <1>4, <1>5 DEF FileIntegrity
<1>8. Blocks \subseteq Positions
  BY ParamsAssumption, ServerAssumption DEF Blocks, Positions
<1>9. \A k \in Blocks : Filled(file, k) => Filled(file', k)
  BY <1>4, <1>5, <1>8 DEF Filled
<1>10. Landed(file', x)
  <2> SUFFICES ASSUME NEW k \in Blocks, k < x
               PROVE  Filled(file', k)
    BY DEF Landed, Blocks
  <2>1. CASE k < e
    BY <1>0, <1>9, <2>1 DEF Landed, Blocks
  <2>2. CASE ~(k < e)
    <3>1. k \in e .. (x - 1)
      BY <1>0, <1>2, <2>2, ParamsAssumption DEF Blocks
    <3>2. QED
      BY <1>4, <1>8, <3>1 DEF Filled
  <2>3. QED
    BY <2>1, <2>2
<1>11. QED
  BY <1>2, <1>6, <1>7, <1>9, <1>10

(* Every step of a child keeps the invariants of the network and the        *)
(* server, and takes no block out of the output file.                       *)
LEMMA ChildStepOK ==
  ASSUME UdpInv, ServerInv, FileIntegrity, NEW c \in Children, ChildNext(c)
  PROVE  /\ UdpInv'
         /\ ServerInv'
         /\ FileIntegrity'
         /\ \A k \in Blocks : Filled(file, k) => Filled(file', k)
<1> DEFINE m == Head(inbox[c])
           e == expected[c]
<1>0. /\ ChildInv(c)
      /\ e \in Nat
      /\ Landed(file, e)
      /\ 0 \in 0 .. MaxTries
      /\ sState[c] \in ChildStates
  BY ParamsAssumption DEF ServerInv, ChildInv
<1> USE DEF Ended, Receiving
<1>1. CASE ChildStart(c)
  <2>1. PICK ok \in OpenOutcomes :
          /\ sState' = [sState EXCEPT ![c] = IF ok THEN "inOrder" ELSE "done"]
          /\ sockets' = IF ok THEN sockets \cup {c} ELSE sockets
          /\ inbox' = Delivered(inbox, Client, <<FilenameResponse(c, ok)>>)
    BY <1>1 DEF ChildStart
  <2>2. ok \in BOOLEAN
    BY ServerAssumption
  <2>3. UdpInv'
    <3>1. MailOK(inbox', file)
      BY <2>1, <2>2, ChildPdusOK, ChildSends DEF UdpInv
    <3>2. QED
      BY <1>1, <2>1, <3>1, EndpointsFacts DEF ChildStart, UdpInv
  <2>4. sring'[c] \in [0 .. (ServerWindow - 1) -> ChildSlot]
    BY <1>1, RcopyPdusOK
       DEF ChildStart, ServerInv, setupCircularBuffer, EmptySlot, ChildSlot
  <2>5. ChildInv(c)'
    BY <1>0, <1>1, <2>1, <2>4 DEF ChildStart, ServerInv, ChildInv, ChildStates
  <2>6. ServerInv'
    <3>1. /\ sState' = [sState EXCEPT ![c] = sState'[c]]
          /\ expected' = [expected EXCEPT ![c] = expected'[c]]
          /\ highest' = [highest EXCEPT ![c] = highest'[c]]
          /\ sring' = [sring EXCEPT ![c] = sring'[c]]
          /\ sCounter' = [sCounter EXCEPT ![c] = sCounter'[c]]
          /\ file' = file
      BY <1>1, <2>1 DEF ChildStart, ServerInv
    <3>2. QED
      BY <2>5, <3>1, OneChildSteps DEF ServerInv
  <2>7. QED
    BY <1>1, <2>3, <2>6 DEF ChildStart, FileIntegrity
<1>2. CASE ChildTimeout(c)
  <2>1. PICK s \in {sState[c], "done"}, n \in 0 .. MaxTries :
          /\ ChildMoves(c, s, inbox)
          /\ sCounter' = [sCounter EXCEPT ![c] = n]
    <3>1. CASE sCounter[c] > MaxTries - 1
      <4>1. sCounter' = [sCounter EXCEPT ![c] = sCounter[c]]
        BY <1>2, <3>1 DEF ChildTimeout, ServerInv, GivesUp, Counted
      <4>2. QED
        BY <1>0, <1>2, <3>1, <4>1 DEF ChildTimeout, ChildInv, GivesUp, Counted
    <3>2. CASE ~(sCounter[c] > MaxTries - 1)
      BY <1>0, <1>2, <3>2, ParamsAssumption DEF ChildTimeout, ChildInv, GivesUp, Counted
    <3>3. QED
      BY <3>1, <3>2
  <2>2. UdpInv' /\ ServerInv'
    BY <1>0, <1>2, <2>1, ChildIdleStep DEF ChildTimeout, PollReturns, UdpInv, ChildStates, GivesUp, Counted
  <2>3. QED
    BY <1>2, <2>2 DEF ChildTimeout, FileIntegrity, GivesUp, Counted
<1>3. CASE ChildEmptyDatagram(c)
  <2>1. MailOK(Taken(c), file)
    BY <1>3, ChildReceivesOK DEF ChildEmptyDatagram, ChildReceives
  <2>2. UdpInv' /\ ServerInv'
    BY <1>0, <1>3, <2>1, ChildIdleStep
       DEF ChildEmptyDatagram, ChildReceives, PollReturns, ChildStates
  <2>3. QED
    BY <1>3, <2>2 DEF ChildEmptyDatagram, FileIntegrity
<1>4. CASE ChildCorrupt(c)
  <2>1. MailOK(Taken(c), file)
    BY <1>4, ChildReceivesOK DEF ChildCorrupt, ChildReceives
  <2>2. UdpInv' /\ ServerInv'
    BY <1>0, <1>4, <2>1, ChildIdleStep
       DEF ChildCorrupt, ChildReceives, PollReturns
  <2>3. QED
    BY <1>4, <2>2 DEF ChildCorrupt, FileIntegrity
<1>5. CASE ChildOldPacket(c)
  <2>1. MailOK(Taken(c), file) /\ m.from = Client
    BY <1>5, ChildReceivesOK DEF ChildOldPacket, ChildReceives, OldPacketReply
  <2>2. MailOK(Delivered(Taken(c), m.from, <<Rr(c, e)>>), file)
    BY <1>0, <2>1, ChildPdusOK, ChildSends
  <2>3. UdpInv' /\ ServerInv'
    BY <1>0, <1>5, <2>2, ChildIdleStep
       DEF ChildOldPacket, ChildReceives, PollReturns, OldPacketReply
  <2>4. QED
    BY <1>5, <2>3 DEF ChildOldPacket, FileIntegrity, OldPacketReply
<1>6. CASE InOrderEof(c)
  <2>1. MailOK(Taken(c), file)
    BY <1>6, ChildReceivesOK DEF InOrderEof, ChildReceives
  <2>2. UdpInv' /\ ServerInv'
    BY <1>0, <1>6, <2>1, ChildIdleStep
       DEF InOrderEof, ChildReceives, PollReturns, ChildStates
  <2>3. QED
    BY <1>6, <2>2 DEF InOrderEof, FileIntegrity
<1>7. CASE InOrderExpected(c)
  <2>1. /\ MailOK(Taken(c), file) /\ m \in FromRcopy /\ m.from = Client
        /\ m.ok /\ m.seq = e
        /\ file' = Written(file, e, m)
        /\ highest' = [highest EXCEPT ![c] = IF m.seq > @ THEN m.seq ELSE @]
        /\ expected' = [expected EXCEPT ![c] = e + 1]
        /\ ChildMoves(c, "inOrder", Delivered(Taken(c), m.from, <<Rr(c, e + 1)>>))
        /\ sCounter' = [sCounter EXCEPT ![c] = 0]
    BY <1>7, ChildReceivesOK DEF InOrderExpected, ChildReceives, TakenAsData, IsExpected
  <2>2. /\ e <= NumBlocks
        /\ file' \in [Positions -> Int]
        /\ FileIntegrity'
        /\ \A k \in Blocks : Filled(file, k) => Filled(file', k)
        /\ Landed(file', e + 1)
    BY <1>0, <2>1, WrittenInSequence DEF ServerInv
  <2>3. MailOK(Delivered(Taken(c), m.from, <<Rr(c, e + 1)>>), file')
    <3>1. MailOK(Taken(c), file')
      BY <2>1, <2>2, MailMonotone
    <3>2. Rr(c, e + 1) \in FromChildren(file')
      BY <1>0, <2>2, ChildPdusOK
    <3>3. QED
      BY <2>1, <3>1, <3>2, ChildSends
  <2>4. /\ MailOK(inbox', file')
        /\ sockets' \in SUBSET Endpoints
        /\ sState' = [sState EXCEPT ![c] = "inOrder"]
    BY <2>1, <2>3, ChildMovesOK DEF UdpInv
  <2>5. UdpInv'
    BY <1>7, <2>4 DEF InOrderExpected, ChildReceives, PollReturns, UdpInv, IsExpected
  <2>6. ChildInv(c)'
    <3>1. /\ sState'[c] = "inOrder" /\ sState[c] = "inOrder"
          /\ sring'[c] = sring[c]
          /\ expected'[c] = e + 1
          /\ highest'[c] \in -1 .. NumBlocks
          /\ sCounter'[c] = 0
      BY <1>0, <1>7, <2>1, <2>4, SeqBounded
         DEF InOrderExpected, ChildReceives, ServerInv, ChildInv, IsExpected
    <3>2. QED
      BY <1>0, <2>2, <3>1, ParamsAssumption DEF ChildInv, ChildStates
  <2>7. ServerInv'
    <3>1. /\ sState' = [sState EXCEPT ![c] = sState'[c]]
          /\ expected' = [expected EXCEPT ![c] = expected'[c]]
          /\ highest' = [highest EXCEPT ![c] = highest'[c]]
          /\ sring' = [sring EXCEPT ![c] = sring'[c]]
          /\ sCounter' = [sCounter EXCEPT ![c] = sCounter'[c]]
      BY <1>7, <2>1, <2>4 DEF InOrderExpected, ServerInv, IsExpected
    <3>2. QED
      BY <2>2, <2>6, <3>1, OneChildSteps
  <2>8. QED
    BY <2>2, <2>5, <2>7
<1>8. ASSUME NEW box, MailOK(box, file), m \in FromRcopy, m.ok, ServerWindow # 0,
             Buffered(c, m), ChildMoves(c, "buffer", box),
             sState[c] \in {"inOrder", "buffer"},
             sCounter' = [sCounter EXCEPT ![c] = 0], due' \subseteq due,
             UNCHANGED <<expected, file, faults>>
      PROVE  /\ UdpInv' /\ ServerInv' /\ FileIntegrity'
             /\ \A k \in Blocks : Filled(file, k) => Filled(file', k)
  <2>1. /\ MailOK(inbox', file')
        /\ sockets' \in SUBSET Endpoints
        /\ sState' = [sState EXCEPT ![c] = "buffer"]
    BY <1>8, ChildMovesOK DEF UdpInv
  <2>2. UdpInv'
    BY <1>8, <2>1 DEF UdpInv
  <2>3. sring'[c] \in [0 .. (ServerWindow - 1) -> ChildSlot]
    BY <1>0, <1>8, BufferedOK DEF Buffered, ServerInv, ChildInv
  <2>4. ChildInv(c)'
    <3>1. /\ sState'[c] = "buffer" /\ sCounter'[c] = 0
          /\ expected'[c] = expected[c]
          /\ highest'[c] \in -1 .. NumBlocks
      BY <1>0, <1>8, <2>1, SeqBounded DEF Buffered, ServerInv, ChildInv
    <3>2. QED
      BY <1>0, <1>8, <2>3, <3>1 DEF ChildInv, ChildStates
  <2>5. ServerInv'
    <3>1. /\ sState' = [sState EXCEPT ![c] = sState'[c]]
          /\ expected' = [expected EXCEPT ![c] = expected'[c]]
          /\ highest' = [highest EXCEPT ![c] = highest'[c]]
          /\ sring' = [sring EXCEPT ![c] = sring'[c]]
          /\ sCounter' = [sCounter EXCEPT ![c] = sCounter'[c]]
          /\ file' \in [Positions -> Int]
      BY <1>8, <2>1 DEF Buffered, ServerInv
    <3>2. QED
      BY <1>8, <2>4, <3>1, OneChildSteps
  <2>6. QED
    BY <1>8, <2>2, <2>5 DEF FileIntegrity
<1>9. CASE InOrderAhead(c)
  <2>1. /\ MailOK(Taken(c), file) /\ m \in FromRcopy /\ m.from = Client
    BY <1>9, ChildReceivesOK DEF InOrderAhead, ChildReceives
  <2>2. MailOK(Delivered(Taken(c), m.from, <<Srej(c, e)>>), file)
    BY <1>0, <2>1, ChildPdusOK, ChildSends
  <2>3. QED
    BY <1>8, <1>9, <2>1, <2>2 DEF InOrderAhead, ChildReceives, TakenAsData, PollReturns
<1>10. CASE InOrderAheadNoRing(c)
  <2>1. /\ MailOK(Taken(c), file) /\ m.from = Client
    BY <1>10, ChildReceivesOK DEF InOrderAheadNoRing, ChildReceives
  <2>2. MailOK(Delivered(Taken(c), m.from, <<Srej(c, e)>>), file)
    BY <1>0, <2>1, ChildPdusOK, ChildSends
  <2>3. UdpInv' /\ ServerInv'
    BY <1>0, <1>10, <2>2, ChildIdleStep
       DEF InOrderAheadNoRing, ChildReceives, PollReturns, ChildStates
  <2>4. QED
    BY <1>10, <2>3 DEF InOrderAheadNoRing, FileIntegrity
<1>11. CASE BufferExpected(c)
  <2>1. /\ MailOK(Taken(c), file) /\ m \in FromRcopy
        /\ m.ok /\ m.seq = e
        /\ file' = Written(file, e, m)
        /\ expected' = [expected EXCEPT ![c] = e + 1]
        /\ ChildMoves(c, "flush", Taken(c))
        /\ sCounter' = [sCounter EXCEPT ![c] = 0]
    BY <1>11, ChildReceivesOK DEF BufferExpected, ChildReceives, TakenAsData, IsExpected
  <2>2. /\ e <= NumBlocks
        /\ file' \in [Positions -> Int]
        /\ FileIntegrity'
        /\ \A k \in Blocks : Filled(file, k) => Filled(file', k)
        /\ Landed(file', e + 1)
    BY <1>0, <2>1, WrittenInSequence DEF ServerInv
  <2>3. /\ MailOK(inbox', file')
        /\ sockets' \in SUBSET Endpoints
        /\ sState' = [sState EXCEPT ![c] = "flush"]
    BY <2>1, <2>2, ChildMovesOK, MailMonotone DEF UdpInv
  <2>4. UdpInv'
    BY <1>11, <2>3 DEF BufferExpected, ChildReceives, PollReturns, UdpInv, IsExpected
  <2>5. ChildInv(c)'
    <3>1. /\ sState'[c] = "flush" /\ sState[c] = "buffer"
          /\ sring'[c] = sring[c] /\ highest'[c] = highest[c]
          /\ expected'[c] = e + 1
          /\ sCounter'[c] = 0
      BY <1>11, <2>1, <2>3 DEF BufferExpected, ChildReceives, ServerInv, IsExpected
    <3>2. QED
      BY <1>0, <2>2, <3>1, ParamsAssumption DEF ChildInv, ChildStates
  <2>6. ServerInv'
    <3>1. /\ sState' = [sState EXCEPT ![c] = sState'[c]]
          /\ expected' = [expected EXCEPT ![c] = expected'[c]]
          /\ highest' = [highest EXCEPT ![c] = highest'[c]]
          /\ sring' = [sring EXCEPT ![c] = sring'[c]]
          /\ sCounter' = [sCounter EXCEPT ![c] = sCounter'[c]]
      BY <1>11, <2>1, <2>3 DEF BufferExpected, ServerInv, IsExpected
    <3>2. QED
      BY <2>2, <2>5, <3>1, OneChildSteps
  <2>7. QED
    BY <2>2, <2>4, <2>6
<1>12. CASE BufferAhead(c)
  <2>1. /\ MailOK(Taken(c), file) /\ m \in FromRcopy
    BY <1>12, ChildReceivesOK DEF BufferAhead, ChildReceives
  <2>2. ServerWindow # 0
    BY <1>0, <1>12 DEF BufferAhead, ChildReceives, ChildInv
  <2>3. QED
    BY <1>8, <1>12, <2>1, <2>2 DEF BufferAhead, ChildReceives, TakenAsData, PollReturns
<1>13. CASE ChildFlush(c)
  <2>1. PICK x \in e .. (highest[c] + 1) :
          /\ \A k \in e .. (x - 1) : Held(c, k)
          /\ file' = Flushed(c, x)
          /\ sring' = [sring EXCEPT ![c] = [i \in DOMAIN sring[c] |->
               IF \E k \in e .. (x - 1) : getIndex(ServerWindow, k) = i
               THEN [sring[c][i] EXCEPT !.valid = FALSE] ELSE sring[c][i]]]
          /\ expected' = [expected EXCEPT ![c] = x]
          /\ IF x < highest[c]
             THEN ChildMoves(c, "buffer", Delivered(inbox, Client, <<Rr(c, x), Srej(c, x)>>))
             ELSE ChildMoves(c, "inOrder", Delivered(inbox, Client, <<Rr(c, x)>>))
    BY <1>13 DEF ChildFlush, Released
  <2>2. /\ x \in 0 .. (NumBlocks + 1)
        /\ ServerWindow \in Nat \ {0}
        /\ sring[c] \in [0 .. (ServerWindow - 1) -> ChildSlot]
        /\ file' \in [Positions -> Int]
        /\ FileIntegrity'
        /\ \A k \in Blocks : Filled(file, k) => Filled(file', k)
        /\ Landed(file', x)
    BY <1>13, <2>1, FlushedOK DEF ChildFlush
  <2>3. PICK s \in {"buffer", "inOrder"}, ds \in Seq(FromChildren(file')) :
           ChildMoves(c, s, Delivered(inbox, Client, ds))
    <3>1. Rr(c, x) \in FromChildren(file') /\ Srej(c, x) \in FromChildren(file')
      BY <2>2, ChildPdusOK
    <3>2. <<Rr(c, x)>> \in Seq(FromChildren(file'))
      BY <3>1, Singleton
    <3>3. <<Rr(c, x), Srej(c, x)>> \in Seq(FromChildren(file'))
      <4>1. <<Rr(c, x), Srej(c, x)>> = Append(<<Rr(c, x)>>, Srej(c, x))
        OBVIOUS
      <4>2. QED
        BY <3>1, <3>2, <4>1, AppendProperties
    <3>4. CASE x < highest[c]
      BY <2>1, <3>3, <3>4
    <3>5. CASE ~(x < highest[c])
      BY <2>1, <3>2, <3>5
    <3>6. QED
      BY <3>4, <3>5
  <2>4. /\ MailOK(inbox', file')
         /\ sockets' \in SUBSET Endpoints
         /\ sState' = [sState EXCEPT ![c] = s]
    <3>1. MailOK(Delivered(inbox, Client, ds), file')
      BY <2>2, <2>3, MailMonotone, DeliveredOK, EndpointsFacts DEF UdpInv, MayReceive
    <3>2. QED
      BY <2>3, <3>1, ChildMovesOK DEF UdpInv
  <2>5. UdpInv'
    BY <1>13, <2>4 DEF ChildFlush, UdpInv, Released
  <2>6. sring'[c] \in [0 .. (ServerWindow - 1) -> ChildSlot]
    <3>1. sring'[c] = [i \in 0 .. (ServerWindow - 1) |->
               IF \E k \in e .. (x - 1) : getIndex(ServerWindow, k) = i
               THEN [sring[c][i] EXCEPT !.valid = FALSE] ELSE sring[c][i]]
      BY <2>1, <2>2 DEF ServerInv
    <3>2. \A t \in ChildSlot : [t EXCEPT !.valid = FALSE] \in ChildSlot
      BY DEF ChildSlot
    <3>3. QED
      BY <2>2, <3>1, <3>2
  <2>7. ChildInv(c)'
    <3>1. /\ sState'[c] = s /\ highest'[c] = highest[c] /\ sCounter'[c] = sCounter[c]
          /\ expected'[c] = x
      BY <1>13, <2>1, <2>4 DEF ChildFlush, ServerInv, Released
    <3>2. QED
      BY <1>0, <2>2, <2>6, <3>1 DEF ChildInv, ChildStates
  <2>8. ServerInv'
    <3>1. /\ sState' = [sState EXCEPT ![c] = sState'[c]]
          /\ expected' = [expected EXCEPT ![c] = expected'[c]]
          /\ highest' = [highest EXCEPT ![c] = highest'[c]]
          /\ sring' = [sring EXCEPT ![c] = sring'[c]]
          /\ sCounter' = [sCounter EXCEPT ![c] = sCounter'[c]]
      BY <1>13, <2>1, <2>4 DEF ChildFlush, ServerInv, Released
    <3>2. QED
      BY <2>2, <2>7, <3>1, OneChildSteps
  <2>9. QED
    BY <2>2, <2>5, <2>8
<1>14. CASE ChildCutShort(c)
  <2>1. PICK x \in 0 .. (NumBlocks + 1) :
          /\ expected' = [expected EXCEPT ![c] = x]
          /\ file' \in [Positions -> Int]
          /\ FileIntegrity'
          /\ \A k \in Blocks : Filled(file, k) => Filled(file', k)
          /\ Landed(file', x)
    <3>1. CASE sState[c] = "inOrder"
      <4>1. /\ Arrived(c) /\ m.ok /\ m.seq = e
            /\ file' = Written(file, e, m)
            /\ expected' = [expected EXCEPT ![c] = e + 1]
        BY <1>14, <3>1 DEF ChildCutShort, TakenAsData, IsExpected
      <4>2. m \in FromRcopy
        BY <4>1, ChildReceivesOK
      <4>3. /\ e <= NumBlocks
            /\ file' \in [Positions -> Int]
            /\ FileIntegrity'
            /\ \A k \in Blocks : Filled(file, k) => Filled(file', k)
            /\ Landed(file', e + 1)
        BY <1>0, <4>1, <4>2, WrittenInSequence DEF ServerInv
      <4>4. e + 1 \in 0 .. (NumBlocks + 1)
        BY <1>0, <4>3, ParamsAssumption
      <4>5. QED
        BY <4>1, <4>3, <4>4
    <3>2. CASE sState[c] # "inOrder"
      <4>1. PICK x \in (e + 1) .. (highest[c] + 1) :
              /\ \A k \in e .. (x - 1) : Held(c, k)
              /\ file' = Flushed(c, x)
              /\ expected' = [expected EXCEPT ![c] = x]
        BY <1>14, <3>2 DEF ChildCutShort
      <4>2. x \in e .. (highest[c] + 1)
        BY <1>0, <4>1 DEF ChildInv
      <4>3. sState[c] = "flush"
        BY <1>14, <3>2 DEF ChildCutShort
      <4>4. QED
        BY <4>1, <4>2, <4>3, FlushedOK
    <3>3. QED
      BY <3>1, <3>2
  <2>2. /\ MailOK(inbox', file')
        /\ sockets' \in SUBSET Endpoints
        /\ sState' = [sState EXCEPT ![c] = "killed"]
    <3>1. MailOK(inbox, file')
      BY <2>1, MailMonotone DEF UdpInv
    <3>2. ChildMoves(c, "killed", inbox)
      BY <1>14 DEF ChildCutShort
    <3>3. QED
      BY <3>1, <3>2, ChildMovesOK DEF UdpInv
  <2>3. UdpInv'
    BY <1>14, <2>2 DEF ChildCutShort, PollReturns, UdpInv, FaultCounts
  <2>4. sState'[c] = "killed" /\ expected'[c] = x
    BY <2>1, <2>2 DEF ServerInv
  <2>5. ChildInv(c)'
    BY <1>0, <1>14, <2>1, <2>4 DEF ChildCutShort, ChildInv, ChildStates
  <2>6. ServerInv'
    <3>1. /\ sState' = [sState EXCEPT ![c] = sState'[c]]
          /\ expected' = [expected EXCEPT ![c] = expected'[c]]
          /\ highest' = [highest EXCEPT ![c] = highest'[c]]
          /\ sring' = [sring EXCEPT ![c] = sring'[c]]
          /\ sCounter' = [sCounter EXCEPT ![c] = sCounter'[c]]
      BY <1>14, <2>1, <2>2, <2>4 DEF ChildCutShort, ServerInv
    <3>2. QED
      BY <2>1, <2>5, <3>1, OneChildSteps
  <2>7. QED
    BY <2>1, <2>3, <2>6
<1>15. QED
  BY <1>1, <1>2, <1>3, <1>4, <1>5, <1>6, <1>7, <1>9, <1>10, <1>11, <1>12, <1>13, <1>14
     DEF ChildNext

-----------------------------------------------------------------------------
(***************************************************************************)
(* The steps of everybody else, and the invariant.                         *)
(***************************************************************************)
LEMMA MainStepOK ==
  ASSUME UdpInv, ServerInv, FileIntegrity, MainStep
  PROVE  UdpInv' /\ ServerInv' /\ FileIntegrity' /\ file' = file
<1>1. ASSUME Arrived(Main), inbox' = Taken(Main), UNCHANGED <<sockets, faults, due, file>>
      PROVE  UdpInv' /\ FileIntegrity'
  BY <1>1, TakenOK, EndpointsFacts DEF UdpInv, FileIntegrity
<1>2. CASE ServerIgnore
  <2>1. UdpInv' /\ FileIntegrity' /\ file' = file
    BY <1>1, <1>2 DEF ServerIgnore, serverVars
  <2>2. ServerInv'
    BY <1>2, <2>1 DEF ServerIgnore, serverVars, ServerInv, ChildInv
  <2>3. QED
    BY <2>1, <2>2
<1>3. ASSUME NEW c \in Children, ServerFork(c)
      PROVE  UdpInv' /\ ServerInv' /\ FileIntegrity' /\ file' = file
  <2>1. UdpInv' /\ FileIntegrity' /\ file' = file
    BY <1>1, <1>3 DEF ServerFork
  <2>2. sState' = [sState EXCEPT ![c] = "forked"] /\ sState'[c] = "forked"
    BY <1>3 DEF ServerFork, ServerInv
  <2>3. ChildInv(c)'
    BY <1>3, <2>2 DEF ServerFork, ServerInv, ChildInv, ChildStates
  <2>4. /\ sState' = [sState EXCEPT ![c] = sState'[c]]
        /\ expected' = [expected EXCEPT ![c] = expected'[c]]
        /\ highest' = [highest EXCEPT ![c] = highest'[c]]
        /\ sring' = [sring EXCEPT ![c] = sring'[c]]
        /\ sCounter' = [sCounter EXCEPT ![c] = sCounter'[c]]
        /\ file' \in [Positions -> Int]
    BY <1>3, <2>2 DEF ServerFork, ServerInv
  <2>5. ServerInv'
    BY <2>1, <2>3, <2>4, OneChildSteps
  <2>6. QED
    BY <2>1, <2>5
<1>4. QED
  BY <1>2, <1>3 DEF MainStep

(* rcopy's part of the invariant depends on the file only through what has  *)
(* landed in it.                                                            *)
LEMMA RcopyInvStays ==
  ASSUME RcopyInv, UNCHANGED rcopyVars,
         \A k \in Blocks : Filled(file, k) => Filled(file', k)
  PROVE  RcopyInv'
<1>1. /\ Landed(file', rr)
      /\ Landed(file, NumBlocks) => Landed(file', NumBlocks)
  BY LandedMonotone DEF RcopyInv
<1>2. QED
  BY <1>1 DEF RcopyInv, rcopyVars, EofMeansWritten, EofSent

(* Killing a process keeps the invariants.                                  *)
LEMMA KillOK ==
  ASSUME IInv, Kill
  PROVE  IInv' /\ file' = file
<1>1. CASE RcopyKilled /\ UNCHANGED serverVars
  <2>1. /\ MailOK(inbox', file)
        /\ sockets' \in SUBSET Endpoints
        /\ rState' = "killed"
    BY <1>1, RcopyMovesOK DEF RcopyKilled, IInv, UdpInv
  <2>2. UdpInv'
    BY <1>1, <2>1 DEF RcopyKilled, PollReturns, serverVars, IInv, UdpInv, FaultCounts
  <2>3. RcopyInv'
    BY <1>1, <2>1
       DEF RcopyKilled, serverVars, IInv, RcopyInv, RcopyStates, EofMeansWritten, EofSent
  <2>4. ServerInv' /\ FileIntegrity' /\ file' = file
    BY <1>1 DEF serverVars, IInv, ServerInv, ChildInv, FileIntegrity
  <2>5. QED
    BY <2>2, <2>3, <2>4 DEF IInv
<1>2. ASSUME NEW c \in Children, ChildKilled(c), UNCHANGED rcopyVars
      PROVE  IInv' /\ file' = file
  <2>1. /\ MailOK(inbox', file)
        /\ sockets' \in SUBSET Endpoints
        /\ sState' = [sState EXCEPT ![c] = "killed"]
    BY <1>2, ChildMovesOK DEF ChildKilled, IInv, UdpInv
  <2>2. UdpInv' /\ FileIntegrity' /\ file' = file
    BY <1>2, <2>1 DEF ChildKilled, PollReturns, IInv, UdpInv, FileIntegrity, FaultCounts
  <2>3. sState'[c] = "killed"
    BY <2>1 DEF IInv, ServerInv
  <2>4. ChildInv(c)'
    BY <1>2, <2>3 DEF ChildKilled, IInv, ServerInv, ChildInv, ChildStates, Ended
  <2>5. /\ sState' = [sState EXCEPT ![c] = sState'[c]]
        /\ expected' = [expected EXCEPT ![c] = expected'[c]]
        /\ highest' = [highest EXCEPT ![c] = highest'[c]]
        /\ sring' = [sring EXCEPT ![c] = sring'[c]]
        /\ sCounter' = [sCounter EXCEPT ![c] = sCounter'[c]]
        /\ file' \in [Positions -> Int]
    BY <1>2, <2>1, <2>3 DEF ChildKilled, IInv, ServerInv
  <2>6. ServerInv'
    BY <2>2, <2>4, <2>5, OneChildSteps DEF IInv
  <2>7. RcopyInv'
    BY <1>2, <2>2, RcopyInvStays DEF IInv
  <2>8. QED
    BY <2>2, <2>6, <2>7 DEF IInv
<1>3. QED
  BY <1>1, <1>2 DEF Kill

(* A step that changes only the network keeps the invariants if it keeps    *)
(* the mail in order.                                                       *)
LEMMA QuietStepOK ==
  ASSUME IInv, UNCHANGED <<rcopyVars, serverVars>>,
         MailOK(inbox', file), sockets' \in SUBSET Endpoints,
         faults' \in FaultCounts,
         due' \in SUBSET Endpoints
  PROVE  IInv'
<1>1. file' = file
  BY DEF serverVars
<1>2. RcopyInv'
  BY <1>1, RcopyInvStays DEF IInv
<1>3. ServerInv' /\ FileIntegrity'
  BY DEF serverVars, IInv, ServerInv, ChildInv, FileIntegrity
<1>4. QED
  BY <1>1, <1>2, <1>3 DEF IInv, UdpInv

(* Loss, corruption, duplication and reordering keep the invariants.        *)
LEMMA NetworkOK ==
  ASSUME IInv, Network
  PROVE  IInv' /\ file' = file
<1>1. PICK p \in Endpoints : NetworkFault(p) /\ UNCHANGED <<rcopyVars, serverVars>>
  BY DEF Network
<1>2. MailOK(inbox', file)
  BY <1>1, NetworkKeepsMail DEF IInv, UdpInv
<1>3. /\ sockets' = sockets
      /\ due' = due
      /\ faults' \in FaultCounts
  <2>1. faults \in FaultCounts
    BY DEF IInv, UdpInv
  <2>2. CASE Lose(p)
    BY <2>1, <2>2 DEF Lose, FaultCounts
  <2>3. CASE Corrupt(p)
    BY <2>1, <2>3 DEF Corrupt, FaultCounts
  <2>4. CASE Duplicate(p)
    BY <2>1, <2>4 DEF Duplicate, FaultCounts
  <2>5. CASE Reorder(p)
    BY <2>1, <2>5 DEF Reorder, FaultCounts
  <2>6. QED
    BY <1>1, <2>2, <2>3, <2>4, <2>5 DEF NetworkFault
<1>4. QED
  BY <1>1, <1>2, <1>3, QuietStepOK DEF IInv, UdpInv, serverVars

(* The invariants hold initially.                                           *)
LEMMA InitOK == Init => IInv
<1> SUFFICES ASSUME Init PROVE IInv
  OBVIOUS
<1>1. MailOK(inbox, file)
  BY EmptySeq DEF Init, UdpInit, MailOK
<1>2. UdpInv
  BY <1>1, EndpointsFacts DEF Init, UdpInit, UdpInv, FaultCounts
<1>3. \A f : Landed(f, 0)
  BY ParamsAssumption DEF Landed
<1>4. RcopyInv
  BY <1>3, ParamsAssumption, EndpointsFacts
     DEF Init, RcopyInit, RcopyInv, RcopyStates, EofMeansWritten, EofSent,
         STAY_IN_DATA_STATE, MOVE_TO_DONE_STATE
<1>5. ServerInv
  BY <1>3, ParamsAssumption
     DEF Init, ServerInit, ServerInv, ChildInv, ChildStates, OLD, HOLE
<1>6. FileIntegrity
  BY DEF Init, ServerInit, FileIntegrity, InPlace
<1>7. QED
  BY <1>2, <1>4, <1>5, <1>6 DEF IInv

(* IInv is inductive, and no step takes a block out of the output file.     *)
LEMMA StepOK ==
  ASSUME IInv, [Next]_vars
  PROVE  IInv' /\ \A k \in Blocks : Filled(file, k) => Filled(file', k)
<1>1. CASE ClientStep
  BY <1>1, RcopyStep
     DEF ClientStep, serverVars, IInv, ServerInv, ChildInv, FileIntegrity
<1>2. CASE MainStep
  <2>1. UdpInv' /\ ServerInv' /\ FileIntegrity' /\ file' = file
    BY <1>2, MainStepOK DEF IInv
  <2>2. RcopyInv'
    BY <1>2, <2>1, RcopyInvStays DEF MainStep, IInv
  <2>3. QED
    BY <2>1, <2>2 DEF IInv
<1>3. ASSUME NEW c \in Children, ChildStep(c)
      PROVE  IInv' /\ \A k \in Blocks : Filled(file, k) => Filled(file', k)
  <2>1. /\ UdpInv' /\ ServerInv' /\ FileIntegrity'
        /\ \A k \in Blocks : Filled(file, k) => Filled(file', k)
    BY <1>3, ChildStepOK DEF ChildStep, IInv
  <2>2. RcopyInv'
    BY <1>3, <2>1, RcopyInvStays DEF ChildStep, IInv
  <2>3. QED
    BY <2>1, <2>2 DEF IInv
<1>4. CASE Kill
  BY <1>4, KillOK
<1>5. CASE Network
  BY <1>5, NetworkOK
<1>6. CASE Tick
  BY <1>6, QuietStepOK DEF Tick, IInv, UdpInv, serverVars
<1>7. CASE Idle \/ UNCHANGED vars
  <2>1. UNCHANGED <<udpVars, rcopyVars, serverVars>>
    BY <1>7 DEF Idle, vars
  <2>2. QED
    BY <2>1, QuietStepOK DEF udpVars, serverVars, IInv, UdpInv
<1>8. QED
  BY <1>1, <1>2, <1>3, <1>4, <1>5, <1>6, <1>7 DEF Next

(* IInv, the invariant that all the other results rest on, holds in every   *)
(* state of every behaviour.                                                *)
THEOREM Invariance == Spec => []IInv
<1>1. IInv /\ [Next]_vars => IInv'
  BY StepOK
<1>2. QED
  BY InitOK, <1>1, PTL DEF Spec

(* The inductive invariant contains the types of all variables.             *)
LEMMA TypeOKFollows == IInv => TypeOK
<1> SUFFICES ASSUME IInv PROVE TypeOK
  OBVIOUS
<1>1. inbox \in [Endpoints -> Seq(Datagram(Endpoints))]
  <2>1. \A p \in Endpoints : MayReceive(p, file) \subseteq Datagram(Endpoints)
    BY DEF MayReceive, FromChildren, ToServer, FromRcopy
  <2>2. \A p \in Endpoints : inbox[p] \in Seq(Datagram(Endpoints))
    BY <2>1, SeqMonotonic DEF IInv, UdpInv, MailOK
  <2>3. QED
    BY <2>2 DEF IInv, UdpInv, MailOK
<1>2. UdpTypeOK
  BY <1>1 DEF IInv, UdpInv, UdpTypeOK
<1>3. RcopyTypeOK
  <2>1. RcopySlot \subseteq [valid : BOOLEAN, sequenceNumber : Int, pdu : Datagram(Endpoints)]
    BY DEF RcopySlot, FromRcopy
  <2>2. QED
    BY <2>1 DEF IInv, RcopyInv, RcopyTypeOK
<1>4. ServerTypeOK
  <2>1. ChildSlot \subseteq [valid : BOOLEAN, sequenceNumber : Int, pdu : Datagram(Endpoints)]
    BY DEF ChildSlot, FromRcopy
  <2>2. \A c \in Children :
          /\ sState[c] \in ChildStates
          /\ expected[c] \in 0 .. (NumBlocks + 1)
          /\ highest[c] \in -1 .. NumBlocks
          /\ sCounter[c] \in 0 .. MaxTries
          /\ sState[c] \notin {"unused", "forked"} \cup Ended =>
               sring[c] \in [0 .. (ServerWindow - 1) ->
                               [valid : BOOLEAN, sequenceNumber : Int,
                                pdu : Datagram(Endpoints)]]
    BY <2>1 DEF IInv, ServerInv, ChildInv
  <2>3. QED
    BY <2>2 DEF IInv, ServerInv, ServerTypeOK
<1>5. QED
  BY <1>2, <1>3, <1>4 DEF TypeOK

(* Every variable keeps its type, whatever the network does: no counter     *)
(* leaves its bounds, no sequence number goes past that of EOF.             *)
THEOREM TypeCorrect == Spec => []TypeOK
BY Invariance, TypeOKFollows, PTL

(* No interleaving, loss, duplication or reordering puts a block in the     *)
(* wrong place of the output file.                                          *)
THEOREM FileIntegrityHolds == Spec => []FileIntegrity
<1>1. IInv => FileIntegrity
  BY DEF IInv
<1>2. QED
  BY Invariance, <1>1, PTL

(* Everything rcopy was told is received has been written before.           *)
THEOREM AckedIsWrittenHolds == Spec => []AckedIsWritten
<1>1. IInv => AckedIsWritten
  <2> SUFFICES ASSUME IInv PROVE AckedIsWritten
    OBVIOUS
  <2>1. inbox[Client] \in Seq(FromChildren(file))
    BY EndpointsFacts DEF IInv, UdpInv, MailOK, MayReceive
  <2>2. \A m \in Mail(Client) : m \in FromChildren(file)
    BY <2>1, ElementOfSeq DEF Mail
  <2>3. QED
    BY <2>2 DEF IInv, RcopyInv, AckedIsWritten, FromChildren,
                RR_FLAG, SREJ_FLAG, FILENAME_RESPONSE_FLAG
<1>2. QED
  BY Invariance, <1>1, PTL

(* When rcopy sends EOF the output file is complete.                        *)
THEOREM EofMeansWrittenHolds == Spec => []EofMeansWritten
<1>1. IInv => EofMeansWritten
  BY DEF IInv, RcopyInv
<1>2. QED
  BY Invariance, <1>1, PTL

(* EOF reaches a child only after the rest of the file, so that it may end  *)
(* on any PDU without payload, whatever the number it carries.              *)
THEOREM EofArrivesLastHolds == Spec => []EofArrivesLast
<1>1. IInv => EofArrivesLast
  <2> SUFFICES ASSUME IInv, NEW c \in Children, NEW m \in Mail(c),
                      m.ok, m.body = NO_PAYLOAD
               PROVE  Landed(file, NumBlocks)
    BY DEF EofArrivesLast
  <2>1. inbox[c] \in Seq(ToServer(file))
    BY EndpointsFacts DEF IInv, UdpInv, MailOK, MayReceive
  <2>2. m \in ToServer(file)
    BY <2>1, ElementOfSeq DEF Mail
  <2>3. QED
    BY <2>2 DEF ToServer
<1>2. QED
  BY Invariance, <1>1, PTL

-----------------------------------------------------------------------------
(***************************************************************************)
(* The circular buffer of a child holds packets still to come.             *)
(***************************************************************************)
(* A step of child d leaves the part of the others alone. *)
LEMMA OthersUntouched ==
  ASSUME ServerInv, NEW d \in Children, ChildNext(d), NEW c \in Children \ {d}
  PROVE  /\ sState'[c] = sState[c] /\ expected'[c] = expected[c]
         /\ highest'[c] = highest[c] /\ sring'[c] = sring[c]
<1>0. /\ sState = [x \in Children |-> sState[x]]
      /\ expected = [x \in Children |-> expected[x]]
      /\ highest = [x \in Children |-> highest[x]]
      /\ sring = [x \in Children |-> sring[x]]
  BY DEF ServerInv
<1>1. CASE ChildStart(d)
  BY <1>0, <1>1 DEF ChildStart
<1>2. CASE ChildTimeout(d)
  BY <1>0, <1>2 DEF ChildTimeout, ChildMoves, GivesUp, Counted
<1>3. CASE ChildEmptyDatagram(d) \/ ChildCorrupt(d) \/ ChildOldPacket(d)
  BY <1>0, <1>3 DEF ChildEmptyDatagram, ChildCorrupt, ChildOldPacket, ChildMoves, OldPacketReply
<1>4. CASE InOrderEof(d) \/ InOrderExpected(d)
  BY <1>0, <1>4 DEF InOrderEof, InOrderExpected, ChildMoves, IsExpected
<1>5. CASE InOrderAhead(d) \/ InOrderAheadNoRing(d)
  BY <1>0, <1>5 DEF InOrderAhead, InOrderAheadNoRing, Buffered, ChildMoves
<1>6. CASE BufferExpected(d) \/ BufferAhead(d)
  BY <1>0, <1>6 DEF BufferExpected, BufferAhead, Buffered, ChildMoves, IsExpected
<1>7. CASE ChildFlush(d)
  BY <1>0, <1>7 DEF ChildFlush, ChildMoves, Released
<1>8. CASE ChildCutShort(d)
  BY <1>0, <1>8 DEF ChildCutShort, ChildMoves, IsExpected
<1>9. QED
  BY <1>1, <1>2, <1>3, <1>4, <1>5, <1>6, <1>7, <1>8 DEF ChildNext

(* Child c puts packet m, which came too early, into its ring. *)
LEMMA BufferedRing ==
  ASSUME ServerInv, NEW c \in Children, ServerWindow # 0,
         sring[c] \in [0 .. (ServerWindow - 1) -> ChildSlot],
         NEW m \in FromRcopy, m.ok, m.seq > expected[c], Buffered(c, m),
         HoldsFrom(c, expected[c] + 1),
         sState' = [sState EXCEPT ![c] = "buffer"], expected' = expected
  PROVE  RingInv(c)'
<1> DEFINE i == m.seq % ServerWindow
<1>1. /\ m.seq \in 0 .. NumBlocks
      /\ expected[c] \in Nat
      /\ highest[c] \in Int
  BY SeqBounded, ParamsAssumption DEF ServerInv, ChildInv
<1>2. /\ sState'[c] = "buffer"
      /\ expected'[c] = expected[c]
      /\ highest'[c] = IF m.seq > highest[c] THEN m.seq ELSE highest[c]
  BY DEF ServerInv, Buffered
<1>3. /\ expected'[c] < highest'[c]
      /\ m.seq \in (expected'[c] + 1) .. highest'[c]
      /\ \A n \in (expected[c] + 1) .. highest[c] : n \in (expected'[c] + 1) .. highest'[c]
  BY <1>1, <1>2, ParamsAssumption
<1>4. /\ sring'[c][i] = [valid |-> TRUE, sequenceNumber |-> m.seq, pdu |-> m]
      /\ \A j \in 0 .. (ServerWindow - 1) : j # i => sring'[c][j] = sring[c][j]
  <2> DEFINE b == setValid(addToCircularBuffer(sring[c], ServerWindow, m.seq, m),
                           ServerWindow, m.seq, TRUE)
  <2>1. sring'[c] = b
    BY DEF ServerInv, Buffered
  <2>2. /\ b[i] = [valid |-> TRUE, sequenceNumber |-> m.seq, pdu |-> m]
        /\ \A j \in 0 .. (ServerWindow - 1) : j # i => b[j] = sring[c][j]
    BY BufferedOK
  <2>3. QED
    BY <2>1, <2>2
<1>5. HoldsFrom(c, expected[c] + 1)'
  <2> SUFFICES ASSUME NEW j \in 0 .. (ServerWindow - 1), sring'[c][j].valid
               PROVE  /\ sring'[c][j].sequenceNumber \in (expected'[c] + 1) .. highest'[c]
                      /\ j = getIndex(ServerWindow, sring'[c][j].sequenceNumber)
    BY DEF HoldsFrom
  <2>1. CASE j = i
    BY <1>3, <1>4, <2>1 DEF getIndex
  <2>2. CASE j # i
    BY <1>3, <1>4, <2>2 DEF HoldsFrom
  <2>3. QED
    BY <2>1, <2>2
<1>6. QED
  BY <1>2, <1>3, <1>5 DEF RingInv

(* A step of a child keeps what holds of its own ring.                      *)
LEMMA OwnRing ==
  ASSUME UdpInv, ServerInv, NEW c \in Children, RingInv(c), ChildNext(c)
  PROVE  RingInv(c)'
<1> DEFINE m == Head(inbox[c])
           e == expected[c]
<1>0. /\ sState = [x \in Children |-> sState[x]]
      /\ expected = [x \in Children |-> expected[x]]
      /\ highest = [x \in Children |-> highest[x]]
      /\ sring = [x \in Children |-> sring[x]]
      /\ ChildInv(c)
  BY DEF ServerInv
<1> USE DEF Ended, Receiving
<1>1. CASE ChildStart(c)
  <2>1. \A i \in 0 .. (ServerWindow - 1) : ~sring'[c][i].valid
    BY <1>0, <1>1 DEF ChildStart, setupCircularBuffer, EmptySlot
  <2>2. sState'[c] \in {"inOrder", "done"}
    BY <1>0, <1>1 DEF ChildStart
  <2>3. QED
    BY <2>1, <2>2 DEF RingInv
<1>2. ASSUME sState'[c] \in {sState[c]} \cup Ended,
             UNCHANGED <<expected, highest, sring>>
      PROVE  RingInv(c)'
  BY <1>2 DEF RingInv, HoldsFrom
<1>3. CASE ChildTimeout(c)
  BY <1>0, <1>2, <1>3 DEF ChildTimeout, ChildMoves, GivesUp, Counted
<1>4. CASE ChildEmptyDatagram(c) \/ ChildCorrupt(c) \/ ChildOldPacket(c)
  BY <1>0, <1>2, <1>4 DEF ChildEmptyDatagram, ChildCorrupt, ChildOldPacket, ChildMoves, OldPacketReply
<1>5. CASE InOrderEof(c) \/ InOrderAheadNoRing(c)
  BY <1>0, <1>2, <1>5 DEF InOrderEof, InOrderAheadNoRing, ChildMoves
<1>6. CASE InOrderExpected(c)
  <2>1. /\ sState[c] = "inOrder" /\ sState'[c] = "inOrder"
        /\ sring'[c] = sring[c]
    BY <1>0, <1>6 DEF InOrderExpected, ChildReceives, ChildMoves, IsExpected
  <2>2. QED
    BY <2>1 DEF RingInv
<1>7. CASE InOrderAhead(c) \/ BufferAhead(c)
  <2>1. /\ m \in FromRcopy /\ m.ok /\ m.seq > e
        /\ sState[c] \in {"inOrder", "buffer"}
        /\ Buffered(c, m)
        /\ sState' = [sState EXCEPT ![c] = "buffer"] /\ expected' = expected
    BY <1>7, ChildReceivesOK
       DEF InOrderAhead, BufferAhead, ChildReceives, TakenAsData, ChildMoves
  <2>2. /\ ServerWindow # 0
        /\ sring[c] \in [0 .. (ServerWindow - 1) -> ChildSlot]
    BY <1>0, <1>7, <2>1 DEF InOrderAhead, BufferAhead, ChildReceives, ChildInv
  <2>3. HoldsFrom(c, e + 1)
    BY <2>1 DEF RingInv, HoldsFrom
  <2>4. QED
    BY <2>1, <2>2, <2>3, BufferedRing
<1>8. CASE BufferExpected(c)
  <2>1. /\ sState[c] = "buffer" /\ sState'[c] = "flush"
        /\ sring'[c] = sring[c] /\ highest'[c] = highest[c]
        /\ expected'[c] = e + 1
    BY <1>0, <1>8 DEF BufferExpected, ChildReceives, ChildMoves, IsExpected
  <2>2. e \in Nat
    BY <1>0, ParamsAssumption DEF ChildInv
  <2>3. HoldsFrom(c, e + 1)
    BY <2>1 DEF RingInv
  <2>4. HoldsFrom(c, expected[c])'
    BY <2>1, <2>3 DEF HoldsFrom
  <2>5. e + 1 <= highest[c]
    <3>1. e < highest[c] /\ highest[c] \in Int
      BY <1>0, <2>1, ParamsAssumption DEF RingInv, ChildInv
    <3>2. QED
      BY <2>2, <3>1
  <2>6. QED
    BY <2>1, <2>2, <2>4, <2>5 DEF RingInv, HoldsFrom
<1>9. CASE ChildFlush(c)
  <2>1. PICK x \in e .. (highest[c] + 1) :
          /\ ~Held(c, x)
          /\ sring' = [sring EXCEPT ![c] = [i \in DOMAIN sring[c] |->
               IF \E k \in e .. (x - 1) : getIndex(ServerWindow, k) = i
               THEN [sring[c][i] EXCEPT !.valid = FALSE] ELSE sring[c][i]]]
          /\ expected' = [expected EXCEPT ![c] = x]
          /\ IF x < highest[c]
             THEN ChildMoves(c, "buffer", Delivered(inbox, Client, <<Rr(c, x), Srej(c, x)>>))
             ELSE ChildMoves(c, "inOrder", Delivered(inbox, Client, <<Rr(c, x)>>))
    BY <1>9 DEF ChildFlush, Released
  <2>2. /\ HoldsFrom(c, e)
        /\ sring[c] \in [0 .. (ServerWindow - 1) -> ChildSlot]
        /\ highest'[c] = highest[c]
        /\ e \in Nat /\ highest[c] \in Int
        /\ x \in Nat
    <3>1. /\ HoldsFrom(c, e)
          /\ sring[c] \in [0 .. (ServerWindow - 1) -> ChildSlot]
          /\ highest'[c] = highest[c]
      BY <1>0, <1>9 DEF ChildFlush, RingInv, ChildInv, Released
    <3>2. e \in Nat /\ highest[c] \in Int
      BY <1>0, ParamsAssumption DEF ChildInv
    <3>3. QED
      BY <3>1, <3>2
  <2>3. /\ expected'[c] = x
        /\ sState'[c] = IF x < highest[c] THEN "buffer" ELSE "inOrder"
    BY <1>0, <2>1 DEF ChildMoves
  <2>4. \A i \in 0 .. (ServerWindow - 1) : sring'[c][i].valid =>
          /\ sring'[c][i] = sring[c][i]
          /\ sring[c][i].valid
          /\ ~ \E k \in e .. (x - 1) : getIndex(ServerWindow, k) = i
    BY <1>0, <2>1, <2>2 DEF ChildSlot
  <2>5. ASSUME NEW i \in 0 .. (ServerWindow - 1), sring'[c][i].valid
        PROVE  /\ sring'[c][i].sequenceNumber \in (x + 1) .. highest[c]
               /\ i = getIndex(ServerWindow, sring'[c][i].sequenceNumber)
    <3> DEFINE n == sring[c][i].sequenceNumber
    <3>1. /\ sring'[c][i] = sring[c][i]
          /\ n \in e .. highest[c]
          /\ i = getIndex(ServerWindow, n)
          /\ sring[c][i].valid
      BY <2>2, <2>4, <2>5 DEF HoldsFrom
    <3>2. n \notin e .. (x - 1)
      BY <2>4, <2>5, <3>1
    <3>3. n # x
      BY <2>1, <3>1 DEF Held, getValid, getSequenceNumber
    <3>4. QED
      BY <2>2, <3>1, <3>2, <3>3
  <2>6. CASE x < highest[c]
    BY <2>2, <2>3, <2>5, <2>6 DEF RingInv, HoldsFrom
  <2>7. CASE ~(x < highest[c])
    BY <2>2, <2>3, <2>5, <2>7 DEF RingInv
  <2>8. QED
    BY <2>6, <2>7
<1>10. CASE ChildCutShort(c)
  <2>1. sState'[c] = "killed"
    BY <1>0, <1>10 DEF ChildCutShort, ChildMoves
  <2>2. QED
    BY <2>1 DEF RingInv
<1>11. QED
  BY <1>1, <1>3, <1>4, <1>5, <1>6, <1>7, <1>8, <1>9, <1>10 DEF ChildNext

(* Every step keeps what holds of all rings.                                *)
LEMMA RingStep ==
  ASSUME IInv, RInv, [Next]_vars
  PROVE  RInv'
<1>1. ASSUME NEW c \in Children,
             sState'[c] \in {sState[c], "forked", "killed"},
             expected'[c] = expected[c], highest'[c] = highest[c], sring'[c] = sring[c]
      PROVE  RingInv(c)'
  BY <1>1 DEF RInv, RingInv, HoldsFrom
<1>2. ASSUME NEW d \in Children, ChildStep(d), NEW c \in Children
      PROVE  RingInv(c)'
  <2>1. CASE c = d
    BY <1>2, <2>1, OwnRing DEF ChildStep, IInv, RInv
  <2>2. CASE c # d
    BY <1>1, <1>2, <2>2, OthersUntouched DEF ChildStep, IInv
  <2>3. QED
    BY <2>1, <2>2
<1>3. CASE ClientStep \/ Network \/ Tick \/ Idle \/ UNCHANGED vars
  BY <1>1, <1>3 DEF ClientStep, Network, Tick, Idle, vars, serverVars, RInv
<1>4. CASE MainStep
  BY <1>1, <1>4 DEF MainStep, ServerFork, ServerIgnore, serverVars, RInv, IInv, ServerInv
<1>5. CASE Kill
  BY <1>1, <1>5
     DEF Kill, ChildKilled, ChildMoves, serverVars, RInv, IInv, ServerInv
<1>6. QED
  BY <1>2, <1>3, <1>4, <1>5 DEF Next, RInv

(* A valid slot of a child's ring is at the index of its number, and that   *)
(* number is still to be written and was really received.                   *)
THEOREM RInvHolds == Spec => []RInv
<1>1. Init => RInv
  BY DEF Init, ServerInit, RInv, RingInv
<1>2. IInv /\ RInv /\ [Next]_vars => RInv'
  BY RingStep
<1>3. QED
  BY Invariance, <1>1, <1>2, PTL DEF Spec

(* A child's circular buffer holds packets still to come and nothing else:  *)
(* it is empty while packets come in order, and while the child buffers,    *)
(* the packet it waits for is not the last it knows of.                     *)
THEOREM RingHoldsTheFutureHolds == Spec => []RingHoldsTheFuture
<1>1. IInv /\ RInv => RingHoldsTheFuture
  <2> SUFFICES ASSUME IInv, RInv, NEW c \in Children
               PROVE  /\ sState[c] = "inOrder" =>
                           \A i \in DOMAIN sring[c] : ~sring[c][i].valid
                      /\ sState[c] = "buffer" =>
                           /\ expected[c] < highest[c]
                           /\ \A i \in DOMAIN sring[c] : sring[c][i].valid =>
                                sring[c][i].sequenceNumber
                                  \in (expected[c] + 1) .. highest[c]
    BY DEF RingHoldsTheFuture
  <2>1. sState[c] \in {"inOrder", "buffer"} => DOMAIN sring[c] = 0 .. (ServerWindow - 1)
    BY DEF IInv, ServerInv, ChildInv, Ended
  <2>2. QED
    BY <2>1 DEF RInv, RingInv, HoldsFrom
<1>2. QED
  BY Invariance, RInvHolds, <1>1, PTL

-----------------------------------------------------------------------------
(***************************************************************************)
(* The loop of onDataFlush.                                                *)
(***************************************************************************)
(* Induction for a set of numbers: a set with 0 and with the successor of   *)
(* each of its members up to n holds all of 0 .. n, since adding 1 would    *)
(* else map the part of it below the first gap into itself, without 0.      *)
LEMMA SetInduction ==
  ASSUME NEW n \in Nat, NEW S, 0 \in S, \A i \in 0 .. (n - 1) : i \in S => i + 1 \in S
  PROVE  \A i \in 0 .. n : i \in S
<1> SUFFICES ASSUME NEW m \in 0 .. n, m \notin S
             PROVE  FALSE
  OBVIOUS
<1> DEFINE T == S \cap (0 .. m)
           f == [i \in T |-> i + 1]
<1>1. IsFiniteSet(T)
  <2>1. IsFiniteSet(0 .. m)
    BY FS_Interval
  <2>2. QED
    BY <2>1, FS_Subset
<1>2. \A i \in T : i + 1 \in T
  OBVIOUS
<1>3. f \in Injection(T, T)
  <2>1. f \in [T -> T]
    BY <1>2
  <2>2. \A a, b \in T : f[a] = f[b] => a = b
    OBVIOUS
  <2>3. QED
    BY <2>1, <2>2 DEF Injection, IsInjective
<1>4. f \in Surjection(T, T)
  BY <1>1, <1>3, FS_Injection
<1>5. PICK i \in T : f[i] = 0
  <2>1. 0 \in T
    OBVIOUS
  <2>2. \A t \in T : \E i \in T : f[i] = t
    BY <1>4 DEF Surjection
  <2> HIDE DEF T, f
  <2>3. QED
    BY <2>1, <2>2
<1>6. QED
  BY <1>5

(* Behind the highest packet received there is none in the ring: at the     *)
(* latest there the loop of onDataFlush ends, and the first packet missing  *)
(* from expected on is where it does.                                       *)
THEOREM FlushEndsHolds == Spec => []FlushEnds
<1>1. IInv /\ RInv => FlushEnds
  <2> SUFFICES ASSUME IInv, RInv, NEW c \in Children, sState[c] = "flush",
                      \A x \in expected[c] .. (highest[c] + 1) :
                        (\A k \in expected[c] .. (x - 1) : Held(c, k)) => Held(c, x)
               PROVE  FALSE
    BY DEF FlushEnds
  <2> DEFINE e == expected[c]
             n == highest[c] + 1 - e
             S == {i \in 0 .. n : \A j \in 0 .. i : Held(c, e + j)}
  <2>1. /\ e \in Nat /\ highest[c] \in Int /\ n \in Nat
        /\ HoldsFrom(c, e)
        /\ ServerWindow \in Nat \ {0}
    <3>1. /\ e \in Nat /\ highest[c] \in Int
          /\ e <= highest[c] /\ HoldsFrom(c, e)
          /\ ServerWindow # 0
      BY ParamsAssumption DEF IInv, ServerInv, ChildInv, RInv, RingInv
    <3>2. n \in Nat
      BY <3>1
    <3>3. QED
      BY <3>1, <3>2, ServerWindowOK
  <2>2. ASSUME NEW x \in 0 .. n, \A j \in 0 .. (x - 1) : Held(c, e + j)
        PROVE  x \in S
    <3> DEFINE y == e + x
    <3>1. /\ y \in e .. (highest[c] + 1)
          /\ \A k \in e .. (y - 1) : k - e \in 0 .. (x - 1) /\ e + (k - e) = k
      BY <2>1
    <3>2. \A k \in e .. (y - 1) : Held(c, k)
      BY <2>2, <3>1
    <3>3. Held(c, y)
      <4> HIDE DEF y
      <4>1. QED
        BY <3>1, <3>2
    <3>4. \A j \in 0 .. x : j \in 0 .. (x - 1) \/ j = x
      BY <2>1
    <3>5. QED
      BY <2>2, <3>3, <3>4
  <2>3. 0 \in S
    BY <2>1, <2>2
  <2>4. \A i \in 0 .. (n - 1) : i \in S => i + 1 \in S
    <3>1. ASSUME NEW i \in 0 .. (n - 1), i \in S
          PROVE  i + 1 \in 0 .. n /\ \A j \in 0 .. (i + 1 - 1) : Held(c, e + j)
      BY <2>1, <3>1
    <3>2. QED
      BY <2>2, <3>1
  <2>5. n \in S
    <3> HIDE DEF S
    <3>1. \A i \in 0 .. n : i \in S
      BY <2>1, <2>3, <2>4, SetInduction
    <3>2. QED
      BY <2>1, <3>1
  <2>6. Held(c, highest[c] + 1)
    BY <2>1, <2>5
  <2>7. (highest[c] + 1) % ServerWindow \in 0 .. (ServerWindow - 1)
    BY <2>1
  <2>8. highest[c] + 1 \in e .. highest[c]
    BY <2>1, <2>6, <2>7 DEF Held, HoldsFrom, getValid, getSequenceNumber, getIndex
  <2>9. QED
    BY <2>1, <2>8
<1>2. QED
  BY Invariance, RInvHolds, <1>1, PTL
=============================================================================
