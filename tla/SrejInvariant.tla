--------------------------- MODULE SrejInvariant ---------------------------
(***************************************************************************)
(* The inductive invariant behind the safety properties of Srej: what can  *)
(* be in the network, in the two circular buffers, and how the counters of *)
(* the two sides relate to the output file.  SrejProofs proves it; the     *)
(* runs check it on small instances.                                       *)
(***************************************************************************)
EXTENDS Srej

Blocks == 0 .. (NumBlocks - 1)

(* An intact PDU of rcopy: a packet always carries the block of its own     *)
(* number, and only number NumBlocks marks EOF.                             *)
DataPacket(m) == m.flag = DATA_FLAG /\ m.seq \in Blocks /\ m.body = m.seq
EofPacket(m) == m.flag = DATA_FLAG /\ m.seq = NumBlocks /\ m.body = NO_PAYLOAD
FilenamePacket(m) ==
  m.flag = FILENAME_FLAG /\ m.seq = 0 /\ m.body = FILENAME_PAYLOAD
RcopyPdu(m) == m.ok /\ (DataPacket(m) \/ EofPacket(m) \/ FilenamePacket(m))

(* What rcopy may have sent; it may have been corrupted, or be empty. *)
FromRcopy ==
  {m \in Datagram(Endpoints) : m.from = Client /\ (m.ok => RcopyPdu(m))}

(* What children may have sent while the output file was f: an RR only for  *)
(* packets that were written.                                               *)
FromChildren(f) ==
  {m \in Datagram(Endpoints) :
     /\ m.from \in Children
     /\ m.ok => \/ m.flag = FILENAME_RESPONSE_FLAG
                \/ m.flag = SREJ_FLAG /\ m.body \in Nat
                \/ m.flag = RR_FLAG /\ m.body \in Nat /\ Landed(f, m.body)}

(* What may be on its way to the server while the output file is f: EOF     *)
(* only when no block is missing.                                           *)
ToServer(f) ==
  {m \in FromRcopy : m.ok /\ m.body = NO_PAYLOAD => Landed(f, NumBlocks)}

MayReceive(p, f) == IF p = Client THEN FromChildren(f) ELSE ToServer(f)

MailOK(box, f) ==
  /\ box = [p \in Endpoints |-> box[p]]
  /\ \A p \in Endpoints : box[p] \in Seq(MayReceive(p, f))

UdpInv ==
  /\ MailOK(inbox, file)
  /\ sockets \in SUBSET Endpoints
  /\ faults \in FaultCounts
  /\ due \in SUBSET Endpoints

(* A slot of rcopy's ring: untouched, or a data packet. *)
RcopySlot ==
  [valid : BOOLEAN, sequenceNumber : Int, pdu : {m \in FromRcopy : m.ok => DataPacket(m)}]

RcopyInv ==
  /\ rState \in RcopyStates
  /\ current \in -1 .. NumBlocks
  /\ upper \in Nat
  /\ rr \in Nat
  /\ rState \notin {"start", "killed"} => ring \in [0 .. (WindowSize - 1) -> RcopySlot]
  /\ offset \in 0 .. NumBlocks
  /\ server \in Endpoints \ {Client}
  /\ counter \in 0 .. MaxTries
  /\ openStatus \in {STAY_IN_DATA_STATE, MOVE_TO_DONE_STATE}
  /\ rState = "filename" => counter < MaxTries
  /\ rState \in {"start", "filename", "open", "drain", "openPoll"} =>
       openStatus = STAY_IN_DATA_STATE
  /\ openStatus = STAY_IN_DATA_STATE => offset = current + 1
  /\ openStatus = MOVE_TO_DONE_STATE => current = NumBlocks /\ offset = NumBlocks
  /\ Landed(file, rr)
  /\ EofMeansWritten

(* A slot of a child's ring: a valid one holds an intact packet under the   *)
(* sequence number the packet carries.                                      *)
ChildSlot ==
  {s \in [valid : BOOLEAN, sequenceNumber : Int, pdu : FromRcopy] :
     s.valid => s.pdu.ok /\ s.pdu.seq = s.sequenceNumber}

ChildInv(c) ==
  /\ sState[c] \in ChildStates
  /\ expected[c] \in 0 .. (NumBlocks + 1)
  /\ highest[c] \in -1 .. NumBlocks
  /\ sCounter[c] \in 0 .. MaxTries
  /\ sState[c] \notin {"unused", "forked"} \cup Ended =>
       sring[c] \in [0 .. (ServerWindow - 1) -> ChildSlot]
  /\ sState[c] \in {"buffer", "flush"} => ServerWindow # 0
  /\ Landed(file, expected[c])

ServerInv ==
  /\ sState = [c \in Children |-> sState[c]]
  /\ expected = [c \in Children |-> expected[c]]
  /\ highest = [c \in Children |-> highest[c]]
  /\ sring = [c \in Children |-> sring[c]]
  /\ sCounter = [c \in Children |-> sCounter[c]]
  /\ file \in [Positions -> Int]
  /\ \A c \in Children : ChildInv(c)

IInv ==
  /\ UdpInv
  /\ RcopyInv
  /\ ServerInv
  /\ FileIntegrity
-----------------------------------------------------------------------------
(* A valid slot of child c holds a packet at the index of its number, and   *)
(* that number is still to come (from `first' on) and was really received.  *)
HoldsFrom(c, first) ==
  \A i \in 0 .. (ServerWindow - 1) : sring[c][i].valid =>
    /\ sring[c][i].sequenceNumber \in first .. highest[c]
    /\ i = getIndex(ServerWindow, sring[c][i].sequenceNumber)

RingInv(c) ==
  /\ sState[c] = "inOrder" =>
       \A i \in 0 .. (ServerWindow - 1) : ~sring[c][i].valid
  /\ sState[c] = "buffer" =>
       expected[c] < highest[c] /\ HoldsFrom(c, expected[c] + 1)
  /\ sState[c] = "flush" =>
       /\ 0 < expected[c]
       /\ expected[c] <= highest[c]
       /\ HoldsFrom(c, expected[c])

(* Inductive under IInv: what RingHoldsTheFuture needs.                     *)
RInv == \A c \in Children : RingInv(c)

(* Inductive under IInv: a position of the output file was filled by a      *)
(* child that is past it.  Since ChildInv has everything before a child     *)
(* filled, the file has no gaps, which is what it takes to implement        *)
(* FileCopy.                                                                *)
NoGaps ==
  \A k \in Blocks : Filled(file, k) => \E c \in Children : k < expected[c]
=============================================================================
