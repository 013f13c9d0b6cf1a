--------------------------- MODULE CircularBuffer ---------------------------
(***************************************************************************)
(* circularBuffer.c: a ring of windowSize slots, used by rcopy for the     *)
(* packets it may have to send again and by a child server for the packets *)
(* that came too early.  A slot is [valid, sequenceNumber, pdu]; its size  *)
(* is that of the datagram it holds, zero as long as none was stored.      *)
(* Nothing here checks that the slot of a sequence number really holds     *)
(* that sequence number: the callers do, or do not.                        *)
(***************************************************************************)
EXTENDS Integers, Pdu

EmptySlot(owner) ==
  [valid |-> FALSE, sequenceNumber |-> -1, pdu |-> EmptyDatagram(owner)]

setupCircularBuffer(windowSize, owner) ==
  [i \in 0 .. (windowSize - 1) |-> EmptySlot(owner)]

getIndex(windowSize, seq) == seq % windowSize

(* Mutant: the slot keeps the number of the packet it held before. *)
addToCircularBufferOldNumber(ring, windowSize, seq, pdu) ==
  [ring EXCEPT ![getIndex(windowSize, seq)] =
     [valid |-> @.valid, sequenceNumber |-> @.sequenceNumber, pdu |-> pdu]]

addToCircularBuffer(ring, windowSize, seq, pdu) ==
  [ring EXCEPT ![getIndex(windowSize, seq)] =
     [valid |-> @.valid, sequenceNumber |-> seq, pdu |-> pdu]]

getEntry(ring, windowSize, seq) == ring[getIndex(windowSize, seq)].pdu

getSequenceNumber(ring, windowSize, seq) ==
  ring[getIndex(windowSize, seq)].sequenceNumber

getValid(ring, windowSize, seq) == ring[getIndex(windowSize, seq)].valid

setValid(ring, windowSize, seq, value) ==
  [ring EXCEPT ![getIndex(windowSize, seq)] =
     [valid |-> value, sequenceNumber |-> @.sequenceNumber, pdu |-> @.pdu]]
=============================================================================
