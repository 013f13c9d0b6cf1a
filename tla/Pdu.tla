-------------------------------- MODULE Pdu --------------------------------
(***************************************************************************)
(* The datagrams that rcopy and the server exchange (pduLib.c, flags.c).   *)
(* A PDU is a record: who sent it, whether its checksum still verifies,    *)
(* its flag, the sequence number of its header, and its payload reduced to *)
(* one integer, the only thing a property can tell apart:                  *)
(*   - a DATA payload is the index of the block of the input file it       *)
(*     carries, or NO_PAYLOAD for the seven-byte PDU that marks EOF;       *)
(*   - an RR or SREJ payload is the number it acknowledges or requests;    *)
(*   - a filename payload is FILENAME_PAYLOAD, a filename response carries *)
(*     FILENAME_OK_FLAG or FILENAME_BAD_FLAG.                              *)
(***************************************************************************)
EXTENDS Integers

SETUP_FLAG == 1
DATA_FLAG == 3
RR_FLAG == 5
SREJ_FLAG == 6
FILENAME_FLAG == 7
FILENAME_RESPONSE_FLAG == 8
FILENAME_OK_FLAG == 33
FILENAME_BAD_FLAG == 34

NO_PAYLOAD == -1         \* the PDU is its seven-byte header
FILENAME_PAYLOAD == -2   \* window size, buffer size and output file name
NOTHING == -3            \* a datagram of zero bytes, it has no header either

(* createPDU: header, payload, and a checksum that verifies. *)
createPDU(from, seq, flag, payload) ==
  [from |-> from, ok |-> TRUE, flag |-> flag, seq |-> seq, body |-> payload]

(* What is left of a PDU when sendtoErr flips bits of it: the checksum no   *)
(* longer verifies and no handler looks further.                            *)
Corrupted(pdu) ==
  [from |-> pdu.from, ok |-> FALSE, flag |-> 0, seq |-> 0, body |-> NO_PAYLOAD]

(* A datagram of length zero, which is what sending an empty slot produces. *)
EmptyDatagram(from) ==
  [from |-> from, ok |-> FALSE, flag |-> 0, seq |-> 0, body |-> NOTHING]

(* Everything a datagram can be. *)
Datagram(endpoints) ==
  [from : endpoints, ok : BOOLEAN, flag : Nat, seq : Nat, body : Int]
=============================================================================
