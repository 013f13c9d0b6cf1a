----------------------------- MODULE SrejBytes -----------------------------
(***************************************************************************)
(* The output file in bytes.  Srej counts calls of write(): it puts the    *)
(* n-th packet a child writes at block position n.  The program has no     *)
(* positions, each child just calls write() on a descriptor of its own,    *)
(* which goes on where the last write ended, and does not look at the      *)
(* result.  This module adds the sizes of packets, the descriptors and the *)
(* bytes that reach the disk to the steps of Srej, to see when the two     *)
(* views agree, and what the program as a whole promises (FileCopy).       *)
(***************************************************************************)
EXTENDS SrejInvariant

CONSTANTS
  BufferSize,      \* the buffer-size argument, bytes per packet
  LastSize,        \* bytes in the last block of the input file
  FilenameBytes,   \* payload of the filename PDU: two sizes and the name
  Rooms            \* how far the output file may grow (disk, quota): one of
                   \* these, unless the older file is longer already

ASSUME BytesAssumption ==
  /\ BufferSize \in Nat \ {0}
  /\ LastSize \in 1 .. BufferSize
  /\ FilenameBytes \in Nat
  /\ Rooms \in SUBSET Nat

VARIABLES
  bytes,     \* bytes[p]: the number of the input byte at offset p of the output
  fdOffset,  \* fdOffset[c]: the file offset of the descriptor of child c
  room,      \* no write goes beyond this offset
  shifted    \* history: the children that wrote a filename PDU, and so what follows
             \* it at the wrong offsets

bytesVars == <<bytes, fdOffset, room, shifted>>

OutputBytes == 0 .. ((NumBlocks + OldBlocks) * BufferSize + FilenameBytes - 1)

BytesInit ==
  /\ Init
  /\ bytes = [p \in OutputBytes |->
       IF p < OldBlocks * BufferSize THEN file[p \div BufferSize] ELSE HOLE]
  /\ fdOffset = [c \in Children |-> 0]
  /\ LET oldSize == IF file[0] = OLD THEN OldBlocks * BufferSize ELSE 0
     IN  \E r \in Rooms : room = Max({r, oldSize})
  /\ shifted = {}
-----------------------------------------------------------------------------
(* How many bytes read() in onDataOpen returns for block k. *)
BlockSize(k) == IF k = NumBlocks - 1 THEN LastSize ELSE BufferSize

(* Mutant: write() gets bufferSize, not recvLen - 7. *)
PayloadSizeFull(m) == IF m.body = NO_PAYLOAD THEN 0 ELSE BufferSize

(* Mutant: write() gets recvLen, not recvLen - 7. *)
PayloadSizeWithHeader(m) ==
  IF m.body = NO_PAYLOAD THEN 7 ELSE 7 + BlockSize(m.body)

(* The payload of m: its size, and its i-th byte. *)
PayloadSize(m) ==
  CASE m.body = NO_PAYLOAD -> 0
    [] m.body = FILENAME_PAYLOAD -> FilenameBytes
    [] OTHER -> BlockSize(m.body)

PayloadByte(m, i) ==
  IF m.body = FILENAME_PAYLOAD THEN FILENAME_PAYLOAD ELSE m.body * BufferSize + i

(* Mutant: no room for the header. *)
SlotBytesForData == BufferSize % Uint8

(* The size of a child's slots, after the passage of bufferSize through the *)
(* uint8_t parameter of onStart.                                            *)
SlotBytes == (BufferSize % Uint8) + 7

(* The offset after write() of m at offset `at': as much of the payload is  *)
(* written as there is room for.                                            *)
AfterWrite(m, at) ==
  IF at + PayloadSize(m) <= room THEN at + PayloadSize(m) ELSE room

(* The offsets before each of the packets ms, written from `first' on, and  *)
(* the one after the last.                                                  *)
WriteOffsets(ms, first) ==
  LET at[i \in 1 .. (Len(ms) + 1)] ==
        IF i = 1 THEN first ELSE AfterWrite(ms[i - 1], at[i - 1])
  IN  at

(* The packets child c writes in a step that takes expected[c] further. *)
WrittenBy(c) ==
  IF sState[c] = "flush"
  THEN [i \in 1 .. (expected'[c] - expected[c]) |->
          getEntry(sring[c], ServerWindow, expected[c] + i - 1)]
  ELSE <<Head(inbox[c])>>

ChildWrites(c) ==
  LET ms == WrittenBy(c)
      at == WriteOffsets(ms, fdOffset[c])
      Covers(i, p) == p \in at[i] .. (at[i + 1] - 1)
  IN  /\ expected'[c] # expected[c]
      /\ bytes' = [p \in OutputBytes |->
           IF \E i \in DOMAIN ms : Covers(i, p)
           THEN LET i == CHOOSE j \in DOMAIN ms : Covers(j, p)
                IN  PayloadByte(ms[i], p - at[i])
           ELSE bytes[p]]
      /\ fdOffset' = [fdOffset EXCEPT ![c] = at[Len(ms) + 1]]
      /\ shifted' = IF \E i \in DOMAIN ms : ms[i].body = FILENAME_PAYLOAD
                    THEN shifted \cup {c} ELSE shifted
      /\ UNCHANGED room

NoWrite == expected' = expected /\ UNCHANGED bytesVars

BytesNext ==
  /\ Next
  /\ (\E c \in Children : ChildWrites(c)) \/ NoWrite

BytesSpec == BytesInit /\ [][BytesNext]_<<vars, bytesVars>>
-----------------------------------------------------------------------------
(* Block k is where Srej has it: every byte of it for which there is room   *)
(* holds that byte of the input file, in particular behind blocks that were *)
(* written by another child; and nothing else is new in the file, neither   *)
(* in the tail of an old file nor in the middle.  Of a full disk only the   *)
(* end of the copy suffers, although nobody looks at what write() returns.  *)
(* (serverLib.c:149, 195, 266.)  A child that wrote a filename PDU as       *)
(* packet 0 writes the rest at the wrong offsets, and leaves no mark of it  *)
(* once another child has written block 0; hence the history.               *)
BytesOf(k) == {p \in (k * BufferSize) .. (k * BufferSize + BlockSize(k) - 1) : p < room}

BlocksAreBytes ==
  shifted = {} =>
    /\ \A k \in Blocks : file[k] = k => \A p \in BytesOf(k) : bytes[p] = p
    /\ \A p \in OutputBytes : bytes[p] \notin {HOLE, OLD} =>
         /\ bytes[p] = p
         /\ \E k \in Blocks : file[k] = k /\ p \in BytesOf(k)

(* Where block n begins, the end of the file included, and where that is if *)
(* the disk is full before.                                                 *)
BlockStart(n) ==
  IF n < NumBlocks THEN n * BufferSize
  ELSE IF NumBlocks = 0 THEN 0 ELSE (NumBlocks - 1) * BufferSize + LastSize

UpToRoom(p) == IF p <= room THEN p ELSE room

(* The two ways to say where a child is in the output file agree: its       *)
(* descriptor is where the block it expects begins, unless it wrote a       *)
(* filename PDU itself.  Inductive under IInv.                              *)
BytesInv ==
  /\ room \in Nat
  /\ bytes = [p \in OutputBytes |-> bytes[p]]
  /\ fdOffset = [c \in Children |-> fdOffset[c]]
  /\ \A c \in Children \ shifted : fdOffset[c] = UpToRoom(BlockStart(expected[c]))
  /\ BlocksAreBytes

(* A byte of the output file that is the right one stays so, although       *)
(* several children write the same file, each from its beginning, and       *)
(* packets arrive again and again: only a child that took a filename PDU    *)
(* for packet 0 overwrites such a byte with something else.                 *)
CopiedStays ==
  [][\A p \in OutputBytes : bytes[p] = p /\ bytes'[p] # p =>
       \E c \in shifted' : expected'[c] # expected[c]]_<<vars, bytesVars>>

(* The whole program implements FileCopy: seen from outside, windows,       *)
(* retransmissions, several children and what the network does amount to a  *)
(* file that grows from the front, byte by byte in its place,               *)
(* acknowledgements that are true, and an EOF that comes last, until a      *)
(* write() falls short or a filename PDU is written.                        *)
CopiedBlocks ==
  {k \in Blocks :
     \A p \in (k * BufferSize) .. (k * BufferSize + BlockSize(k) - 1) : bytes[p] = p}

(* Some write() of a child stored less than it was given. *)
CutShort == \E c \in Children : BlockStart(expected[c]) > room

Trouble ==
  IF shifted # {} THEN "misplaced" ELSE IF CutShort THEN "full" ELSE "none"

Outcome ==
  IF EofSent THEN "announced"
  ELSE IF rState \in {"done", "killed"} THEN "gave up" ELSE "copying"

FC == INSTANCE FileCopy WITH copied <- CopiedBlocks, acked <- rr,
                             outcome <- Outcome, trouble <- Trouble

Implements == FC!Spec

(* No packet a child keeps is larger than its slot: addToCircularBuffer     *)
(* copies the whole PDU, header included, and checks nothing.  True as long *)
(* as BufferSize < Uint8.                                                   *)
PacketsFitTheirSlots ==
  \A c \in Children : sState[c] \in {"flush"} \cup Receiving =>
    \A i \in DOMAIN sring[c] :
      sring[c][i].valid => 7 + PayloadSize(sring[c][i].pdu) <= SlotBytes
=============================================================================
