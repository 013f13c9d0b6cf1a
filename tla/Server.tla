------------------------------- MODULE Server -------------------------------
(***************************************************************************)
(* The server: the main process, which forks a child for every intact      *)
(* datagram on the well-known socket (server.c), and the children, each of *)
(* which receives one file (serverLib.c, serverSlidingWindow.c).           *)
(*                                                                         *)
(* sState[c] is where child c is:                                          *)
(*   "unused"    not forked                                                *)
(*   "forked"    forked, has not opened its file and socket yet            *)
(*   "inOrder"   onDataInOrder, in onDataPoll                              *)
(*   "buffer"    onDataBuffer, in onDataPoll                               *)
(*   "flush"     about to run onDataFlush                                  *)
(*   "done"      exit(0)                                                   *)
(*   "crashed"   exit(-1) on an empty datagram, or SIGFPE in getIndex      *)
(*   "killed"    ended from outside                                        *)
(*                                                                         *)
(* All children write the same output file, each from offset zero of its   *)
(* own descriptor.  A child's n-th write() goes to block position n, which *)
(* is expected[c] at that moment: every write() comes with expected++.     *)
(* `file' says what was handed to write() for each position, which is all  *)
(* that the processes go by: nobody looks at the result.  What of it gets  *)
(* onto the disk, and at which bytes, is in SrejBytes.                     *)
(***************************************************************************)
EXTENDS Udp, CircularBuffer, Params

CONSTANTS
  Uint8,          \* 256: onStart takes the window size as a uint8_t
  OldBlocks,      \* blocks of an older output file, if there is one; open() keeps them
  OpenOutcomes    \* how open() of the output file may end: TRUE, FALSE or both

ASSUME ServerAssumption ==
  /\ Uint8 \in Nat \ {0}
  /\ OldBlocks \in Nat
  /\ OpenOutcomes \in SUBSET BOOLEAN

VARIABLES
  sState,
  expected,     \* expected[c]: the next sequence number in order
  highest,      \* highest[c]: the highest sequence number received
  sring,        \* sring[c]: the circular buffer; <<>> before it is allocated
  sCounter,     \* sCounter[c]: timeouts counted by the running onDataPoll
  file          \* what write() was called with last, by block position

serverVars == <<sState, expected, highest, sring, sCounter, file>>

HOLE == -4      \* nothing at this position of the output file
OLD == -5       \* left from an older file of the same name

(* The window size after its passage through onStart's uint8_t parameter. *)
ServerWindow == WindowSize % Uint8

Ended == {"done", "crashed", "killed"}
Receiving == {"inOrder", "buffer"}
ChildStates == {"unused", "forked", "flush"} \cup Receiving \cup Ended

Positions == 0 .. (NumBlocks + OldBlocks)

ServerTypeOK ==
  /\ sState \in [Children -> ChildStates]
  /\ expected \in [Children -> 0 .. (NumBlocks + 1)]
  /\ highest \in [Children -> -1 .. NumBlocks]
  /\ \A c \in Children : sState[c] \notin {"unused", "forked"} \cup Ended =>
       sring[c] \in [0 .. (ServerWindow - 1) ->
                       [valid : BOOLEAN, sequenceNumber : Int,
                        pdu : Datagram(Endpoints)]]
  /\ DOMAIN sring = Children
  /\ sCounter \in [Children -> 0 .. MaxTries]
  /\ file \in [Positions -> Int]

ServerInit ==
  /\ sState = [c \in Children |-> "unused"]
  /\ expected = [c \in Children |-> 0]
  /\ highest = [c \in Children |-> -1]
  /\ sring = [c \in Children |-> <<>>]
  /\ sCounter = [c \in Children |-> 0]
  /\ \E old \in {0, OldBlocks} :
       file = [k \in Positions |-> IF k < old THEN OLD ELSE HOLE]
-----------------------------------------------------------------------------
(* processServer: fork a child for an intact datagram, ignore any other. *)
ServerFork(c) ==
  /\ Arrived(Main)
  /\ Head(inbox[Main]).ok
  /\ sState[c] = "unused"
  /\ \A d \in 1 .. (c - 1) : sState[d] # "unused"
  /\ sState' = [sState EXCEPT ![c] = "forked"]
  /\ inbox' = Taken(Main)
  /\ UNCHANGED <<expected, highest, sring, sCounter, file, sockets, faults, due>>

ServerIgnore ==
  /\ Arrived(Main)
  /\ ~Head(inbox[Main]).ok
  /\ inbox' = Taken(Main)
  /\ UNCHANGED <<serverVars, sockets, faults, due>>
-----------------------------------------------------------------------------
(* Child c goes to state s with the queues as in box. *)
ChildMoves(c, s, box) ==
  /\ sState' = [sState EXCEPT ![c] = s]
  /\ IF s \in Ended
     THEN /\ sockets' = sockets \ {c}
          /\ inbox' = [box EXCEPT ![c] = <<>>]
     ELSE /\ sockets' = sockets
          /\ inbox' = box

FilenameResponse(c, ok) ==
  createPDU(c, 0, FILENAME_RESPONSE_FLAG,
            IF ok THEN FILENAME_OK_FLAG ELSE FILENAME_BAD_FLAG)
(* Mutant: acknowledges the packet that is still expected. *)
RrNext(c, seq) == createPDU(c, 0, RR_FLAG, seq + 1)

Rr(c, seq) == createPDU(c, 0, RR_FLAG, seq)
Srej(c, seq) == createPDU(c, 0, SREJ_FLAG, seq)

(* processClient up to the data state: open the file, create a socket, set  *)
(* up the window, send the filename response once.                          *)
ChildStart(c) ==
  /\ sState[c] = "forked"
  /\ \E ok \in OpenOutcomes :
       /\ sState' = [sState EXCEPT ![c] = IF ok THEN "inOrder" ELSE "done"]
       /\ sockets' = IF ok THEN sockets \cup {c} ELSE sockets
       /\ inbox' = Delivered(inbox, Client, <<FilenameResponse(c, ok)>>)
  /\ sring' = [sring EXCEPT ![c] = setupCircularBuffer(ServerWindow, Client)]
  /\ UNCHANGED <<expected, highest, sCounter, file, faults, due>>

(* onDataPoll: one second without a datagram. *)
ChildTimeout(c) ==
  /\ sState[c] \in Receiving
  /\ TimedOut(c)
  /\ IF GivesUp(sCounter[c])
     THEN /\ ChildMoves(c, "done", inbox)
          /\ sCounter' = sCounter
     ELSE /\ ChildMoves(c, sState[c], inbox)
          /\ sCounter' = [sCounter EXCEPT ![c] = Counted(@)]
  /\ PollReturns(c)
  /\ UNCHANGED <<expected, highest, sring, file, faults>>

(* Child c in one of the states of S receives its next datagram. *)
ChildReceives(c, S) ==
  /\ sState[c] \in S
  /\ Arrived(c)
  /\ sCounter' = [sCounter EXCEPT ![c] = 0]
  /\ PollReturns(c)

(* An intact PDU that gets past the tests on flag and length: onDataInOrder *)
(* tests them (nobody sends a SETUP PDU), onDataBuffer does not.            *)
TakenAsData(c, m) ==
  /\ m.ok
  /\ sState[c] = "inOrder" => m.flag # SETUP_FLAG /\ m.body # NO_PAYLOAD

(* write(): the payload of m for position pos, the position after the       *)
(* child's last one.  The result is ignored, here as in the code.           *)
Written(f, pos, m) ==
  IF m.body = NO_PAYLOAD THEN f ELSE [f EXCEPT ![pos] = m.body]

(* Mutant: forgets setHighest. *)
BufferedKeepsHighest(c, m) ==
  /\ sring' = [sring EXCEPT ![c] =
       setValid(addToCircularBuffer(@, ServerWindow, m.seq, m),
                ServerWindow, m.seq, TRUE)]
  /\ highest' = highest

(* bufferPacket, and setHighest with its test. *)
Buffered(c, m) ==
  /\ sring' = [sring EXCEPT ![c] =
       setValid(addToCircularBuffer(@, ServerWindow, m.seq, m),
                ServerWindow, m.seq, TRUE)]
  /\ highest' = [highest EXCEPT ![c] = IF m.seq > @ THEN m.seq ELSE @]
-----------------------------------------------------------------------------
(* An empty datagram: exit(-1). *)
ChildEmptyDatagram(c) ==
  /\ ChildReceives(c, Receiving)
  /\ Head(inbox[c]).body = NOTHING
  /\ ChildMoves(c, "crashed", Taken(c))
  /\ UNCHANGED <<expected, highest, sring, file, faults>>

ChildCorrupt(c) ==
  /\ ChildReceives(c, Receiving)
  /\ ~Head(inbox[c]).ok
  /\ Head(inbox[c]).body # NOTHING
  /\ ChildMoves(c, sState[c], Taken(c))
  /\ UNCHANGED <<expected, highest, sring, file, faults>>

(* Mutant: an old packet is dropped in silence. *)
OldPacketSilence(c) == <<>>

OldPacketReply(c) == <<Rr(c, expected[c])>>

(* A packet before the expected one: repeat the latest RR. *)
ChildOldPacket(c) ==
  /\ ChildReceives(c, Receiving)
  /\ LET m == Head(inbox[c]) IN
       /\ TakenAsData(c, m)
       /\ m.seq < expected[c]
       /\ ChildMoves(c, sState[c],
                     Delivered(Taken(c), m.from, OldPacketReply(c)))
  /\ UNCHANGED <<expected, highest, sring, file, faults>>

(* onDataInOrder: a PDU that is just a header, taken as EOF. *)
InOrderEof(c) ==
  /\ ChildReceives(c, {"inOrder"})
  /\ LET m == Head(inbox[c]) IN
       /\ m.ok
       /\ m.flag # SETUP_FLAG
       /\ m.body = NO_PAYLOAD
  /\ ChildMoves(c, "done", Taken(c))
  /\ UNCHANGED <<expected, highest, sring, file, faults>>

(* Mutant: a packet it already has is written once more. *)
IsExpectedOrOld(c, m) == m.seq <= expected[c]

IsExpected(c, m) == m.seq = expected[c]

(* onDataInOrder: the expected packet. *)
InOrderExpected(c) ==
  /\ ChildReceives(c, {"inOrder"})
  /\ LET m == Head(inbox[c]) IN
       /\ TakenAsData(c, m)
       /\ IsExpected(c, m)
       /\ file' = Written(file, expected[c], m)
       /\ highest' = [highest EXCEPT ![c] = IF m.seq > @ THEN m.seq ELSE @]
       /\ expected' = [expected EXCEPT ![c] = @ + 1]
       /\ ChildMoves(c, "inOrder",
                     Delivered(Taken(c), m.from, <<Rr(c, expected[c] + 1)>>))
  /\ UNCHANGED <<sring, faults>>

(* onDataInOrder: a packet too early; ask for the expected one. *)
InOrderAhead(c) ==
  /\ ChildReceives(c, {"inOrder"})
  /\ ServerWindow # 0
  /\ LET m == Head(inbox[c]) IN
       /\ TakenAsData(c, m)
       /\ m.seq > expected[c]
       /\ Buffered(c, m)
       /\ ChildMoves(c, "buffer",
                     Delivered(Taken(c), m.from, <<Srej(c, expected[c])>>))
  /\ UNCHANGED <<expected, file, faults>>

(* The same with a ring of zero slots: getIndex divides by zero. *)
InOrderAheadNoRing(c) ==
  /\ ChildReceives(c, {"inOrder"})
  /\ ServerWindow = 0
  /\ LET m == Head(inbox[c]) IN
       /\ TakenAsData(c, m)
       /\ m.seq > expected[c]
       /\ ChildMoves(c, "crashed",
                     Delivered(Taken(c), m.from, <<Srej(c, expected[c])>>))
  /\ UNCHANGED <<expected, highest, sring, file, faults>>

(* onDataBuffer: the packet that was missing. *)
BufferExpected(c) ==
  /\ ChildReceives(c, {"buffer"})
  /\ LET m == Head(inbox[c]) IN
       /\ TakenAsData(c, m)
       /\ IsExpected(c, m)
       /\ file' = Written(file, expected[c], m)
  /\ expected' = [expected EXCEPT ![c] = @ + 1]
  /\ ChildMoves(c, "flush", Taken(c))
  /\ UNCHANGED <<highest, sring, faults>>

(* onDataBuffer: another packet too early; buffer it and say nothing. *)
BufferAhead(c) ==
  /\ ChildReceives(c, {"buffer"})
  /\ LET m == Head(inbox[c]) IN
       /\ TakenAsData(c, m)
       /\ m.seq > expected[c]
       /\ Buffered(c, m)
  /\ ChildMoves(c, "buffer", Taken(c))
  /\ UNCHANGED <<expected, file, faults>>

(* Packet k is in the circular buffer of child c. *)
Held(c, k) ==
  /\ getValid(sring[c], ServerWindow, k)
  /\ getSequenceNumber(sring[c], ServerWindow, k) = k

(* Mutant: written packets stay marked as held. *)
NotReleased(r, first, next) == r

(* The ring r after its packets from first up to before next were written.  *)
Released(r, first, next) ==
  [i \in DOMAIN r |->
     IF \E k \in first .. (next - 1) : getIndex(ServerWindow, k) = i
     THEN [r[i] EXCEPT !.valid = FALSE] ELSE r[i]]

(* The output file after the packets of child c up to before e. *)
Flushed(c, e) ==
  [k \in Positions |->
     IF k \in expected[c] .. (e - 1)
     THEN Written(file, k, getEntry(sring[c], ServerWindow, k))[k]
     ELSE file[k]]

(* onDataFlush: write the packets held from expected[c] on, up to the first *)
(* one missing, e; acknowledge them; ask for e if later packets are held.   *)
ChildFlush(c) ==
  /\ sState[c] = "flush"
  /\ \E e \in expected[c] .. (highest[c] + 1) :
       /\ \A k \in expected[c] .. (e - 1) : Held(c, k)
       /\ ~Held(c, e)
       /\ file' = Flushed(c, e)
       /\ sring' = [sring EXCEPT ![c] = Released(@, expected[c], e)]
       /\ expected' = [expected EXCEPT ![c] = e]
       /\ IF e < highest[c]
          THEN ChildMoves(c, "buffer",
                 Delivered(inbox, Client, <<Rr(c, e), Srej(c, e)>>))
          ELSE ChildMoves(c, "inOrder", Delivered(inbox, Client, <<Rr(c, e)>>))
  /\ UNCHANGED <<highest, sCounter, faults, due>>
-----------------------------------------------------------------------------
(* Mutant: onDataInOrder answers before it writes, and is killed between.   *)
AnswerCutShort(c) ==
  /\ faults.killed < MaxKilled
  /\ sState[c] = "inOrder"
  /\ Arrived(c)
  /\ LET m == Head(inbox[c]) IN
       /\ TakenAsData(c, m)
       /\ IsExpected(c, m)
       /\ ChildMoves(c, "killed",
                     Delivered(inbox, m.from, <<Rr(c, expected[c] + 1)>>))
  /\ faults' = [faults EXCEPT !.killed = @ + 1]
  /\ PollReturns(c)
  /\ UNCHANGED <<expected, highest, sring, sCounter, file>>

(* A kill in the middle of the two handlers that write and then answer:     *)
(* onDataInOrder between write() and the RR, onDataFlush between two        *)
(* writes or before its RR.  (A kill elsewhere is one before or after the   *)
(* whole handler; between the RR and the SREJ of onDataFlush it is one      *)
(* after the handler, with the SREJ lost.)                                  *)
ChildCutShort(c) ==
  /\ faults.killed < MaxKilled
  /\ \/ /\ sState[c] = "inOrder"
        /\ Arrived(c)
        /\ LET m == Head(inbox[c]) IN
             /\ TakenAsData(c, m)
             /\ IsExpected(c, m)
             /\ file' = Written(file, expected[c], m)
        /\ expected' = [expected EXCEPT ![c] = @ + 1]
     \/ /\ sState[c] = "flush"
        /\ \E e \in (expected[c] + 1) .. (highest[c] + 1) :
             /\ \A k \in expected[c] .. (e - 1) : Held(c, k)
             /\ file' = Flushed(c, e)
             /\ expected' = [expected EXCEPT ![c] = e]
  /\ ChildMoves(c, "killed", inbox)
  /\ faults' = [faults EXCEPT !.killed = @ + 1]
  /\ PollReturns(c)
  /\ UNCHANGED <<highest, sring, sCounter>>

ChildKilled(c) ==
  /\ sState[c] \notin {"unused"} \cup Ended
  /\ faults.killed < MaxKilled
  /\ ChildMoves(c, "killed", inbox)
  /\ faults' = [faults EXCEPT !.killed = @ + 1]
  /\ PollReturns(c)
  /\ UNCHANGED <<expected, highest, sring, sCounter, file>>

ChildNext(c) ==
  \/ ChildStart(c) \/ ChildTimeout(c)
  \/ ChildEmptyDatagram(c) \/ ChildCorrupt(c) \/ ChildOldPacket(c)
  \/ InOrderEof(c) \/ InOrderExpected(c)
  \/ InOrderAhead(c) \/ InOrderAheadNoRing(c)
  \/ BufferExpected(c) \/ BufferAhead(c) \/ ChildFlush(c)
  \/ ChildCutShort(c)
=============================================================================
