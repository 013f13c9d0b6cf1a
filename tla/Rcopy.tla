------------------------------- MODULE Rcopy -------------------------------
(***************************************************************************)
(* rcopy, the sending program: rcopy.c, rcopyLib.c, rcopySlidingWindow.c.  *)
(* It asks the server for the output file (stop and wait), then sends the  *)
(* blocks of its input file under a sliding window with selective reject.  *)
(*                                                                         *)
(* rState is where rcopy is:                                               *)
(*   "start"       RCOPY_START_STATE, nothing set up                       *)
(*   "filename"    onFilename, in pollCall(1000) after sending its PDU     *)
(*   "open"        at the head of the loop of onDataOpen                   *)
(*   "drain"       onDataOpen, in the pollCall(0) loop after a data packet *)
(*   "openPoll"    onDataPoll called from onDataOpen, at end of file       *)
(*   "closedPoll"  onDataPoll called from onDataClosed                     *)
(*   "done"        RCOPY_DONE_STATE, the process has ended                 *)
(*   "killed"      ended from outside                                      *)
(***************************************************************************)
EXTENDS Udp, CircularBuffer, Params

VARIABLES
  rState,
  current,      \* sequence number of the latest packet sent
  upper,        \* first sequence number outside the window
  rr,           \* the latest RR received (lower is always the same number)
  ring,         \* the circular buffer; <<>> before it is allocated
  offset,       \* next block that read() returns
  server,       \* where rcopy sends: the source of the last datagram received
  counter,      \* timeouts counted by the running onFilename or onDataPoll
  openStatus    \* onDataOpenStatus: -1 once onDataOpen asked for the done state

rcopyVars == <<rState, current, upper, rr, ring, offset, server, counter,
               openStatus>>

STAY_IN_DATA_STATE == 0
MOVE_TO_DONE_STATE == -1

RcopyPolls == {"drain", "openPoll", "closedPoll"}
RcopyStates == {"start", "filename", "open", "done", "killed"} \cup RcopyPolls

RcopyTypeOK ==
  /\ rState \in RcopyStates
  /\ current \in -1 .. NumBlocks
  /\ upper \in Nat
  /\ rr \in Nat
  /\ rState \notin {"start", "killed"} =>
       ring \in [0 .. (WindowSize - 1) ->
                   [valid : BOOLEAN, sequenceNumber : Int,
                    pdu : Datagram(Endpoints)]]
  /\ offset \in 0 .. NumBlocks
  /\ server \in Endpoints \ {Client}
  /\ counter \in 0 .. MaxTries
  /\ openStatus \in {STAY_IN_DATA_STATE, MOVE_TO_DONE_STATE}

RcopyInit ==
  /\ rState = "start"
  /\ current = -1
  /\ upper = 0
  /\ rr = 0
  /\ ring = <<>>
  /\ offset = 0
  /\ server = Main
  /\ counter = 0
  /\ openStatus = STAY_IN_DATA_STATE
-----------------------------------------------------------------------------
FilenamePdu == createPDU(Client, 0, FILENAME_FLAG, FILENAME_PAYLOAD)
DataPdu(seq, block) == createPDU(Client, seq, DATA_FLAG, block)
EofPdu(seq) == createPDU(Client, seq, DATA_FLAG, NO_PAYLOAD)

(* Mutant: the upper bound is not looked at. *)
isWindowOpenAlways(cur, up) == TRUE

isWindowOpen(cur, up) == cur + 1 < up

(* Mutant: done when only the last packet is missing. *)
isServerDoneReceivingEarly == rr >= current

isServerDoneReceiving == rr > current

(* incrementBounds: the upper bound after an RR for seq. *)
upperAfter(seq) == seq + WindowSize

(* The EOF packet is the only one that takes current past the last block.   *)
EofSent == current = NumBlocks

(* rcopy goes to state s with the queues as in box; a process that ends     *)
(* closes its socket, and what is queued there is gone.                     *)
RcopyMoves(s, box) ==
  /\ rState' = s
  /\ IF s \in {"done", "killed"}
     THEN /\ sockets' = sockets \ {Client}
          /\ inbox' = [box EXCEPT ![Client] = <<>>]
     ELSE /\ sockets' = sockets
          /\ inbox' = box
-----------------------------------------------------------------------------
(* onStart, and, as the switch falls through, the first round of onFilename. *)
RcopyStart ==
  /\ rState = "start"
  /\ upper' = WindowSize
  /\ ring' = setupCircularBuffer(WindowSize, Client)
  /\ counter' = 0
  /\ RcopyMoves("filename", Delivered(inbox, server, <<FilenamePdu>>))
  /\ UNCHANGED <<current, rr, offset, server, openStatus, faults, due>>

(* The end of a round of onFilename: send the PDU to `to' again, or give up *)
(* after MaxTries rounds.                                                   *)
RetryFilename(tries, to, box) ==
  /\ counter' = tries
  /\ IF tries < MaxTries
     THEN RcopyMoves("filename", Delivered(box, to, <<FilenamePdu>>))
     ELSE RcopyMoves("done", box)

RcopyFilenameTimeout ==
  /\ rState = "filename"
  /\ TimedOut(Client)
  /\ RetryFilename(counter + 1, server, inbox)
  /\ PollReturns(Client)
  /\ UNCHANGED <<current, upper, rr, ring, offset, server, openStatus, faults>>

(* A corrupted answer: safeRecvfrom has already replaced the address of the *)
(* server by that of the sender, so the PDU goes to the child now.          *)
RcopyFilenameCorrupt ==
  /\ rState = "filename"
  /\ Arrived(Client)
  /\ LET m == Head(inbox[Client]) IN
       /\ ~m.ok
       /\ server' = m.from
       /\ RetryFilename(1, m.from, Taken(Client))
  /\ PollReturns(Client)
  /\ UNCHANGED <<current, upper, rr, ring, offset, openStatus, faults>>

onFilenameGetNextState(m) ==
  IF \/ m.flag = FILENAME_RESPONSE_FLAG /\ m.body = FILENAME_OK_FLAG
     \/ m.flag = RR_FLAG
  THEN "open" ELSE "done"

RcopyFilenameResponse ==
  /\ rState = "filename"
  /\ Arrived(Client)
  /\ LET m == Head(inbox[Client]) IN
       /\ m.ok
       /\ server' = m.from
       /\ RcopyMoves(onFilenameGetNextState(m), Taken(Client))
  /\ counter' = 0
  /\ PollReturns(Client)
  /\ UNCHANGED <<current, upper, rr, ring, offset, openStatus, faults>>
-----------------------------------------------------------------------------
(* onDataOpen, read() returned a block: store it, send it, then look at the *)
(* answers that have already arrived.                                       *)
RcopySend ==
  /\ rState = "open"
  /\ isWindowOpen(current, upper)
  /\ offset < NumBlocks
  /\ LET seq == current + 1
         pdu == DataPdu(seq, offset)
     IN  /\ current' = seq
         /\ ring' = addToCircularBuffer(ring, WindowSize, seq, pdu)
         /\ RcopyMoves("drain", Delivered(inbox, server, <<pdu>>))
  /\ offset' = offset + 1
  /\ UNCHANGED <<upper, rr, server, counter, openStatus, faults, due>>

RcopyDrained ==
  /\ rState = "drain"
  /\ NothingYet(Client)
  /\ RcopyMoves("open", inbox)
  /\ UNCHANGED <<current, upper, rr, ring, offset, server, counter, openStatus,
                 faults, due>>

(* End of file and every packet acknowledged: send EOF once.  onData still  *)
(* calls onDataClosed, which waits if sending EOF closed the window.        *)
RcopyEof ==
  /\ rState = "open"
  /\ isWindowOpen(current, upper)
  /\ offset = NumBlocks
  /\ isServerDoneReceiving
  /\ current' = current + 1
  /\ openStatus' = MOVE_TO_DONE_STATE
  /\ counter' = 0
  /\ RcopyMoves(IF isWindowOpen(current + 1, upper) THEN "done" ELSE "closedPoll",
                Delivered(inbox, server, <<EofPdu(current + 1)>>))
  /\ UNCHANGED <<upper, rr, ring, offset, server, faults, due>>

(* End of file with packets still unacknowledged: onDataPoll. *)
RcopyAwaitAcks ==
  /\ rState = "open"
  /\ isWindowOpen(current, upper)
  /\ offset = NumBlocks
  /\ ~isServerDoneReceiving
  /\ counter' = 0
  /\ RcopyMoves("openPoll", inbox)
  /\ UNCHANGED <<current, upper, rr, ring, offset, server, openStatus, faults,
                 due>>

(* onDataOpen ends because the window is closed; onDataClosed polls. *)
RcopyWindowClosed ==
  /\ rState = "open"
  /\ ~isWindowOpen(current, upper)
  /\ counter' = 0
  /\ RcopyMoves("closedPoll", inbox)
  /\ UNCHANGED <<current, upper, rr, ring, offset, server, openStatus, faults,
                 due>>
-----------------------------------------------------------------------------
(* onDataPoll: one second without an answer.  Resend the packet at rr, or   *)
(* give up at the timeout after the MaxTries-th resend.                     *)
RcopyPollTimeout ==
  /\ rState \in {"openPoll", "closedPoll"}
  /\ TimedOut(Client)
  /\ IF GivesUp(counter)
     THEN /\ counter' = counter
          /\ RcopyMoves("done", inbox)
     ELSE /\ counter' = Counted(counter)
          /\ RcopyMoves(rState,
               Delivered(inbox, server, <<getEntry(ring, WindowSize, rr)>>))
  /\ PollReturns(Client)
  /\ UNCHANGED <<current, upper, rr, ring, offset, server, openStatus, faults>>

(* Where rcopy is after handlePollReturn, with up the new upper bound. *)
AfterPoll(up) ==
  IF rState = "drain" THEN "drain"
  ELSE IF rState = "openPoll" THEN "open"
  ELSE IF ~isWindowOpen(current, up) THEN "closedPoll"
  ELSE IF openStatus = MOVE_TO_DONE_STATE THEN "done" ELSE "open"

RcopyReceiveCorrupt ==
  /\ rState \in RcopyPolls
  /\ Arrived(Client)
  /\ LET m == Head(inbox[Client]) IN
       /\ ~m.ok
       /\ server' = m.from
  /\ RcopyMoves(AfterPoll(upper), Taken(Client))
  /\ counter' = 0
  /\ PollReturns(Client)
  /\ UNCHANGED <<current, upper, rr, ring, offset, openStatus, faults>>

(* onDataRR: the bounds become what the RR says, whatever they were. *)
RcopyReceiveRR ==
  /\ rState \in RcopyPolls
  /\ Arrived(Client)
  /\ LET m == Head(inbox[Client]) IN
       /\ m.ok
       /\ m.flag = RR_FLAG
       /\ server' = m.from
       /\ rr' = m.body
       /\ upper' = upperAfter(m.body)
       /\ RcopyMoves(AfterPoll(upperAfter(m.body)), Taken(Client))
  /\ counter' = 0
  /\ PollReturns(Client)
  /\ UNCHANGED <<current, ring, offset, openStatus, faults>>

(* The sequence number handlePollReturn reads from a PDU that is not an RR. *)
(* A filename response has one payload byte: the other three are whatever   *)
(* the receive buffer held before, so any slot may be hit.                  *)
RequestedBy(m) ==
  IF m.flag = SREJ_FLAG THEN {m.body} ELSE 0 .. (WindowSize - 1)

(* onDataResend, to the sender of the request. *)
RcopyReceiveSrej ==
  /\ rState \in RcopyPolls
  /\ Arrived(Client)
  /\ LET m == Head(inbox[Client]) IN
       /\ m.ok
       /\ m.flag # RR_FLAG
       /\ server' = m.from
       /\ \E seq \in RequestedBy(m) :
            RcopyMoves(AfterPoll(upper),
              Delivered(Taken(Client), m.from,
                        <<getEntry(ring, WindowSize, seq)>>))
  /\ counter' = 0
  /\ PollReturns(Client)
  /\ UNCHANGED <<current, upper, rr, ring, offset, openStatus, faults>>
-----------------------------------------------------------------------------
RcopyKilled ==
  /\ rState \notin {"done", "killed"}
  /\ faults.killed < MaxKilled
  /\ RcopyMoves("killed", inbox)
  /\ faults' = [faults EXCEPT !.killed = @ + 1]
  /\ PollReturns(Client)
  /\ UNCHANGED <<current, upper, rr, ring, offset, server, counter, openStatus>>

RcopyNext ==
  \/ RcopyStart
  \/ RcopyFilenameTimeout \/ RcopyFilenameCorrupt \/ RcopyFilenameResponse
  \/ RcopySend \/ RcopyDrained \/ RcopyEof \/ RcopyAwaitAcks
  \/ RcopyWindowClosed \/ RcopyPollTimeout
  \/ RcopyReceiveCorrupt \/ RcopyReceiveRR \/ RcopyReceiveSrej
=============================================================================
