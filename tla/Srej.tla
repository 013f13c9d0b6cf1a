-------------------------------- MODULE Srej --------------------------------
(***************************************************************************)
(* One copy with rcopy: the client, the server with its children, and the  *)
(* network between them.  This module puts Rcopy and Server together over  *)
(* Udp and states what the program is to guarantee.                        *)
(***************************************************************************)
EXTENDS Rcopy, Server

vars == <<udpVars, rcopyVars, serverVars>>

TypeOK ==
  /\ UdpTypeOK
  /\ RcopyTypeOK
  /\ ServerTypeOK

Init ==
  /\ UdpInit
  /\ RcopyInit
  /\ ServerInit
-----------------------------------------------------------------------------
(* Steps of the processes. *)
ClientStep == RcopyNext /\ UNCHANGED serverVars

MainStep ==
  /\ (\E c \in Children : ServerFork(c)) \/ ServerIgnore
  /\ UNCHANGED rcopyVars

ChildStep(c) == ChildNext(c) /\ UNCHANGED rcopyVars

Kill ==
  \/ RcopyKilled /\ UNCHANGED serverVars
  \/ \E c \in Children : ChildKilled(c) /\ UNCHANGED rcopyVars

Network ==
  \E p \in Endpoints : NetworkFault(p) /\ UNCHANGED <<rcopyVars, serverVars>>

(* p is blocked in a poll of one second. *)
Polling(p) ==
  IF p = Client THEN rState \in {"filename", "openPoll", "closedPoll"}
                ELSE sState[p] \in Receiving

CanFork == \E c \in Children : sState[c] = "unused"

(* Nobody has anything to do before a second has passed. *)
Quiet ==
  /\ \A p \in sockets \ {Main} : Polling(p) /\ ~Arrived(p)
  /\ \A c \in Children : sState[c] # "forked"
  /\ Arrived(Main) => Head(inbox[Main]).ok /\ ~CanFork

(* A second passes: the poll of every waiting process runs out, unless a    *)
(* datagram reaches the process first.                                      *)
Tick ==
  /\ ~Delay
  /\ due = {}
  /\ Quiet
  /\ sockets # {Main}
  /\ due' = sockets \ {Main}
  /\ UNCHANGED <<inbox, sockets, faults, rcopyVars, serverVars>>

(* rcopy and all children have ended; the server waits for the next client. *)
Finished ==
  /\ sockets = {Main}
  /\ \A c \in Children : sState[c] \in {"unused"} \cup Ended

Idle ==
  /\ Finished
  /\ Arrived(Main) => Head(inbox[Main]).ok /\ ~CanFork
  /\ UNCHANGED vars

Next ==
  \/ ClientStep
  \/ MainStep
  \/ \E c \in Children : ChildStep(c)
  \/ Kill
  \/ Network
  \/ Tick
  \/ Idle

Spec == Init /\ [][Next]_vars

(* Every process keeps running and time goes on; the network and the user   *)
(* who kills processes need not do anything.  (A handler cut short by a     *)
(* kill counts as a step of its child, which has ended then.)               *)
Fairness ==
  /\ WF_vars(ClientStep)
  /\ WF_vars(MainStep)
  /\ \A c \in Children : WF_vars(ChildStep(c))
  /\ WF_vars(Tick)

FairSpec == Spec /\ Fairness
-----------------------------------------------------------------------------
(***************************************************************************)
(* Safety.                                                                 *)
(***************************************************************************)
(* The packet numbered k went to position k of the output file f, and has   *)
(* not been replaced by anything else: it is block k, or at 0 a filename    *)
(* PDU, which a child in the data state takes for packet 0 and acknowledges *)
(* like it.  So this is what acknowledgements can be true of; that the      *)
(* block itself is there takes FilenamePduIsNotData, and that its bytes are *)
(* on the disk takes the room for them (SrejBytes).                         *)
Filled(f, k) ==
  \/ f[k] = k
  \/ k = 0 /\ f[k] = FILENAME_PAYLOAD

(* What may be at position k of the output file: nothing new, block k, or a *)
(* filename PDU in front.                                                   *)
InPlace(k, content) ==
  \/ content \in {HOLE, OLD}
  \/ k < NumBlocks /\ content = k
  \/ k = 0 /\ content = FILENAME_PAYLOAD

(* The positions of all packets before number n are filled. *)
Landed(f, n) == \A k \in 0 .. (NumBlocks - 1) : k < n => Filled(f, k)

(* The output file never holds a block in the wrong place, whatever the     *)
(* network does and however many children write it: each position is still  *)
(* untouched or holds the block of that number.  (onDataInOrder and         *)
(* onDataBuffer write in sequence, onDataFlush checks sequence numbers.)    *)
FileIntegrity ==
  \A k \in Positions : InPlace(k, file[k])

(* What rcopy believes acknowledged was handed to write() by a child: all   *)
(* packets below the latest RR it has processed, and below every RR still   *)
(* on its way, even if the child was killed in the middle of a handler.     *)
(* (write() comes before the RR in each of them, serverLib.c:266 and 271.)  *)
AckedIsWritten ==
  /\ Landed(file, rr)
  /\ \A m \in Mail(Client) : m.ok /\ m.flag = RR_FLAG => Landed(file, m.body)

(* rcopy says EOF only when every packet has been handed to write(). *)
EofMeansWritten == EofSent => Landed(file, NumBlocks)

(* EOF reaches the server only after everything else.  onDataInOrder ends   *)
(* on any PDU of seven bytes, without a look at its sequence number, so an  *)
(* EOF that came early would cut the output file short.                     *)
EofArrivesLast ==
  \A c \in Children : \A m \in Mail(c) :
    m.ok /\ m.body = NO_PAYLOAD => Landed(file, NumBlocks)

(* The packets a child keeps in its circular buffer are exactly packets     *)
(* still to come: none while it expects packets in order, and while it      *)
(* buffers, the expected one is missing and a later one was received.       *)
RingHoldsTheFuture ==
  \A c \in Children :
    /\ sState[c] = "inOrder" => \A i \in DOMAIN sring[c] : ~sring[c][i].valid
    /\ sState[c] = "buffer" =>
         /\ expected[c] < highest[c]
         /\ \A i \in DOMAIN sring[c] : sring[c][i].valid =>
              sring[c][i].sequenceNumber \in (expected[c] + 1) .. highest[c]

(* The loop of onDataFlush comes to an end: it knows no bound but the first *)
(* slot that does not hold the next packet, and finds one, at the latest    *)
(* behind the highest packet received.                                      *)
FlushEnds ==
  \A c \in Children : sState[c] = "flush" =>
    \E e \in expected[c] .. (highest[c] + 1) :
      /\ \A k \in expected[c] .. (e - 1) : Held(c, k)
      /\ ~Held(c, e)

(* No packet a child has buffered is overwritten by another one before it   *)
(* is written to the file: the window of rcopy never wraps around the ring  *)
(* of the child.                                                            *)
NoRingOverwrite ==
  [][\A c \in Children : \A i \in DOMAIN sring[c] \cap DOMAIN sring'[c] :
       sring[c][i].valid /\ sring'[c][i].valid =>
         sring'[c][i].sequenceNumber = sring[c][i].sequenceNumber]_vars

(* The two windows agree: the child rcopy talks to has everything below rr, *)
(* it has heard of nothing that was not sent, and what rcopy has sent fits  *)
(* the window.  (incrementBounds, isWindowOpen on one side, setExpected and *)
(* setHighest on the other; neither side ever sees the other's counters.)   *)
WindowsAgree ==
  /\ current < rr + WindowSize
  /\ \A c \in Children : sState[c] \in {"flush"} \cup Receiving /\ c = server =>
       /\ rr <= expected[c]
       /\ highest[c] <= Max({0, current})
       /\ highest[c] < expected[c] + WindowSize

(* Once rcopy has started to send it keeps to one child, although           *)
(* safeRecvfrom replaces the address it sends to by that of whoever a       *)
(* datagram comes from: no answer of another child is left over by then.    *)
(* (On a network without delay and duplication, as the next property.)      *)
OnePeer == [][server' # server => rState = "filename"]_vars

(* The window of rcopy never moves back, although onDataRR takes over the   *)
(* number of every RR without comparing it with the one before.             *)
WindowNeverMovesBack == [][rr <= rr']_vars

(* When rcopy is asked for a packet, the slot it looks in still holds that  *)
(* packet, and when it times out it resends the lowest unacknowledged one.  *)
ResendFindsItsPacket ==
  /\ rState \in RcopyPolls /\ Arrived(Client) =>
       LET m == Head(inbox[Client]) IN
         m.ok /\ m.flag = SREJ_FLAG =>
           getEntry(ring, WindowSize, m.body) = DataPdu(m.body, m.body)
  /\ rState \in {"openPoll", "closedPoll"} /\ ~EofSent =>
       getEntry(ring, WindowSize, rr) = DataPdu(rr, rr)

(* A filename PDU that reaches a child in the data state leaves no trace in *)
(* the output file.                                                         *)
FilenamePduIsNotData == \A k \in Positions : file[k] # FILENAME_PAYLOAD
-----------------------------------------------------------------------------
(***************************************************************************)
(* Liveness.                                                               *)
(***************************************************************************)
(* Every process comes to an end, whoever else dies or falls silent.        *)
Termination == <>[]Finished

(* The whole file gets copied and rcopy says so.                            *)
CopyCompletes ==
  <>(EofSent /\ \A k \in 0 .. (NumBlocks - 1) : file[k] = k)

(* Once rcopy has sent EOF it ends.                                         *)
EofThenDone == EofSent ~> rState \in {"done", "killed"}
=============================================================================
