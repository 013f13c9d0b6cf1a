-------------------------------- MODULE Udp --------------------------------
(***************************************************************************)
(* The sockets and the network between them, as safeUtil.c and pollLib.c   *)
(* see them: datagrams queue up at the socket they were sent to, a send to *)
(* a closed socket or to a full receive queue vanishes without an error,   *)
(* and on the way a datagram may be lost, corrupted, duplicated or         *)
(* overtaken.  Loss and corruption are also what the sendtoErr library     *)
(* does on purpose (DROP_ON, FLIP_ON).                                     *)
(*                                                                         *)
(* One rcopy talks to one server; the server forks a child per filename    *)
(* PDU, each child with a socket of its own.                               *)
(***************************************************************************)
EXTENDS Integers, Sequences, Pdu, SequencesExt

CONSTANTS
  MaxChildren,     \* how many children the server may fork
  Capacity,        \* datagrams that fit in a receive queue
  MaxLost,         \* bounds on what the network may do in one behaviour
  MaxCorrupted,
  MaxDuplicated,
  MaxReordered,
  MaxKilled,       \* how many processes may be killed from outside
  Delay            \* may a datagram stay in transit for more than a second?

ASSUME NetworkAssumption ==
  /\ MaxChildren \in Nat
  /\ Capacity \in Nat
  /\ MaxLost \in Nat /\ MaxCorrupted \in Nat
  /\ MaxDuplicated \in Nat /\ MaxReordered \in Nat
  /\ MaxKilled \in Nat
  /\ Delay \in BOOLEAN

Client == -1                   \* rcopy
Main == 0                      \* the server's well-known socket
Children == 1 .. MaxChildren   \* the children it forks, in that order
Endpoints == {Client, Main} \cup Children

VARIABLES
  inbox,     \* inbox[p]: the datagrams on their way to or queued at p
  sockets,   \* the endpoints whose socket is open
  faults,    \* how often each kind of fault has happened
  due        \* processes whose poll of one second runs out now

udpVars == <<inbox, sockets, faults, due>>

FaultCounts ==
  [lost : Nat, corrupted : Nat, duplicated : Nat, reordered : Nat, killed : Nat]

UdpTypeOK ==
  /\ inbox \in [Endpoints -> Seq(Datagram(Endpoints))]
  /\ sockets \in SUBSET Endpoints
  /\ faults \in FaultCounts
  /\ due \in SUBSET Endpoints

UdpInit ==
  /\ inbox = [p \in Endpoints |-> <<>>]
  /\ sockets = {Client, Main}
  /\ faults = [lost |-> 0, corrupted |-> 0, duplicated |-> 0,
               reordered |-> 0, killed |-> 0]
  /\ due = {}
-----------------------------------------------------------------------------
(* The receive queue q after the datagrams ds arrived: what does not fit is *)
(* dropped.                                                                 *)
Queued(q, ds) ==
  IF Len(q \o ds) <= Capacity THEN q \o ds ELSE SubSeq(q \o ds, 1, Capacity)

(* safeSendto: the queues box after the datagrams ds were sent to `to'. *)
Delivered(box, to, ds) ==
  IF to \in sockets
  THEN [box EXCEPT ![to] = Queued(@, ds)]
  ELSE box

(* safeRecvfrom: the queues after p received its next datagram. *)
Taken(p) == [inbox EXCEPT ![p] = Tail(@)]

Arrived(p) == inbox[p] # <<>>

(* The datagrams on their way to p or waiting there. *)
Mail(p) == {inbox[p][i] : i \in 1 .. Len(inbox[p])}

(* Mutant: the poll of one second returns at once. *)
TimedOutAtOnce(p) == Delay \/ ~Arrived(p)

(* pollCall(1000) may report a timeout to p.  With delay it may do so while *)
(* an answer is still in transit; without, only if nothing arrived for p in *)
(* a whole second in which nobody else had anything to do.                  *)
TimedOut(p) == Delay \/ (p \in due /\ ~Arrived(p))

(* pollCall(0) finds nothing to read. *)
NothingYet(p) == Delay \/ ~Arrived(p)

(* p's poll returned, with a datagram or without. *)
PollReturns(p) == due' = due \ {p}
-----------------------------------------------------------------------------
Lose(p) ==
  /\ faults.lost < MaxLost
  /\ \E i \in 1 .. Len(inbox[p]) :
       inbox' = [inbox EXCEPT ![p] = RemoveAt(@, i)]
  /\ faults' = [faults EXCEPT !.lost = @ + 1]
  /\ UNCHANGED <<sockets, due>>

Corrupt(p) ==
  /\ faults.corrupted < MaxCorrupted
  /\ \E i \in 1 .. Len(inbox[p]) :
       /\ inbox[p][i].ok
       /\ inbox' = [inbox EXCEPT ![p][i] = Corrupted(@)]
  /\ faults' = [faults EXCEPT !.corrupted = @ + 1]
  /\ UNCHANGED <<sockets, due>>

Duplicate(p) ==
  /\ faults.duplicated < MaxDuplicated
  /\ Len(inbox[p]) < Capacity
  /\ \E i \in 1 .. Len(inbox[p]) :
       inbox' = [inbox EXCEPT ![p] = Append(@, @[i])]
  /\ faults' = [faults EXCEPT !.duplicated = @ + 1]
  /\ UNCHANGED <<sockets, due>>

Reorder(p) ==
  /\ faults.reordered < MaxReordered
  /\ \E i \in 1 .. (Len(inbox[p]) - 1) :
       inbox' = [inbox EXCEPT ![p][i] = inbox[p][i + 1],
                              ![p][i + 1] = inbox[p][i]]
  /\ faults' = [faults EXCEPT !.reordered = @ + 1]
  /\ UNCHANGED <<sockets, due>>

(* What the network may do to the datagrams on their way to p. *)
NetworkFault(p) == Lose(p) \/ Corrupt(p) \/ Duplicate(p) \/ Reorder(p)
=============================================================================
