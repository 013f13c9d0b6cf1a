----------------------------- MODULE SrejLocal -----------------------------
(***************************************************************************)
(* The inductive invariant behind the windows of rcopy and its child on a  *)
(* local network: datagrams may be lost or corrupted and processes may be  *)
(* killed, but what arrives arrives once, in order, and before a second    *)
(* has passed.  The argument has two phases.  While rcopy asks for the     *)
(* file, at most one process has anything to do, so that no answer of      *)
(* another child is left over when rcopy starts to send.  From then on it  *)
(* talks to one child only, and the answers on their way to rcopy carry    *)
(* numbers that never decrease.                                            *)
(***************************************************************************)
EXTENDS SrejInvariant

LocalNetwork == ~Delay /\ MaxDuplicated = 0 /\ MaxReordered = 0

Started(c) == sState[c] \notin {"unused", "forked"}

(* p has something to do before a second passes (a child in the flush state *)
(* aside, of which there is none before rcopy sends).                       *)
Active(p) ==
  IF p = Main THEN Arrived(Main) /\ CanFork
  ELSE Arrived(p) \/ (p \in Children /\ sState[p] = "forked")

(* A closed socket holds nothing, and a child has a socket, and sends, only *)
(* once it has started.                                                     *)
SocketInv ==
  /\ \A p \in Endpoints : p \notin sockets => inbox[p] = <<>>
  /\ \A c \in Children : c \in sockets => Started(c)
  /\ \A m \in Mail(Client) : Started(m.from)
  /\ server # Main => Started(server)

(* Stop and wait: one datagram, or one forked child, at a time.  When rcopy *)
(* times out there is none, so that its next PDU is the only one again.     *)
OneAtATime ==
  \E p \in Endpoints : \A q \in Endpoints :
    Active(q) => q = p /\ Len(inbox[q]) <= 1

AskingInv ==
  rState \in {"start", "filename"} =>
    /\ current = -1
    /\ rr = 0
    /\ OneAtATime
    /\ rState = "start" \/ Client \in due => \A p \in Endpoints : ~Active(p)
    /\ rState = "start" => Client \notin due

(* The answers q on their way to rcopy: RRs and SREJs of child c, each for  *)
(* a number of first .. last, in an order in which the numbers never        *)
(* decrease, and no SREJ for a number that top does not exceed.             *)
Answer(m, c, first, last, top) ==
  /\ m.from = c
  /\ m.ok => /\ m.flag \in {RR_FLAG, SREJ_FLAG}
             /\ m.body \in first .. last
             /\ m.flag = SREJ_FLAG => m.body < top

InOrder(q, c, first, last, top) ==
  /\ \A i \in 1 .. Len(q) : Answer(q[i], c, first, last, top)
  /\ \A i, j \in 1 .. Len(q) :
       i < j /\ q[i].ok /\ q[j].ok => q[i].body <= q[j].body

(* The ring of rcopy holds the last WindowSize packets it sent.             *)
HoldsLatest ==
  \A k \in 0 .. (offset - 1) :
    offset <= k + WindowSize => getEntry(ring, WindowSize, k) = DataPdu(k, k)

SendingInv ==
  rState \in {"open"} \cup RcopyPolls =>
    /\ server # Main
    /\ \A p \in Endpoints : Active(p) => p \in {Client, server}
    /\ InOrder(inbox[Client], server, rr, expected[server], current)
    /\ HoldsLatest
    /\ rState = "openPoll" => rr <= current
    /\ rState = "closedPoll" => ~isWindowOpen(current, upper)

(* The highest number that was ever sent to child c, the filename PDU's 0   *)
(* included.                                                                *)
Sent(c) == IF c = server /\ 0 < current THEN current ELSE 0

WindowInv ==
  /\ rState \notin {"start", "done", "killed"} => upper = rr + WindowSize
  /\ current < rr + WindowSize
  /\ server # Main => rr <= expected[server]
  /\ \A c \in Children :
       /\ highest[c] <= Sent(c)
       /\ \A m \in Mail(c) : m.ok => m.seq <= Sent(c)
       /\ sState[c] = "flush" => 0 < highest[c]

(* Inductive under IInv and RInv, on a local network.                       *)
LInv ==
  /\ SocketInv
  /\ AskingInv
  /\ SendingInv
  /\ WindowInv
=============================================================================
