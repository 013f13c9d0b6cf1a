---------------------------- MODULE ProcessTable ----------------------------
(***************************************************************************)
(* server.c: the main process, which forks a child for every intact        *)
(* datagram, and its handler of SIGCHLD, which runs in the middle of       *)
(* whatever the main process is doing.  What a child does is Server's; here *)
(* it runs and ends.  Child processes are the slots the system allows the  *)
(* server.  SIGCHLD is not queued: one that is pending stands for any      *)
(* number of children.                                                     *)
(***************************************************************************)
EXTENDS Integers

CONSTANTS
  Slots,           \* processes the system lets the server have at a time
  MaxQueued        \* bound on the receive queue of the well-known socket

ASSUME TableAssumption == MaxQueued \in Nat

VARIABLES
  main,            \* "recv" in safeRecvfrom, "fork" about to fork, or "down"
  inHandler,       \* the main process is in handleZombies
  pending,         \* a SIGCHLD of the main process is pending
  child,           \* what is in each slot
  queued           \* datagrams in the queue of the well-known socket

tableVars == <<main, inHandler, pending, child, queued>>

MainStates == {"recv", "fork", "down"}
SlotStates == {"unused", "running", "zombie"}

InSlot(state) == {p \in Slots : child[p] = state}

Init ==
  /\ main = "recv"
  /\ inHandler = FALSE
  /\ pending = FALSE
  /\ child = [p \in Slots |-> "unused"]
  /\ queued = 0
-----------------------------------------------------------------------------
(* The socket is open as long as a process has it: fork() copies it, and a  *)
(* child never closes it.                                                   *)
Request ==
  /\ main # "down" \/ InSlot("running") # {}
  /\ queued < MaxQueued
  /\ queued' = queued + 1
  /\ UNCHANGED <<main, inHandler, pending, child>>

(* The call is restarted if the handler interrupts it, as signal() sets     *)
(* SA_RESTART.  A corrupted datagram is dropped.                            *)
Receive ==
  /\ main = "recv" /\ ~inHandler
  /\ queued > 0
  /\ queued' = queued - 1
  /\ main' \in {"recv", "fork"}
  /\ UNCHANGED <<inHandler, pending, child>>

Fork ==
  /\ main = "fork" /\ ~inHandler
  /\ \E p \in InSlot("unused") : child' = [child EXCEPT ![p] = "running"]
  /\ main' = "recv"
  /\ UNCHANGED <<inHandler, pending, queued>>

(* exit(-1), without a handler from here on: init takes over the children. *)
ForkFails ==
  /\ main = "fork" /\ ~inHandler
  /\ InSlot("unused") = {}
  /\ main' = "down"
  /\ child' = [p \in Slots |-> IF child[p] = "zombie" THEN "unused" ELSE child[p]]
  /\ pending' = FALSE
  /\ UNCHANGED <<inHandler, queued>>

(* A child returns from processClient, crashes or is killed. *)
Exit(p) ==
  /\ child[p] = "running"
  /\ IF main = "down"
     THEN child' = [child EXCEPT ![p] = "unused"] /\ UNCHANGED pending
     ELSE child' = [child EXCEPT ![p] = "zombie"] /\ pending' = TRUE
  /\ UNCHANGED <<main, inHandler, queued>>

(* SIGCHLD is blocked while its handler runs. *)
Deliver ==
  /\ pending /\ ~inHandler /\ main # "down"
  /\ pending' = FALSE
  /\ inHandler' = TRUE
  /\ UNCHANGED <<main, child, queued>>

(* Mutant: if instead of while. *)
ReapOnce ==
  /\ inHandler
  /\ \E p \in InSlot("zombie") : child' = [child EXCEPT ![p] = "unused"]
  /\ inHandler' = FALSE
  /\ UNCHANGED <<main, pending, queued>>

(* waitpid(-1, &stat, WNOHANG) > 0, for any of the zombies. *)
Reap ==
  /\ inHandler
  /\ \E p \in InSlot("zombie") : child' = [child EXCEPT ![p] = "unused"]
  /\ UNCHANGED <<main, inHandler, pending, queued>>

(* Mutant: the loop only ends on 0, not on the -1 of no child at all. *)
HandlerReturnsOnZero ==
  /\ inHandler
  /\ InSlot("zombie") = {} /\ InSlot("running") # {}
  /\ inHandler' = FALSE
  /\ UNCHANGED <<main, pending, child, queued>>

HandlerReturns ==
  /\ inHandler
  /\ InSlot("zombie") = {}
  /\ inHandler' = FALSE
  /\ UNCHANGED <<main, pending, child, queued>>

Handler == Deliver \/ Reap \/ HandlerReturns

Next ==
  \/ Request
  \/ Receive \/ Fork \/ ForkFails
  \/ Handler
  \/ \E p \in Slots : Exit(p)

(* The kernel runs the main process and delivers its signals, and a child   *)
(* ends (Termination of Srej).                                              *)
Spec ==
  /\ Init /\ [][Next]_tableVars
  /\ WF_tableVars(Receive) /\ WF_tableVars(Fork \/ ForkFails)
  /\ WF_tableVars(Handler)
  /\ \A p \in Slots : WF_tableVars(Exit(p))
-----------------------------------------------------------------------------
(* No zombie is overlooked: signals merge, and a child may end between the  *)
(* last waitpid() of the handler and its return, but as long as there is a  *)
(* zombie, the handler is running or will run again.                        *)
ZombieNoticed ==
  /\ main \in MainStates
  /\ child \in [Slots -> SlotStates]
  /\ inHandler \in BOOLEAN /\ pending \in BOOLEAN
  /\ queued \in 0 .. MaxQueued
  /\ main = "down" => ~inHandler
  /\ InSlot("zombie") # {} => main # "down" /\ (pending \/ inHandler)

(* The main process ends only if all processes it may have are copying, or  *)
(* one ended this moment; never because of children that ended before.      *)
DiesOnlyWhenFull ==
  [][main # "down" /\ main' = "down" =>
       InSlot("running") = Slots \/ pending]_tableVars

(* A slot is given back once its child has ended, whatever the main process *)
(* does meanwhile, and also if it is gone.                                  *)
SlotsComeBack == \A p \in Slots : child[p] # "unused" ~> child[p] = "unused"

(* A datagram is not left in the queue: signals interrupt the main process, *)
(* but they do not keep it from receiving.                                  *)
RequestsTaken == queued = MaxQueued ~> queued < MaxQueued \/ main = "down"
=============================================================================
