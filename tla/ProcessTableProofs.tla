------------------------- MODULE ProcessTableProofs -------------------------
(***************************************************************************)
(* Proofs about ProcessTable, for any number of processes.                 *)
(***************************************************************************)
EXTENDS ProcessTable, TLAPS

LEMMA NoticedInit == Init => ZombieNoticed
<1> SUFFICES ASSUME Init
             PROVE  ZombieNoticed
  OBVIOUS
<1>1. InSlot("zombie") = {}
  BY DEF Init, InSlot
<1>2. child \in [Slots -> SlotStates]
  BY DEF Init, SlotStates
<1>3. queued \in 0 .. MaxQueued
  BY TableAssumption DEF Init
<1>4. QED
  BY <1>1, <1>2, <1>3 DEF Init, ZombieNoticed, MainStates

(* The steps of the main process outside the handler. *)
LEMMA MainStep ==
  ASSUME ZombieNoticed, Request \/ Receive \/ Fork \/ ForkFails
  PROVE  ZombieNoticed'
<1> USE TableAssumption DEF ZombieNoticed, InSlot, MainStates, SlotStates
<1>1. CASE Request
  BY <1>1 DEF Request
<1>2. CASE Receive
  BY <1>2 DEF Receive
<1>3. CASE Fork
  BY <1>3 DEF Fork
<1>4. CASE ForkFails
  BY <1>4 DEF ForkFails
<1>5. QED
  BY <1>1, <1>2, <1>3, <1>4

(* The handler only stops looking when there is no zombie. *)
LEMMA HandlerStep ==
  ASSUME ZombieNoticed, Handler
  PROVE  ZombieNoticed'
<1> USE DEF ZombieNoticed, InSlot, MainStates, SlotStates
<1>1. CASE Deliver
  BY <1>1 DEF Deliver
<1>2. CASE Reap
  BY <1>2 DEF Reap
<1>3. CASE HandlerReturns
  BY <1>3 DEF HandlerReturns
<1>4. QED
  BY <1>1, <1>2, <1>3 DEF Handler

(* A child that ends raises the signal, also while the handler runs. *)
LEMMA ExitStep ==
  ASSUME ZombieNoticed, NEW p \in Slots, Exit(p)
  PROVE  ZombieNoticed'
<1> USE DEF ZombieNoticed, InSlot, MainStates, SlotStates
<1>1. CASE main = "down"
  BY <1>1 DEF Exit
<1>2. CASE main # "down"
  BY <1>2 DEF Exit
<1>3. QED
  BY <1>1, <1>2

(* As long as there is a zombie, handleZombies is running or will run again *)
(* (server.c:146), however many children the server may have.               *)
THEOREM ZombieNoticedHolds == Spec => []ZombieNoticed
<1>1. ASSUME ZombieNoticed, [Next]_tableVars
      PROVE  ZombieNoticed'
  <2>1. CASE UNCHANGED tableVars
    BY <1>1, <2>1 DEF tableVars, ZombieNoticed, InSlot
  <2>2. CASE Next
    BY <1>1, <2>2, MainStep, HandlerStep, ExitStep DEF Next
  <2>3. QED
    BY <1>1, <2>1, <2>2
<1>2. QED
  BY <1>1, NoticedInit, PTL DEF Spec

(* fork() fails only if every process the server may have is copying, or    *)
(* one of them ended this moment (server.c:76).                             *)
THEOREM DiesOnlyWhenFullHolds == Spec => DiesOnlyWhenFull
<1>1. ASSUME ZombieNoticed, Next, main # "down", main' = "down"
      PROVE  InSlot("running") = Slots \/ pending
  <2>1. ForkFails
    BY <1>1 DEF Next, Request, Receive, Fork, Handler, Deliver, Reap,
                HandlerReturns, Exit
  <2>2. CASE InSlot("zombie") # {}
    BY <1>1, <2>1, <2>2 DEF ForkFails, ZombieNoticed
  <2>3. CASE InSlot("zombie") = {}
    BY <1>1, <2>1, <2>3 DEF ForkFails, ZombieNoticed, InSlot, SlotStates
  <2>4. QED
    BY <2>2, <2>3
<1>2. ZombieNoticed /\ [Next]_tableVars
        => [main # "down" /\ main' = "down" =>
              InSlot("running") = Slots \/ pending]_tableVars
  BY <1>1
<1>3. QED
  BY <1>2, ZombieNoticedHolds, PTL DEF Spec, DiesOnlyWhenFull
=============================================================================
