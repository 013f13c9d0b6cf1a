------------------------------- MODULE Params -------------------------------
(***************************************************************************)
(* What one run of rcopy is given: the file and the window-size argument,  *)
(* and the retry limit that rcopy and the server both have compiled in.    *)
(***************************************************************************)
EXTENDS Integers

CONSTANTS
  NumBlocks,    \* blocks of bufferSize bytes (the last may be shorter) to copy
  WindowSize,   \* the window-size argument
  MaxTries      \* 10 in the code: polls of one second before giving up

ASSUME ParamsAssumption ==
  /\ NumBlocks \in Nat
  /\ WindowSize \in Nat \ {0}
  /\ MaxTries \in Nat \ {0}
-----------------------------------------------------------------------------
(* onDataPoll of both programs: the count after one more timeout, and       *)
(* whether n timeouts are enough to take the other side for dead.           *)
(* Mutant: the timeout is not counted. *)
Uncounted(n) == n

Counted(n) == n + 1

(* Mutant: one timeout more before giving up. *)
GivesUpLate(n) == n > MaxTries

GivesUp(n) == n > MaxTries - 1
=============================================================================
