------------------------------ MODULE FileCopy ------------------------------
(***************************************************************************)
(* What a run of rcopy promises, with no windows, datagrams, timeouts,     *)
(* processes or descriptors in sight.  As long as nothing is wrong with    *)
(* the output file, it fills up from the front and without gaps, nothing   *)
(* is taken for acknowledged that is not in it, and the end of the file is *)
(* announced only when all of it is there.  Two things can go wrong, and   *)
(* rcopy learns of neither:                                                *)
(*   "full"        write() stored less than it was given: what is there    *)
(*                 stays there and stays without gaps, but rcopy may take  *)
(*                 more for acknowledged, and announce the end             *)
(*   "misplaced"   a filename PDU was written as packet 0 and what follows *)
(*                 it went to the wrong bytes: nothing is promised         *)
(* Giving up is always allowed.  SrejBytes implements this (Implements).   *)
(***************************************************************************)
EXTENDS Integers

CONSTANT NumBlocks

VARIABLES
  copied,    \* the blocks of the input file whose bytes are all in the output file
  acked,     \* rcopy believes that the blocks below this number are
  outcome,   \* "copying", "announced" (EOF was sent) or "gave up"
  trouble    \* "none", "full" or "misplaced"

fcVars == <<copied, acked, outcome, trouble>>

Blocks == 0 .. (NumBlocks - 1)

Init ==
  /\ copied = {}
  /\ acked = 0
  /\ outcome = "copying"
  /\ trouble = "none"

(* Some more blocks reach the output file, all of them after the blocks     *)
(* before them.  This may go on after rcopy has given up.                   *)
Store ==
  /\ trouble # "misplaced"
  /\ copied' \subseteq Blocks
  /\ copied \subseteq copied'
  /\ \A k \in copied' : 0 .. k \subseteq copied'
  /\ trouble' \in {trouble, "full"}
  /\ UNCHANGED <<acked, outcome>>

(* Something is written to the wrong place. *)
Misplace ==
  /\ copied' \subseteq Blocks
  /\ trouble' = "misplaced"
  /\ UNCHANGED <<acked, outcome>>

(* rcopy learns of blocks that are in the output file; the news may be old. *)
Acknowledge ==
  /\ outcome # "gave up"
  /\ acked' \in Nat
  /\ trouble = "none" => \A k \in Blocks : k < acked' => k \in copied
  /\ UNCHANGED <<copied, outcome, trouble>>

Announce ==
  /\ outcome = "copying"
  /\ trouble = "none" => copied = Blocks
  /\ outcome' = "announced"
  /\ UNCHANGED <<copied, acked, trouble>>

GiveUp ==
  /\ outcome = "copying"
  /\ outcome' = "gave up"
  /\ UNCHANGED <<copied, acked, trouble>>

Next == Store \/ Misplace \/ Acknowledge \/ Announce \/ GiveUp

Spec == Init /\ [][Next]_fcVars
=============================================================================
