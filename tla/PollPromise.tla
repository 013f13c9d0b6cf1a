---------------------------- MODULE PollPromise ----------------------------
(***************************************************************************)
(* What pollLib.c promises: sockets are watched or not, and pollCall       *)
(* answers with the lowest watched one that can be read, or says that      *)
(* there is none.  PollSet implements this, but for the answer 0 once the  *)
(* other end of the standard input is closed (KeepsPromise).               *)
(***************************************************************************)
EXTENDS Integers

CONSTANT Descriptors

VARIABLES
  watched,    \* the descriptors pollCall looks at
  readable,   \* those at which something waits to be read
  answer      \* what the caller was told and has not dealt with yet

promiseVars == <<watched, readable, answer>>

NO_ANSWER == -2
NOTHING_READY == -1

Init ==
  /\ watched = {}
  /\ readable = {}
  /\ answer = NO_ANSWER

Watch ==
  /\ answer = NO_ANSWER
  /\ \E s \in Descriptors : watched' = watched \cup {s}
  /\ UNCHANGED <<readable, answer>>

Unwatch ==
  /\ answer = NO_ANSWER
  /\ \E s \in watched : watched' = watched \ {s}
  /\ UNCHANGED <<readable, answer>>

Arrive ==
  /\ \E s \in Descriptors : readable' = readable \cup {s}
  /\ UNCHANGED <<watched, answer>>

Answer ==
  /\ answer = NO_ANSWER
  /\ \/ /\ watched \cap readable = {}
        /\ answer' = NOTHING_READY
     \/ \E s \in watched \cap readable :
          /\ \A t \in watched \cap readable : s <= t
          /\ answer' = s
  /\ UNCHANGED <<watched, readable>>

(* The caller makes use of the answer: it reads from a socket it watches,   *)
(* though not necessarily the one it was told of, nor all there is to read. *)
Take ==
  /\ \/ answer = NOTHING_READY /\ readable' = readable
     \/ /\ answer \notin {NO_ANSWER, NOTHING_READY}
        /\ \E s \in watched \cap readable : readable' \in {readable, readable \ {s}}
  /\ answer' = NO_ANSWER
  /\ UNCHANGED watched

Next == Watch \/ Unwatch \/ Arrive \/ Answer \/ Take

Spec == Init /\ [][Next]_promiseVars
=============================================================================
