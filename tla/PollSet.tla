------------------------------ MODULE PollSet ------------------------------
(***************************************************************************)
(* pollLib.c: the poll set of one process, an array with an entry per      *)
(* descriptor that grows when a descriptor does not fit, and poll() over   *)
(* its first maxFileDescriptor entries.  Entries that are not in use are   *)
(* zeroed; for poll() such an entry asks for no event of descriptor 0, the *)
(* standard input, and a hangup is reported even if nobody asks.           *)
(***************************************************************************)
EXTENDS Integers

CONSTANTS
  Descriptors,     \* the descriptors the process may watch
  POLL_SET_SIZE    \* 10 in the code

ASSUME PollAssumption ==
  /\ Descriptors \in SUBSET Nat
  /\ POLL_SET_SIZE \in Nat \ {0}

VARIABLES
  pollFileDescriptors,   \* [fd, events]; events: POLLIN or not
  maxFileDescriptor,     \* one more than the highest descriptor ever added
  currentPollSetSize,    \* entries allocated; 0 before setupPollSet
  readable,              \* descriptors with something to read
  hungUp,                \* descriptors whose other end is closed
  returned               \* what pollCall returned, until the caller is done

pollVars == <<pollFileDescriptors, maxFileDescriptor, currentPollSetSize,
              readable, hungUp, returned>>

STDIN == 0
NOT_CALLED == -2
TIMEOUT == -1

Unused == [fd |-> STDIN, events |-> FALSE]
Watching(s) == [fd |-> s, events |-> TRUE]

Watched == {s \in DOMAIN pollFileDescriptors : pollFileDescriptors[s].events}

Init ==
  /\ pollFileDescriptors = [i \in 0 .. -1 |-> Unused]
  /\ maxFileDescriptor = 0
  /\ currentPollSetSize = 0
  /\ readable = {}
  /\ hungUp = {}
  /\ returned = NOT_CALLED
-----------------------------------------------------------------------------
(* Each process calls it once and first (onStart). *)
setupPollSet ==
  /\ currentPollSetSize = 0
  /\ currentPollSetSize' = POLL_SET_SIZE
  /\ pollFileDescriptors' = [i \in 0 .. (POLL_SET_SIZE - 1) |-> Unused]
  /\ UNCHANGED <<maxFileDescriptor, readable, hungUp, returned>>

(* Between calls of pollCall. *)
Free == currentPollSetSize # 0 /\ returned = NOT_CALLED

(* Mutant: no entry for the descriptor itself. *)
newSetSizeShort(s) == s

newSetSize(s) == s + POLL_SET_SIZE

(* Mutant: poll() does not get as far as the new descriptor. *)
raisedShort(m, s) == IF s >= m THEN s ELSE m

raised(m, s) == IF s + 1 >= m THEN s + 1 ELSE m

(* The array with room for size entries, the new ones zeroed.  (The check   *)
(* for a set that gets smaller never fails: size is beyond s, and that not  *)
(* below the old size.)                                                     *)
growPollSet(size) ==
  [i \in 0 .. (size - 1) |->
     IF i < currentPollSetSize THEN pollFileDescriptors[i] ELSE Unused]

(* growPollSet if s does not fit. *)
addToPollSet(s) ==
  LET size == IF s >= currentPollSetSize THEN newSetSize(s) ELSE currentPollSetSize
  IN  /\ Free
      /\ currentPollSetSize' = size
      /\ maxFileDescriptor' = raised(maxFileDescriptor, s)
      /\ pollFileDescriptors' = [growPollSet(size) EXCEPT ![s] = Watching(s)]
      /\ UNCHANGED <<readable, hungUp, returned>>

(* maxFileDescriptor stays. *)
removeFromPollSet(s) ==
  /\ Free
  /\ s \in Watched
  /\ pollFileDescriptors' = [pollFileDescriptors EXCEPT ![s] = Unused]
  /\ UNCHANGED <<maxFileDescriptor, currentPollSetSize, readable, hungUp, returned>>

(* The entries poll() marks: what was asked for, and hangups. *)
Marked ==
  {i \in 0 .. (maxFileDescriptor - 1) :
     LET e == pollFileDescriptors[i] IN
       e.fd \in hungUp \/ (e.events /\ e.fd \in readable)}

(* With a timeout of 0 or 1000: the index of the first marked entry, or -1. *)
pollCall ==
  /\ Free
  /\ \/ /\ Marked = {}
        /\ returned' = TIMEOUT
     \/ \E i \in Marked :
          /\ \A j \in Marked : i <= j
          /\ returned' = i
  /\ UNCHANGED <<pollFileDescriptors, maxFileDescriptor, currentPollSetSize,
                 readable, hungUp>>

(* The caller deals with a timeout; after any other answer it receives, on  *)
(* a socket of its own that it has put into the set, without a look at what *)
(* was returned.  (In rcopy and in a child there is just one such socket.)  *)
(* If there is nothing to receive it blocks in recvfrom, which has no       *)
(* timeout, until something arrives.                                        *)
Receive ==
  /\ \/ returned = TIMEOUT /\ readable' = readable
     \/ /\ returned \notin {NOT_CALLED, TIMEOUT}
        /\ \E s \in Watched \cap readable : readable' \in {readable, readable \ {s}}
  /\ returned' = NOT_CALLED
  /\ UNCHANGED <<pollFileDescriptors, maxFileDescriptor, currentPollSetSize, hungUp>>

Arrives(s) ==
  /\ readable' = readable \cup {s}
  /\ UNCHANGED <<pollFileDescriptors, maxFileDescriptor, currentPollSetSize,
                 hungUp, returned>>

StdinHangsUp ==
  /\ hungUp' = {STDIN}
  /\ UNCHANGED <<pollFileDescriptors, maxFileDescriptor, currentPollSetSize,
                 readable, returned>>

Next ==
  \/ setupPollSet
  \/ \E s \in Descriptors : addToPollSet(s) \/ removeFromPollSet(s) \/ Arrives(s)
  \/ pollCall
  \/ Receive
  \/ StdinHangsUp

Spec == Init /\ [][Next]_pollVars
-----------------------------------------------------------------------------
(* The array always has all the entries poll() looks at, every watched      *)
(* descriptor is among them at its own index, and an entry that is not in   *)
(* use never asks for anything, after any sequence of adding, growing and   *)
(* removing.                                                                *)
SetInv ==
  /\ currentPollSetSize \in Nat
  /\ maxFileDescriptor \in 0 .. currentPollSetSize
  /\ DOMAIN pollFileDescriptors = 0 .. (currentPollSetSize - 1)
  /\ \A i \in 0 .. (currentPollSetSize - 1) :
       \/ pollFileDescriptors[i] = Unused
       \/ pollFileDescriptors[i] = Watching(i) /\ i < maxFileDescriptor
  /\ hungUp \subseteq {STDIN}

(* pollCall keeps its promise, through adding, growing and removing: the    *)
(* lowest watched descriptor that can be read, or -1 if there is none.  Its *)
(* only other answer is 0, once the standard input has hung up, and after   *)
(* that answer, too, the caller goes on when there is something to receive. *)
PP == INSTANCE PollPromise WITH watched <- Watched, answer <- returned

HangupAnswer ==
  /\ hungUp # {}
  /\ returned = NOT_CALLED
  /\ returned' = STDIN
  /\ UNCHANGED <<Watched, readable>>

KeepsPromise == PP!Init /\ [][PP!Next \/ HangupAnswer]_(PP!promiseVars)

(* What pollCall returns is a socket its caller can receive from (the       *)
(* callers only test for -1 and go on to recvfrom).                         *)
ReturnsReadySocket ==
  returned \notin {NOT_CALLED, TIMEOUT} => returned \in Watched \cap readable
=============================================================================
