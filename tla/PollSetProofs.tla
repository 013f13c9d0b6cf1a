--------------------------- MODULE PollSetProofs ---------------------------
(***************************************************************************)
(* Proofs about PollSet, for any set of descriptors and any initial size.  *)
(***************************************************************************)
EXTENDS PollSet, TLAPS

(* poll() only looks at entries that exist, and every watched descriptor is *)
(* one of them.                                                             *)
LEMMA EntriesExist ==
  ASSUME SetInv
  PROVE  /\ 0 .. (maxFileDescriptor - 1) \subseteq DOMAIN pollFileDescriptors
         /\ Watched \subseteq 0 .. (maxFileDescriptor - 1)
         /\ \A s \in Watched : pollFileDescriptors[s] = Watching(s)
BY DEF SetInv, Watched, Unused, Watching

(* Adding a descriptor adds it to what is watched, and nothing else.        *)
LEMMA AddOK ==
  ASSUME SetInv, NEW s \in Descriptors, addToPollSet(s)
  PROVE  SetInv' /\ Watched' = Watched \cup {s}
<1> DEFINE size == IF s >= currentPollSetSize THEN newSetSize(s) ELSE currentPollSetSize
<1>1. /\ s \in Nat
      /\ size \in Nat
      /\ s < size
      /\ currentPollSetSize <= size
  BY PollAssumption DEF SetInv, newSetSize
<1>2. /\ currentPollSetSize' = size
      /\ DOMAIN pollFileDescriptors' = 0 .. (size - 1)
      /\ \A i \in 0 .. (size - 1) : pollFileDescriptors'[i] =
           IF i = s THEN Watching(s)
           ELSE IF i < currentPollSetSize THEN pollFileDescriptors[i] ELSE Unused
      /\ hungUp' = hungUp
  <2> DEFINE grown == growPollSet(size)
  <2>1. /\ currentPollSetSize' = size /\ hungUp' = hungUp
        /\ pollFileDescriptors' = [grown EXCEPT ![s] = Watching(s)]
    BY DEF addToPollSet
  <2> HIDE DEF size
  <2>2. grown = [i \in 0 .. (size - 1) |->
                   IF i < currentPollSetSize THEN pollFileDescriptors[i] ELSE Unused]
    BY DEF growPollSet
  <2> HIDE DEF grown
  <2>3. QED
    BY <2>1, <2>2
<1>3. /\ maxFileDescriptor' \in 0 .. size
      /\ s < maxFileDescriptor'
      /\ maxFileDescriptor <= maxFileDescriptor'
  BY <1>1 DEF addToPollSet, raised, SetInv
<1> HIDE DEF size
<1>4. ASSUME NEW i \in 0 .. (size - 1)
      PROVE  \/ pollFileDescriptors'[i] = Unused
             \/ pollFileDescriptors'[i] = Watching(i) /\ i < maxFileDescriptor'
  <2>1. CASE i = s
    BY <1>2, <1>3, <2>1
  <2>2. CASE i # s /\ i < currentPollSetSize
    <3>1. i \in 0 .. (currentPollSetSize - 1)
      BY <1>1, <2>2 DEF SetInv
    <3>2. QED
      BY <1>1, <1>2, <1>3, <2>2, <3>1 DEF SetInv
  <2>3. CASE i # s /\ ~(i < currentPollSetSize)
    BY <1>2, <2>3
  <2>4. QED
    BY <2>1, <2>2, <2>3
<1>5. SetInv'
  BY <1>1, <1>2, <1>3, <1>4 DEF SetInv
<1>6. Watched' = Watched \cup {s}
  <2>1. ASSUME NEW i \in 0 .. (size - 1)
        PROVE  pollFileDescriptors'[i].events <=> i = s \/ i \in Watched
    <3>1. CASE i = s
      BY <1>2, <3>1 DEF Watching
    <3>2. CASE i # s /\ i < currentPollSetSize
      BY <1>1, <1>2, <3>2 DEF SetInv, Watched
    <3>3. CASE i # s /\ ~(i < currentPollSetSize)
      BY <1>1, <1>2, <3>3 DEF SetInv, Watched, Unused
    <3>4. QED
      BY <3>1, <3>2, <3>3
  <2>2. Watched \subseteq 0 .. (size - 1)
    BY <1>1 DEF SetInv, Watched
  <2>3. Watched' = {i \in 0 .. (size - 1) : pollFileDescriptors'[i].events}
    BY <1>2 DEF Watched
  <2>4. ASSUME NEW i
        PROVE  i \in Watched' <=> i \in Watched \cup {s}
    <3>1. CASE i \in 0 .. (size - 1)
      BY <2>1, <2>3, <3>1
    <3>2. CASE i \notin 0 .. (size - 1)
      <4>1. i \notin Watched'
        BY <2>3, <3>2
      <4>2. i \notin Watched
        BY <2>2, <3>2
      <4>3. s \in 0 .. (size - 1)
        BY <1>1
      <4>4. i # s
        BY <3>2, <4>3
      <4>5. QED
        BY <4>1, <4>2, <4>4
    <3>3. QED
      BY <3>1, <3>2
  <2>5. QED
    BY <2>4
<1>7. QED
  BY <1>5, <1>6

(* Removing a descriptor takes it, and nothing else, out of what is watched. *)
LEMMA RemoveOK ==
  ASSUME SetInv, NEW s \in Descriptors, removeFromPollSet(s)
  PROVE  SetInv' /\ Watched' = Watched \ {s} /\ s \in Watched
<1>1. /\ DOMAIN pollFileDescriptors' = DOMAIN pollFileDescriptors
      /\ \A i \in DOMAIN pollFileDescriptors : pollFileDescriptors'[i] =
           IF i = s THEN Unused ELSE pollFileDescriptors[i]
      /\ s \in Watched
  BY DEF removeFromPollSet
<1>2. SetInv'
  BY <1>1 DEF removeFromPollSet, SetInv
<1>3. Watched' = Watched \ {s}
  BY <1>1 DEF Watched, Unused
<1>4. QED
  BY <1>1, <1>2, <1>3

(* setupPollSet watches nothing. *)
LEMMA SetupOK ==
  ASSUME SetInv, setupPollSet
  PROVE  SetInv' /\ Watched' = Watched
<1>1. Watched = {}
  BY DEF SetInv, setupPollSet, Watched
<1>2. Watched' = {}
  BY DEF setupPollSet, Watched, Unused
<1>3. SetInv'
  BY PollAssumption DEF setupPollSet, SetInv
<1>4. QED
  BY <1>1, <1>2, <1>3

(* With the standard input open, poll() marks just the watched descriptors  *)
(* that can be read.                                                        *)
LEMMA MarkedOK ==
  ASSUME SetInv, hungUp = {}
  PROVE  Marked = Watched \cap readable
<1>1. Marked \subseteq Watched \cap readable
  <2>1. ASSUME NEW i \in Marked
        PROVE  i \in Watched \cap readable
    <3>1. /\ i \in 0 .. (currentPollSetSize - 1)
          /\ pollFileDescriptors[i].events
          /\ pollFileDescriptors[i].fd \in readable
      BY DEF Marked, SetInv
    <3>2. pollFileDescriptors[i] = Watching(i)
      BY <3>1 DEF SetInv, Unused
    <3>3. QED
      BY <3>1, <3>2 DEF Watched, Watching, SetInv
  <2>2. QED
    BY <2>1
<1>2. ASSUME NEW i \in Watched, i \in readable
      PROVE  i \in Marked
  <2>1. i \in 0 .. (maxFileDescriptor - 1) /\ pollFileDescriptors[i] = Watching(i)
    BY EntriesExist
  <2>2. QED
    BY <1>2, <2>1 DEF Marked, Watching
<1>3. QED
  BY <1>1, <1>2

(* After a hangup the answer is 0, or that there is nothing to watch.       *)
LEMMA HungUpAnswer ==
  ASSUME SetInv, hungUp # {}, pollCall
  PROVE  returned' = STDIN \/ (Marked = {} /\ Watched = {})
<1>1. hungUp = {STDIN}
  BY DEF SetInv
<1>2. CASE maxFileDescriptor = 0
  BY <1>2, EntriesExist DEF Marked, pollCall
<1>3. CASE maxFileDescriptor # 0
  <2>1. 0 \in 0 .. (maxFileDescriptor - 1) /\ 0 \in 0 .. (currentPollSetSize - 1)
    BY <1>3 DEF SetInv
  <2>2. pollFileDescriptors[0].fd = STDIN
    BY <2>1 DEF SetInv, Unused, Watching, STDIN
  <2>3. 0 \in Marked
    BY <1>1, <2>1, <2>2 DEF Marked
  <2>4. \A i \in Marked : i \in Nat
    BY DEF Marked, SetInv
  <2>5. QED
    BY <2>3, <2>4 DEF pollCall, STDIN
<1>4. QED
  BY <1>2, <1>3

-----------------------------------------------------------------------------
(* The array always has room for every descriptor that was added, and       *)
(* entries not in use ask for nothing.                                      *)
THEOREM SetInvHolds == Spec => []SetInv
<1>1. Init => SetInv
  BY DEF Init, SetInv
<1>2. SetInv /\ [Next]_pollVars => SetInv'
  <2> SUFFICES ASSUME SetInv, [Next]_pollVars
               PROVE  SetInv'
    OBVIOUS
  <2>1. CASE setupPollSet
    BY <2>1, SetupOK
  <2>2. ASSUME NEW s \in Descriptors, addToPollSet(s)
        PROVE  SetInv'
    BY <2>2, AddOK
  <2>3. ASSUME NEW s \in Descriptors, removeFromPollSet(s)
        PROVE  SetInv'
    BY <2>3, RemoveOK
  <2>4. ASSUME NEW s \in Descriptors, Arrives(s)
        PROVE  SetInv'
    BY <2>4 DEF Arrives, SetInv
  <2>5. CASE pollCall \/ Receive
    BY <2>5 DEF pollCall, Receive, SetInv
  <2>6. CASE StdinHangsUp
    BY <2>6 DEF StdinHangsUp, SetInv
  <2>7. CASE UNCHANGED pollVars
    BY <2>7 DEF pollVars, SetInv
  <2>8. QED
    BY <2>1, <2>2, <2>3, <2>4, <2>5, <2>6, <2>7 DEF Next
<1>3. QED
  BY <1>1, <1>2, PTL DEF Spec

(* pollCall answers with the lowest watched descriptor that can be read, or *)
(* -1 if there is none, and 0 only once the standard input has hung up; the *)
(* caller, who receives on a socket of its own, does what the promise lets  *)
(* it do also after that answer.                                            *)
THEOREM KeepsPromiseHolds == Spec => KeepsPromise
<1> DEFINE Kept == PP!Next \/ HangupAnswer
<1>1. Init => PP!Init
  BY DEF Init, PP!Init, Watched, NOT_CALLED, PP!NO_ANSWER
<1>2. SetInv /\ [Next]_pollVars => [Kept]_(PP!promiseVars)
  <2> SUFFICES ASSUME SetInv, [Next]_pollVars
               PROVE  Kept \/ UNCHANGED PP!promiseVars
    OBVIOUS
  <2> USE DEF PP!promiseVars
  <2>1. CASE setupPollSet
    BY <2>1, SetupOK DEF setupPollSet
  <2>2. ASSUME NEW s \in Descriptors, addToPollSet(s)
        PROVE  Kept
    BY <2>2, AddOK
       DEF addToPollSet, Free, PP!Next, PP!Watch, PP!NO_ANSWER, NOT_CALLED
  <2>3. ASSUME NEW s \in Descriptors, removeFromPollSet(s)
        PROVE  Kept
    BY <2>3, RemoveOK
       DEF removeFromPollSet, Free, PP!Next, PP!Unwatch, PP!NO_ANSWER, NOT_CALLED
  <2>4. ASSUME NEW s \in Descriptors, Arrives(s)
        PROVE  Kept
    BY <2>4 DEF Arrives, Watched, PP!Next, PP!Arrive
  <2>5. CASE pollCall
    <3>1. Watched' = Watched /\ readable' = readable /\ returned = NOT_CALLED
      BY <2>5 DEF pollCall, Watched, Free
    <3>2. CASE hungUp = {}
      BY <2>5, <3>1, <3>2, MarkedOK
         DEF pollCall, PP!Next, PP!Answer, PP!NO_ANSWER, NOT_CALLED, PP!NOTHING_READY, TIMEOUT
    <3>3. CASE hungUp # {} /\ Marked = {} /\ Watched = {}
      BY <2>5, <3>1, <3>3
         DEF pollCall, PP!Next, PP!Answer, PP!NO_ANSWER, NOT_CALLED, PP!NOTHING_READY, TIMEOUT
    <3>4. CASE hungUp # {} /\ returned' = STDIN
      BY <3>1, <3>4 DEF HangupAnswer
    <3>5. QED
      BY <2>5, <3>2, <3>3, <3>4, HungUpAnswer
  <2>6. CASE Receive
    BY <2>6
       DEF Receive, Watched, PP!Next, PP!Take, PP!NO_ANSWER, NOT_CALLED, PP!NOTHING_READY, TIMEOUT
  <2>7. CASE StdinHangsUp
    BY <2>7 DEF StdinHangsUp, Watched
  <2>8. CASE UNCHANGED pollVars
    BY <2>8 DEF pollVars, Watched
  <2>9. QED
    BY <2>1, <2>2, <2>3, <2>4, <2>5, <2>6, <2>7, <2>8 DEF Next
<1>3. QED
  BY SetInvHolds, <1>1, <1>2, PTL DEF Spec, KeepsPromise
=============================================================================
