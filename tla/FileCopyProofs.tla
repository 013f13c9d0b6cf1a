--------------------------- MODULE FileCopyProofs ---------------------------
(***************************************************************************)
(* SrejBytes implements FileCopy, for every file, window, number of        *)
(* children, size of disk and behaviour of the network.  The invariants    *)
(* IInv, BytesInv and CopyInv say that the refinement mapping meets the    *)
(* abstract guards; then every step of BytesNext is looked up in           *)
(* FileCopy's Next:                                                        *)
(*    a child writes in its place        Store                             *)
(*    a child writes, and one took the                                     *)
(*    filename PDU for packet 0          Misplace                          *)
(*    rcopy receives an RR               Acknowledge                       *)
(*    rcopy sends EOF                    Announce                          *)
(*    rcopy ends before that             GiveUp                            *)
(*    anything else                      a stuttering step                 *)
(***************************************************************************)
EXTENDS SrejBytesProofs

(* Until a filename PDU is written, a block that is filled holds itself; and *)
(* somebody is past every filled block.                                      *)
CopyInv ==
  /\ NoGaps
  /\ shifted = {} => \A k \in Blocks : file[k] # FILENAME_PAYLOAD

(* What is copied has no gaps, on a full disk neither. *)
CopyHasNoGaps ==
  shifted = {} => \A k \in CopiedBlocks : 0 .. k \subseteq CopiedBlocks

(* Later blocks begin later. *)
LEMMA BlocksInOrder ==
  ASSUME NEW a \in Nat, NEW b \in Nat, a <= b
  PROVE  BlockStart(a) <= BlockStart(b)
<1>1. /\ NumBlocks \in Nat /\ BufferSize \in Nat /\ LastSize \in Nat
  BY ParamsAssumption, BytesAssumption
<1>2. \A x, y \in Nat : x <= y => x * BufferSize <= y * BufferSize
  <2> SUFFICES ASSUME NEW x \in Nat, NEW y \in Nat, x <= y
               PROVE  x * BufferSize <= y * BufferSize
    OBVIOUS
  <2>1. PICK d \in Nat : y = x + d
    <3>1. y - x \in Nat /\ y = x + (y - x)
      OBVIOUS
    <3>2. QED
      BY <3>1
  <2>2. (x + d) * BufferSize = x * BufferSize + d * BufferSize
    BY <1>1
  <2>3. d * BufferSize \in Nat /\ x * BufferSize \in Nat
    BY <1>1
  <2>4. QED
    BY <2>1, <2>2, <2>3
<1>3. CASE b < NumBlocks
  BY <1>1, <1>2, <1>3 DEF BlockStart
<1>4. CASE NumBlocks <= a
  BY <1>1, <1>4 DEF BlockStart
<1>5. CASE a < NumBlocks /\ NumBlocks <= b
  <2>1. a * BufferSize <= (NumBlocks - 1) * BufferSize
    <3>1. NumBlocks - 1 \in Nat /\ a <= NumBlocks - 1
      BY <1>1, <1>5
    <3>2. QED
      BY <1>2, <3>1
  <2>2. a * BufferSize \in Nat /\ (NumBlocks - 1) * BufferSize \in Int
    BY <1>1
  <2>3. QED
    BY <1>1, <1>5, <2>1, <2>2 DEF BlockStart
<1>6. QED
  BY <1>1, <1>3, <1>4, <1>5

(* No two blocks share a byte, so the first byte tells which block it is.   *)
LEMMA FirstByte ==
  ASSUME NEW k \in Blocks, NEW j \in Blocks, k * BufferSize \in BytesOf(j)
  PROVE  j = k
<1>1. /\ NumBlocks \in Nat /\ k \in Nat /\ j \in Nat
      /\ k < NumBlocks /\ j < NumBlocks
      /\ BlockStart(j) = j * BufferSize /\ BlockStart(k) = k * BufferSize
      /\ BlockStart(j) \in Nat /\ BlockStart(k) \in Nat
  BY BlockStarts, ParamsAssumption DEF Blocks
<1>2. /\ BlockStart(j) <= BlockStart(k)
      /\ BlockStart(k) < BlockStart(j + 1)
      /\ BlockStart(j + 1) \in Nat
  <2>1. /\ BlockSize(j) \in Nat
        /\ BlockStart(j + 1) = BlockStart(j) + BlockSize(j)
    BY <1>1, BlockStarts
  <2>2. k * BufferSize \in (j * BufferSize) .. (j * BufferSize + BlockSize(j) - 1)
    BY DEF BytesOf
  <2>3. QED
    BY <1>1, <2>1, <2>2
<1>3. k < j + 1
  <2>1. j + 1 \in Nat /\ (j + 1 <= k => BlockStart(j + 1) <= BlockStart(k))
    BY <1>1, BlocksInOrder
  <2>2. QED
    BY <1>1, <1>2, <2>1
<1>4. ASSUME k < j
      PROVE  FALSE
  <2>1. k + 1 \in Nat /\ k + 1 <= j
    BY <1>1, <1>4
  <2>2. BlockStart(k + 1) <= BlockStart(j)
    BY <1>1, <2>1, BlocksInOrder
  <2>3. /\ BlockStart(k + 1) = BlockStart(k) + BlockSize(k)
        /\ BlockSize(k) \in Nat \ {0}
    BY <1>1, BlockStarts, BytesAssumption DEF BlockSize
  <2>4. QED
    BY <1>1, <1>2, <2>2, <2>3
<1>5. QED
  BY <1>1, <1>3, <1>4

-----------------------------------------------------------------------------
(* Until a filename PDU is written, what is copied is what was handed to    *)
(* write() for its own position and fits into the room.                     *)
LEMMA CopiedIsWritten ==
  ASSUME BytesInv, shifted = {}, NEW k \in Blocks
  PROVE  /\ k \in CopiedBlocks => file[k] = k /\ BlockStart(k) < room
         /\ file[k] = k /\ BlockStart(k + 1) <= room => k \in CopiedBlocks
<1>1. /\ k \in Nat /\ k < NumBlocks
      /\ BlockStart(k) = k * BufferSize /\ BlockStart(k) \in Nat
      /\ BlockSize(k) \in Nat \ {0}
      /\ BlockStart(k + 1) = BlockStart(k) + BlockSize(k)
      /\ room \in Nat
  BY BlockStarts, ParamsAssumption, BytesAssumption DEF Blocks, BlockSize, BytesInv
<1>2. /\ \A j \in Blocks : file[j] = j => \A p \in BytesOf(j) : bytes[p] = p
      /\ \A p \in OutputBytes : bytes[p] \notin {HOLE, OLD} =>
           /\ bytes[p] = p
           /\ \E j \in Blocks : file[j] = j /\ p \in BytesOf(j)
  BY DEF BytesInv, BlocksAreBytes
<1>3. ASSUME k \in CopiedBlocks
      PROVE  file[k] = k /\ BlockStart(k) < room
  <2>1. k * BufferSize \in (k * BufferSize) .. (k * BufferSize + BlockSize(k) - 1)
    BY <1>1
  <2>2. bytes[k * BufferSize] = k * BufferSize /\ k * BufferSize \in OutputBytes
    BY <1>3, <2>1, BytesInFile DEF CopiedBlocks
  <2>3. bytes[k * BufferSize] \notin {HOLE, OLD}
    BY <1>1, <2>2 DEF HOLE, OLD
  <2>4. PICK j \in Blocks : file[j] = j /\ k * BufferSize \in BytesOf(j)
    BY <1>2, <2>2, <2>3
  <2>5. j = k
    BY <2>4, FirstByte
  <2>6. QED
    BY <1>1, <2>4, <2>5 DEF BytesOf
<1>4. ASSUME file[k] = k, BlockStart(k + 1) <= room
      PROVE  k \in CopiedBlocks
  <2>1. \A p \in (k * BufferSize) .. (k * BufferSize + BlockSize(k) - 1) : p \in BytesOf(k)
    BY <1>1, <1>4 DEF BytesOf
  <2>2. QED
    BY <1>2, <1>4, <2>1 DEF CopiedBlocks
<1>5. QED
  BY <1>3, <1>4

(* What the processes take to be in the file is there, as long as nothing   *)
(* went wrong with a write().                                               *)
LEMMA LandedIsCopied ==
  ASSUME IInv, BytesInv, CopyInv, Trouble = "none",
         NEW n \in Nat, Landed(file, n), NEW k \in Blocks, k < n
  PROVE  k \in CopiedBlocks
<1>1. /\ shifted = {}
      /\ \A c \in Children : ~(BlockStart(expected[c]) > room)
  BY DEF Trouble, CutShort
<1>2. Filled(file, k)
  BY DEF Landed, Blocks
<1>3. file[k] = k
  BY <1>1, <1>2 DEF Filled, CopyInv
<1>4. PICK c \in Children : k < expected[c]
  BY <1>2 DEF CopyInv, NoGaps
<1>5. /\ expected[c] \in Nat /\ k + 1 \in Nat /\ k + 1 <= expected[c]
  BY <1>4, ParamsAssumption DEF IInv, ServerInv, ChildInv, Blocks
<1>6. BlockStart(k + 1) <= BlockStart(expected[c])
  BY <1>5, BlocksInOrder
<1>7. /\ room \in Nat /\ BlockStart(k + 1) \in Nat /\ BlockStart(expected[c]) \in Nat
  BY <1>5, BlockStarts DEF BytesInv
<1>8. BlockStart(k + 1) <= room
  BY <1>1, <1>6, <1>7
<1>9. QED
  BY <1>1, <1>3, <1>8, CopiedIsWritten

(* Nobody is past a block without being past all before it.                 *)
LEMMA NoGapsInCopy ==
  ASSUME IInv, BytesInv, CopyInv
  PROVE  CopyHasNoGaps
<1> SUFFICES ASSUME shifted = {}, NEW k \in CopiedBlocks, NEW j \in 0 .. k
             PROVE  j \in CopiedBlocks
  BY DEF CopyHasNoGaps
<1>1. k \in Blocks /\ j \in Blocks /\ k \in Nat /\ j \in Nat
  BY ParamsAssumption DEF CopiedBlocks, Blocks
<1>2. CASE j = k
  BY <1>2
<1>3. CASE j # k
  <2>1. file[k] = k /\ BlockStart(k) < room
    BY <1>1, CopiedIsWritten
  <2>2. PICK c \in Children : k < expected[c]
    BY <1>1, <2>1 DEF CopyInv, NoGaps, Filled
  <2>3. Landed(file, expected[c]) /\ expected[c] \in Nat
    BY ParamsAssumption DEF IInv, ServerInv, ChildInv
  <2>4. Filled(file, j)
    BY <1>1, <2>2, <2>3 DEF Landed, Blocks
  <2>5. file[j] = j
    BY <1>1, <2>4 DEF Filled, CopyInv
  <2>6. j + 1 \in Nat /\ j + 1 <= k
    BY <1>1, <1>3
  <2>7. BlockStart(j + 1) <= BlockStart(k)
    BY <1>1, <2>6, BlocksInOrder
  <2>8. BlockStart(j + 1) \in Nat /\ BlockStart(k) \in Nat /\ room \in Nat
    BY <1>1, <2>6, BlockStarts DEF BytesInv
  <2>9. BlockStart(j + 1) <= room
    BY <2>1, <2>7, <2>8
  <2>10. QED
    BY <1>1, <2>5, <2>9, CopiedIsWritten
<1>4. QED
  BY <1>2, <1>3

-----------------------------------------------------------------------------
(* A child that gets further does nothing to rcopy. *)
LEMMA OnlyChildrenWrite ==
  ASSUME [Next]_vars, expected' # expected
  PROVE  UNCHANGED rcopyVars
<1>1. ClientStep => expected' = expected
  BY DEF ClientStep, serverVars
<1>2. MainStep => expected' = expected
  BY DEF MainStep, ServerFork, ServerIgnore, serverVars
<1>3. Kill => expected' = expected
  BY DEF Kill, ChildKilled, serverVars
<1>4. Network \/ Tick \/ Idle \/ UNCHANGED vars => expected' = expected
  BY DEF Network, Tick, Idle, vars, serverVars
<1>5. QED
  BY <1>1, <1>2, <1>3, <1>4 DEF Next, ChildStep

(* No child ever goes back. *)
LEMMA ExpectedGrows ==
  ASSUME IInv, [Next]_vars, NEW c \in Children
  PROVE  /\ expected[c] \in Nat /\ expected'[c] \in Nat
         /\ expected[c] <= expected'[c]
<1>1. expected[c] \in Nat /\ expected = [d \in Children |-> expected[d]] /\ ServerInv
  BY ParamsAssumption DEF IInv, ServerInv, ChildInv
<1>2. CASE expected'[c] = expected[c]
  BY <1>1, <1>2
<1>3. CASE expected'[c] # expected[c]
  <2>1. ChildNext(c)
    BY <1>1, <1>3, WriterSteps
  <2>2. PICK n \in Nat : expected' = [expected EXCEPT ![c] = expected[c] + n]
    BY <1>3, <2>1, WrittenByChild
  <2>3. expected'[c] = expected[c] + n
    BY <1>1, <2>2
  <2>4. QED
    BY <1>1, <2>3
<1>4. QED
  BY <1>2, <1>3

(* CopyInv holds initially and is kept. *)
LEMMA CopyInvInit == BytesInit => CopyInv
<1> SUFFICES ASSUME BytesInit PROVE CopyInv
  OBVIOUS
<1>1. \A k \in Blocks : file[k] \in {OLD, HOLE}
  BY ParamsAssumption, ServerAssumption DEF BytesInit, Init, ServerInit, Blocks, Positions
<1>2. QED
  BY <1>1, ParamsAssumption DEF CopyInv, NoGaps, Filled, Blocks, OLD, HOLE, FILENAME_PAYLOAD

LEMMA CopyInvStep ==
  ASSUME IInv, BytesInv, CopyInv, [BytesNext]_<<vars, bytesVars>>
  PROVE  CopyInv'
<1>1. [Next]_vars /\ ServerInv
  BY DEF BytesNext, IInv
<1>2. ASSUME NEW c \in Children, ChildWrites(c)
      PROVE  CopyInv'
  <2>1. expected'[c] # expected[c] /\ ChildNext(c) /\ shifted \subseteq shifted'
    BY <1>1, <1>2, WriterSteps DEF ChildWrites
  <2>2. ASSUME NEW k \in Blocks, Filled(file', k)
        PROVE  \E d \in Children : k < expected'[d]
    <3>1. CASE Filled(file, k)
      <4>1. PICK d \in Children : k < expected[d]
        BY <3>1 DEF CopyInv, NoGaps
      <4>2. expected[d] <= expected'[d] /\ expected[d] \in Nat /\ expected'[d] \in Nat
        BY <1>1, ExpectedGrows
      <4>3. k \in Int
        BY DEF Blocks
      <4>4. QED
        BY <4>1, <4>2, <4>3
    <3>2. CASE ~Filled(file, k)
      <4>1. file'[k] # file[k]
        BY <2>2, <3>2 DEF Filled
      <4>2. PICK e \in Nat, n \in Nat :
              /\ expected[c] = e
              /\ expected' = [expected EXCEPT ![c] = e + n]
              /\ \A j \in Positions \ (e .. (e + n - 1)) : file'[j] = file[j]
        BY <2>1, WrittenByChild
      <4>3. k \in Positions /\ k \in Int
        BY ParamsAssumption, ServerAssumption DEF Blocks, Positions
      <4>4. k \in e .. (e + n - 1)
        BY <4>1, <4>2, <4>3
      <4>5. expected'[c] = e + n
        BY <4>2 DEF IInv, ServerInv
      <4>6. k < expected'[c]
        BY <4>2, <4>3, <4>4, <4>5
      <4>7. QED
        BY <4>6
    <3>3. QED
      BY <3>1, <3>2
  <2>3. ASSUME shifted' = {}, NEW k \in Blocks
        PROVE  file'[k] # FILENAME_PAYLOAD
    <3>1. file[k] # FILENAME_PAYLOAD /\ c \notin shifted'
      BY <2>1, <2>3 DEF CopyInv
    <3>2. file'[k] = k \/ file'[k] = file[k]
      BY <1>2, <2>1, <3>1, WritesInPlace
    <3>3. k # FILENAME_PAYLOAD
      BY DEF Blocks, FILENAME_PAYLOAD
    <3>4. QED
      BY <3>1, <3>2, <3>3
  <2>4. QED
    BY <2>2, <2>3 DEF CopyInv, NoGaps
<1>3. ASSUME expected' = expected, UNCHANGED bytesVars
      PROVE  CopyInv'
  <2>1. file' = file
    BY <1>1, <1>3, NoWriteKeepsFile
  <2>2. CopyInv' <=> CopyInv
    BY <1>3, <2>1 DEF CopyInv, NoGaps, bytesVars
  <2>3. QED
    BY <2>2
<1>4. UNCHANGED <<vars, bytesVars>> => expected' = expected /\ UNCHANGED bytesVars
  BY DEF vars, serverVars
<1>5. QED
  BY <1>2, <1>3, <1>4 DEF BytesNext, NoWrite

-----------------------------------------------------------------------------
(* rr changes only when rcopy receives an RR: the RR is true, rcopy had not *)
(* given up and does not do so now.                                         *)
LEMMA RrIsNews ==
  ASSUME IInv, [Next]_vars, rr' # rr
  PROVE  /\ file' = file
         /\ Landed(file, rr') /\ rr' \in Nat
         /\ rState \in RcopyPolls
         /\ current' = current
         /\ rState' \in {"done", "killed"} => EofSent
<1>1. ClientStep
  BY DEF Next, vars, MainStep, ChildStep, Kill, RcopyKilled, Network, Tick, Idle, rcopyVars
<1>2. RcopyReceiveRR
  BY <1>1 DEF ClientStep, RcopyNext, RcopyStart, RcopyFilenameTimeout,
       RcopyFilenameCorrupt, RcopyFilenameResponse, RcopySend, RcopyDrained,
       RcopyEof, RcopyAwaitAcks, RcopyWindowClosed, RcopyPollTimeout,
       RcopyReceiveCorrupt, RcopyReceiveSrej, GivesUp, Counted
<1>3. LET m == Head(inbox[Client]) IN m.body \in Nat /\ Landed(file, m.body)
  BY <1>2, RcopyReceives DEF RcopyReceiveRR, IInv
<1>4. rState' = AfterPoll(rr' + WindowSize)
  BY <1>2 DEF RcopyReceiveRR, RcopyMoves, upperAfter
<1>5. rState' \in {"done", "killed"} => EofSent
  BY <1>2, <1>4 DEF AfterPoll, RcopyReceiveRR, RcopyPolls, EofSent, IInv, RcopyInv
<1>6. QED
  BY <1>1, <1>2, <1>3, <1>5 DEF RcopyReceiveRR, ClientStep, serverVars

(* EOF is sent once and for all, by RcopyEof. *)
LEMMA EofOnce ==
  ASSUME IInv, [Next]_vars
  PROVE  /\ EofSent => current' = current
         /\ ~EofSent /\ EofSent' => RcopyEof /\ UNCHANGED serverVars
<1>1. ASSUME current' # current
      PROVE  ClientStep /\ (RcopySend \/ RcopyEof)
  <2>1. ClientStep
    BY <1>1 DEF Next, vars, MainStep, ChildStep, Kill, RcopyKilled, Network, Tick,
                Idle, rcopyVars
  <2>2. QED
    BY <1>1, <2>1 DEF ClientStep, RcopyNext, RcopyStart, RcopyFilenameTimeout,
         RcopyFilenameCorrupt, RcopyFilenameResponse, RcopyDrained,
         RcopyAwaitAcks, RcopyWindowClosed, RcopyPollTimeout,
         RcopyReceiveCorrupt, RcopyReceiveRR, RcopyReceiveSrej, GivesUp, Counted
<1>2. RcopySend => current # NumBlocks /\ current' # NumBlocks
  BY ParamsAssumption DEF RcopySend, IInv, RcopyInv, STAY_IN_DATA_STATE
<1>3. RcopyEof => current # NumBlocks
  BY ParamsAssumption DEF RcopyEof, IInv, RcopyInv, STAY_IN_DATA_STATE
<1>4. QED
  BY <1>1, <1>2, <1>3 DEF EofSent, ClientStep

(* Once rcopy has ended it stays ended. *)
LEMMA EndedStays ==
  ASSUME [Next]_vars, rState \in {"done", "killed"}
  PROVE  rState' = rState
<1>1. ~ClientStep
  BY DEF ClientStep, RcopyNext, RcopyStart, RcopyFilenameTimeout,
       RcopyFilenameCorrupt, RcopyFilenameResponse, RcopySend, RcopyDrained,
       RcopyEof, RcopyAwaitAcks, RcopyWindowClosed, RcopyPollTimeout,
       RcopyReceiveCorrupt, RcopyReceiveRR, RcopyReceiveSrej, RcopyPolls, GivesUp, Counted
<1>2. QED
  BY <1>1 DEF Next, vars, MainStep, ChildStep, Kill, RcopyKilled, Network, Tick,
       Idle, rcopyVars

(* The initial state maps to the initial state of FileCopy. *)
LEMMA InitMaps == BytesInit => FC!Init
<1> SUFFICES ASSUME BytesInit PROVE FC!Init
  OBVIOUS
<1>1. BytesInv /\ shifted = {}
  BY BytesInitOK DEF BytesInit
<1>2. \A k \in Blocks : file[k] # k
  <2>1. \A k \in Blocks : file[k] \in {OLD, HOLE}
    BY ParamsAssumption, ServerAssumption
       DEF BytesInit, Init, ServerInit, Blocks, Positions
  <2>2. QED
    BY <2>1 DEF Blocks, OLD, HOLE
<1>3. CopiedBlocks = {}
  BY <1>1, <1>2, CopiedIsWritten DEF CopiedBlocks
<1>4. rr = 0 /\ Outcome = "copying"
  BY ParamsAssumption DEF BytesInit, Init, RcopyInit, Outcome, EofSent
<1>5. Trouble = "none"
  <2>1. \A c \in Children : expected[c] = 0
    BY DEF BytesInit, Init, ServerInit
  <2>2. BlockStart(0) = 0 /\ room \in Nat
    BY <1>1, ParamsAssumption, BytesAssumption DEF BlockStart, BytesInv
  <2>3. QED
    BY <1>1, <2>1, <2>2 DEF Trouble, CutShort
<1>6. QED
  BY <1>3, <1>4, <1>5 DEF FC!Init

(* A write in its place maps to Store. *)
LEMMA WriteMaps ==
  ASSUME IInv, BytesInv, CopyInv, CopyHasNoGaps', BytesNext,
         NEW c \in Children, ChildWrites(c)
  PROVE  FC!Store \/ FC!Misplace
<1>1. /\ expected'[c] # expected[c] /\ ChildNext(c)
      /\ shifted \subseteq shifted' /\ room' = room
  <2>1. expected'[c] # expected[c]
    BY DEF ChildWrites
  <2>2. ChildNext(c)
    BY <2>1, WriterSteps DEF BytesNext, IInv
  <2>3. QED
    BY <2>1, <2>2 DEF ChildWrites
<1>2. rr' = rr /\ Outcome' = Outcome
  <2>1. UNCHANGED rcopyVars
    BY <1>1, OnlyChildrenWrite DEF BytesNext
  <2>2. QED
    BY <2>1 DEF rcopyVars, Outcome, EofSent
<1>3. CopiedBlocks' \subseteq Blocks
  BY DEF CopiedBlocks, Blocks
<1>4. CASE shifted' = {}
  <2>2. ASSUME NEW k \in CopiedBlocks
        PROVE  k \in CopiedBlocks'
    <3>1. k \in Blocks
      BY DEF CopiedBlocks
    <3>2. ASSUME NEW p \in (k * BufferSize) .. (k * BufferSize + BlockSize(k) - 1)
          PROVE  bytes'[p] = p
      <4>1. p \in OutputBytes /\ bytes[p] = p
        BY <3>1, BytesInFile DEF CopiedBlocks
      <4>2. QED
        BY <1>1, <1>4, <4>1, WritesInPlace
    <3>3. QED
      BY <3>1, <3>2 DEF CopiedBlocks, BlockSize, Blocks
  <2>3. \A k \in CopiedBlocks' : 0 .. k \subseteq CopiedBlocks'
    BY <1>4 DEF CopyHasNoGaps
  <2>4. Trouble # "misplaced" /\ Trouble' \in {Trouble, "full"}
    <3>1. CutShort => CutShort'
      <4> SUFFICES ASSUME NEW d \in Children, BlockStart(expected[d]) > room
                   PROVE  (BlockStart(expected[d]) > room)'
        BY DEF CutShort
      <4>1. /\ expected[d] \in Nat /\ expected'[d] \in Nat
            /\ expected[d] <= expected'[d]
        BY ExpectedGrows DEF BytesNext
      <4>2. BlockStart(expected[d]) <= BlockStart(expected'[d])
        BY <4>1, BlocksInOrder
      <4>3. /\ BlockStart(expected[d]) \in Nat /\ BlockStart(expected'[d]) \in Nat
            /\ room \in Nat
        BY <4>1, BlockStarts DEF BytesInv
      <4>4. BlockStart(expected'[d]) > room
        BY <4>2, <4>3
      <4>5. QED
        BY <1>1, <4>4 DEF BlockStart
    <3>2. shifted = {}
      BY <1>1, <1>4
    <3>3. QED
      BY <1>4, <3>1, <3>2 DEF Trouble
  <2>5. FC!Store
    BY <1>2, <1>3, <2>2, <2>3, <2>4 DEF FC!Store, FC!Blocks, Blocks
  <2>6. QED
    BY <2>5
<1>5. CASE shifted' # {}
  <2>1. Trouble' = "misplaced"
    BY <1>5 DEF Trouble
  <2>2. FC!Misplace
    BY <1>2, <1>3, <2>1 DEF FC!Misplace, FC!Blocks, Blocks
  <2>3. QED
    BY <2>2
<1>6. QED
  BY <1>4, <1>5

(* A step that writes nothing maps to one of the others, or to none. *)
LEMMA NoWriteMaps ==
  ASSUME IInv, BytesInv, CopyInv, [Next]_vars, NoWrite
  PROVE  [FC!Next]_(FC!fcVars)
<1>1. file' = file
  BY NoWriteKeepsFile DEF IInv, NoWrite
<1>2. CopiedBlocks' = CopiedBlocks /\ Trouble' = Trouble
  BY DEF NoWrite, bytesVars, CopiedBlocks, Trouble, CutShort, BlockStart, BlockSize, Blocks
<1>3. CASE rr' # rr
  <2>1. /\ Landed(file, rr') /\ rr' \in Nat
        /\ rState \in RcopyPolls
        /\ current' = current
        /\ rState' \in {"done", "killed"} => EofSent
    BY <1>3, RrIsNews
  <2>2. Outcome # "gave up" /\ Outcome' = Outcome
    BY <2>1 DEF Outcome, EofSent, RcopyPolls
  <2>3. Trouble = "none" => \A k \in Blocks : k < rr' => k \in CopiedBlocks
    BY <2>1, LandedIsCopied
  <2>4. FC!Acknowledge
    BY <1>2, <2>1, <2>2, <2>3 DEF FC!Acknowledge, FC!Blocks, Blocks
  <2>5. QED
    BY <2>4 DEF FC!Next
<1>4. CASE rr' = rr
  <2>1. CASE Outcome' = Outcome
    BY <1>2, <1>4, <2>1 DEF FC!fcVars
  <2>2. CASE Outcome' # Outcome /\ EofSent'
    <3>1. Outcome = "copying" /\ Outcome' = "announced" /\ RcopyEof
      BY <2>2, EofOnce DEF Outcome, RcopyEof
    <3>2. Trouble = "none" => CopiedBlocks = FC!Blocks
      <4>1. EofMeansWritten'
        BY StepOK DEF IInv, RcopyInv
      <4>2. Landed(file, NumBlocks)
        BY <1>1, <2>2, <4>1 DEF EofMeansWritten
      <4>3. Trouble = "none" => \A k \in Blocks : k \in CopiedBlocks
        <5>1. NumBlocks \in Nat /\ \A k \in Blocks : k < NumBlocks
          BY ParamsAssumption DEF Blocks
        <5>2. QED
          BY <4>2, <5>1, LandedIsCopied
      <4>4. QED
        BY <4>3 DEF CopiedBlocks, FC!Blocks, Blocks
    <3>3. QED
      BY <1>2, <1>4, <3>1, <3>2 DEF FC!Next, FC!Announce
  <2>3. CASE Outcome' # Outcome /\ ~EofSent'
    <3>1. Outcome = "copying" /\ Outcome' = "gave up"
      BY <2>3, EofOnce, EndedStays DEF Outcome, EofSent
    <3>2. QED
      BY <1>2, <1>4, <3>1 DEF FC!Next, FC!GiveUp
  <2>4. QED
    BY <2>1, <2>2, <2>3
<1>5. QED
  BY <1>3, <1>4

(* Every step maps to a step of FileCopy or to a stuttering step. *)
LEMMA StepMaps ==
  ASSUME IInv, BytesInv, CopyInv, CopyHasNoGaps', [BytesNext]_<<vars, bytesVars>>
  PROVE  [FC!Next]_(FC!fcVars)
<1>1. CASE BytesNext /\ \E c \in Children : ChildWrites(c)
  BY <1>1, WriteMaps DEF FC!Next
<1>2. CASE BytesNext /\ NoWrite
  BY <1>2, NoWriteMaps DEF BytesNext
<1>3. CASE UNCHANGED <<vars, bytesVars>>
  <2>1. NoWrite /\ UNCHANGED vars
    BY <1>3 DEF NoWrite, vars, serverVars
  <2>2. QED
    BY <2>1, NoWriteMaps
<1>4. QED
  BY <1>1, <1>2, <1>3 DEF BytesNext

(* The whole program, with its windows, retransmissions, several children,  *)
(* an unreliable network and a disk that may be full, implements FileCopy:  *)
(* until a write() falls short or a filename PDU is written, the bytes of   *)
(* the blocks rcopy takes for acknowledged are in the output file, and EOF  *)
(* is announced only when all bytes of the input are; until the latter,     *)
(* what is in the file grows from the front and stays.                      *)
THEOREM ImplementsHolds == BytesSpec => Implements
<1>1. BytesSpec => []IInv
  BY BytesRefines, Invariance, PTL
<1>2. IInv /\ BytesInv /\ CopyInv /\ [BytesNext]_<<vars, bytesVars>> => CopyInv'
  BY CopyInvStep
<1>3. IInv /\ BytesInv /\ CopyInv => CopyHasNoGaps
  BY NoGapsInCopy
<1>4. IInv /\ BytesInv /\ CopyInv /\ CopyHasNoGaps' /\ [BytesNext]_<<vars, bytesVars>>
        => [FC!Next]_(FC!fcVars)
  BY StepMaps
<1>5. QED
  BY <1>1, <1>2, <1>3, <1>4, BytesInvHolds, CopyInvInit, InitMaps, PTL
     DEF BytesSpec, Implements, FC!Spec
=============================================================================
