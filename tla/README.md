# Selective-reject file copy: a TLA+ model

`rcopy` copies a file to a `server` over UDP. It asks for the output file
(stop and wait), then sends the blocks of the input file under a sliding window;
the server answers with RR (everything before this number is received) and SREJ
(send this number again). `sendtoErr` loses and corrupts datagrams on purpose.

This directory models the two programs and the network between them, checks the
model with TLC on small instances, and proves its safety properties with TLAPS
for every file length, window, retry limit and number of children. Two smaller
models stand beside it: the poll set both programs wait with, and the process table
of the server.

## 1. Inventory

| Component | Source | State | Operations |
|---|---|---|---|
| PDUs | `pduLib.c`, `flags.c` | none | `createPDU`, `calculateChecksum`, `getFlag` |
| Circular buffer | `circularBuffer.c` | `buffer[]` of `{valid, sequenceNumber, size, bytes}`, `cachedWindowSize` | setup, add, get, `getSequenceNumber`, `getValid`, `setValid` |
| rcopy | `rcopy.c`, `rcopyLib.c`, `rcopySlidingWindow.c` | `state`, `current`, `upper`, `lower`, `rr`, the ring, file offset, server address, counters | `onStart`, `onFilename`, `onDataOpen`, `onDataClosed`, `onDataPoll`, `handlePollReturn`, `onDataRR`, `onDataResend` |
| Main server | `server.c` | none but its socket | `processServer`: fork a child per intact datagram; `handleZombies` |
| Child server | `server.c`, `serverLib.c`, `serverSlidingWindow.c` | `SERVER_STATE`, `ON_DATA_STATE`, `expected`, `highest`, the ring, a file descriptor, a counter | `processClient`, `onFilename`, `onDataInOrder`, `onDataBuffer`, `onDataFlush`, `onDataPoll` |
| Sockets | `safeUtil.c` | receive queues of the kernel | `safeSendto`, `safeRecvfrom` |
| Poll set | `pollLib.c` | `pollFileDescriptors[]`, `maxFileDescriptor`, `currentPollSetSize` | `setupPollSet`, `addToPollSet`, `growPollSet`, `removeFromPollSet`, `pollCall` |
| Process table | `server.c` | children, zombies, a pending SIGCHLD | `fork`, `handleZombies`, `waitpid` |
| Socket setup | `networks.c`, `gethostbyname.c` | none | `udpServerSetup`, `setupUdpClientToServer`; the TCP functions are not called |
| `sendtoErr`, `in_cksum` | `libcpe464.2.21.a` (binary) | its random generator | losing and flipping |

How they interact: only by datagrams, and through the output file. rcopy sends
the filename PDU to the well-known socket; the server forks a child, which opens
the file and a socket of its own and answers from there. From then on rcopy sends
to whatever address its last datagram came from. A repeated filename PDU makes a
further child, and all children of one copy write the same file.

Beneath, each process waits in `pollCall`, on the one socket it has put in its poll
set; and while the main process waits in `recvfrom`, the handler of SIGCHLD may
interrupt it at any point to reap children.

What is hard: every datagram may be lost, corrupted, duplicated, overtaken or
late; both sides run on timeouts of one second that race late answers; processes
die without a word; and each side must keep a window in step with a window it
cannot see.

What makes it correct:

- file: no block lands in the wrong place, nor any byte of it (`FileIntegrity`,
  `BlocksAreBytes`); bytes that are right stay (`CopiedStays`); it fills up from the
  front, and what rcopy takes for acknowledged is in it, for as long as no `write()`
  falls short and no filename PDU is written (`Implements`);
- rcopy: nothing counts as acknowledged that was not handed to `write()`, EOF comes
  last, a resend finds its packet (`AckedIsWritten`, `EofMeansWritten`,
  `ResendFindsItsPacket`);
- child: it may take any PDU without payload for EOF, since EOF arrives last too
  (`EofArrivesLast`); the ring holds exactly early packets, and none is overwritten
  (`RingHoldsTheFuture`, `NoRingOverwrite`) or larger than its slot
  (`PacketsFitTheirSlots`); the loop that writes them ends (`FlushEnds`);
- together: the windows agree and only move on, rcopy keeps the child it has, the copy
  completes, everybody ends (`WindowsAgree`, `WindowNeverMovesBack`, `OnePeer`,
  `CopyCompletes`, `Termination`);
- poll set: every watched descriptor has an entry `poll()` sees, and the answer is a
  watched one that can be read, or -1 (`SetInv`, `KeepsPromise`);
- process table: no zombie is overlooked, slots come back, a zombie is never why
  `fork()` fails, requests are taken (`ZombieNoticed`, `SlotsComeBack`,
  `DiesOnlyWhenFull`, `RequestsTaken`).

## 2. Modules

| Module | Models | Code |
|---|---|---|
| `Pdu` | a PDU as a record; the payload is one integer | `pduLib.c`, `flags.c` |
| `CircularBuffer` | the ring as a function, one operator per C function | `circularBuffer.c` |
| `Params` | file length, window argument, retry limit and its counting | arguments, `onDataPoll` of both programs |
| `Udp` | `inbox`, `sockets`, poll timeouts (`due`), network faults | `safeUtil.c`, `pollCall`, `sendtoErr` |
| `Rcopy` | the client | `rcopy.c`, `rcopyLib.c`, `rcopySlidingWindow.c` |
| `Server` | the main process and its children, and the output file | `server.c`, `serverLib.c`, `serverSlidingWindow.c` |
| `Srej` | all of it together, fairness, the properties | |
| `SrejInvariant` | the inductive invariants | |
| `SrejProofs` | the theorems | |
| `SrejLocal` | the inductive invariant of a local network | |
| `SrejLocalProofs` | its theorems | |
| `SrejBytes` | `Srej` with the bytes and sizes: descriptors, `write()`, slots of the ring | `serverLib.c`, `circularBuffer.c` |
| `SrejBytesProofs` | its theorems | |
| `FileCopy` | the abstract specification of `SrejBytes`: what a copy promises | |
| `FileCopyProofs` | the refinement, on top of `SrejBytesProofs` | |
| `MCSrej` | values of constants for `Srej` | |
| `PollSet` | the poll set of one process | `pollLib.c` |
| `PollPromise` | the abstract specification of `PollSet` | |
| `PollSetProofs` | its theorems | |
| `ProcessTable` | the main server process, its children as processes, SIGCHLD | `server.c` |
| `ProcessTableProofs` | its theorems | |

**State.** A variable of the C code keeps its name (`current`, `upper`, `rr`,
`expected`, `highest`, `counter`), `lower` is left out because it is always `rr`
and nobody reads it. `rState` and `sState[c]` say where a process is: each value
is a place where the code blocks (a `pollCall`) or the head of a loop. What the
code does between two such places, its answers included, is one action: nothing
that the processes share changes in between except that datagrams arrive, and
those wait in the queue. The exception is `onDataFlush`, whose loop is one action
described by where it stops (`e`, the first number not held), since it neither
receives nor polls. `FlushEnds` shows that there always is such an `e`, so that the
action cannot get stuck where the code would not.

A process may be killed at any of these places, and in the middle of the two handlers
that write and then answer: `ChildCutShort` is `onDataInOrder` after its `write()` and
before its RR, or `onDataFlush` after some of its writes. Elsewhere a kill in the middle
leaves what a kill before or after the whole handler leaves.

**Actions.** One per branch of a handler: `InOrderExpected`, `InOrderAhead`,
`ChildOldPacket`, `InOrderEof` are the branches of `onDataInOrder`, and so on; the
`map` of PROJECT.json gives the lines. Some branches that look harmless matter:

- `safeRecvfrom` stores the sender's address before the checksum is tested, so
  `server'` changes in `RcopyFilenameCorrupt` and `RcopyReceiveCorrupt` too.
- `handlePollReturn` takes anything but an RR for an SREJ. The four bytes it reads
  from a filename response include three the receive buffer never got, so
  `RequestedBy` lets the number be anything.
- A slot that was never filled has size zero. Resending it sends an empty
  datagram, and a child that receives one calls `exit(-1)` (`ChildEmptyDatagram`).
- `handlePollReturn` exits on an empty datagram as well, but no child ever sends one,
  so rcopy has no such action; nor is there one for the SETUP branch of
  `onDataInOrder`, since nobody sends a SETUP PDU.
- `TakenAsData`: `onDataInOrder` tests the flag for SETUP and the length for EOF,
  `onDataBuffer` tests neither; a filename PDU passes both as packet 0.
- `open()` has neither `O_TRUNC` nor a lock: `OldBlocks` blocks of an older file
  stay, and children write side by side. Whether there is an older file is open in
  the initial state.

**The file** is a function from block positions. The n-th write of a child goes to
position n, which is its `expected`. In `Srej` it holds what was handed to `write()`
for each position, because that is all the program itself goes by: it ignores the
result (`serverLib.c:195` and `266`) and acknowledges all the same. A position is
`Filled` when its packet was handed over, which for position 0 may be a filename PDU
that a child took for packet 0 (finding `filename_as_data`); so `AckedIsWritten` and
`EofMeansWritten` speak of packets, not of what is on the disk.

That is left to `SrejBytes`. It adds to each step of `Srej` what happens to the bytes:
each child has a file offset of its own that moves by what `write()` wrote, packets
have the sizes `read()` gave them, and `write()` writes only as much as there is
`room` for, which nobody notices (an older file that is longer keeps its room).
`BlocksAreBytes` then compares the two views of
the file byte by byte. It holds as long as no child has written a filename PDU, which
the history variable `shifted` remembers: looking at the file is not enough, since a
second child may write block 0 over the misplaced PDU of the first, and the bytes behind
it are shifted all the same. `BytesInv` says the same of the descriptors, child by child. A step writes when it moves `expected[c]` on, because the code
never does one without the other; `WrittenBy` is then the datagram just received or,
after `onDataFlush`, the packets that were in the ring. In this module an input byte
is its number, so a byte in the wrong place is a wrong byte. The file is small
enough that a whole old file and a misplaced filename PDU fit in `OutputBytes`.

The promise of the program is stated of these bytes. `CopiedStays`: a byte that is right
is only ever overwritten with another by a child that took a filename PDU for packet 0.
`FileCopy`: the file fills up from the front, a block counts as `copied` when all its
bytes are in the file, acknowledgements are true, and the end is announced when
everything is there. The code does not keep that without exception, and the
specification says when: once a `write()` has fallen short (`"full"`) what is there
stays and has no gaps, but rcopy may believe more, and announce the end; once a filename
PDU was written (`"misplaced"`) nothing is promised of the file.

**Network.** `inbox[p]` is both what is on its way to p and what waits at p.
`Lose`, `Corrupt`, `Duplicate` and `Reorder` act on it, each as often as its bound
allows; sending to a closed socket or a full queue does nothing, as with UDP.

**Time.** Only "a poll of one second ran out" matters. With `Delay = TRUE` it may
run out at any moment, also while the answer is in transit: a slow network, or a
slow peer. With `Delay = FALSE` it runs out only when nobody can do anything else
(`Quiet`), for everyone who polls (`Tick` puts them in `due`), unless a datagram
comes first: a local network, where a second is long.

**Poll set.** `PollSet` has the array itself, entry by entry, and the actions of
`pollLib.c` on it, called in any order a process may call them: `setupPollSet` once
and first, `removeFromPollSet` only for what was added. `Marked` is what `poll()` does
to the entries: an event that was asked for, or a hangup, which it reports always.
Entries not in use are zeroed, and zero is a descriptor: the standard input. After
`pollCall` the process does what all callers do: it goes on after a timeout, and
otherwise receives on a socket of its own, whatever the answer was (`rcopyLib.c:95` and
`132`, `serverLib.c:180` and `228`), for which there must be something to receive; else
it stays in `recvfrom` until there is. `PollPromise` says the same of its caller; the
only step of `PollSet` beyond it is `HangupAnswer`, the answer 0 after a hangup of the
standard input. The array is empty before `setupPollSet`.

**Process table.** `ProcessTable` sees the main process at its two places, in
`recvfrom` and about to fork, the handler, which may start at either, one bit of
pending SIGCHLD, and a slot for each process the system allows. `waitpid()` takes any
zombie; the loop of `handleZombies` is an action per call, since children go on ending
in between. When `fork()` fails the main process is gone and `init` reaps the rest.
What the children do in their lives is `Srej`'s matter; that they end is its property
`Termination`.

## 3. Runs

`NumBlocks`, `WindowSize` and `MaxTries` (10 in the code) are small but large enough
that the window moves, closes and wraps its ring, and the retry limit is reached; the
bound on each fault is in the cfg. `Capacity` is 10 where full queues are not meant to
happen. Deadlock is checked in all runs of `Srej`: when all have ended the server goes
on waiting (`Idle`). It is not in `zombies`, where the server may be gone for good.

| Run | Instance | Properties |
|---|---|---|
| `lossy_lan` | fair; 6 blocks, window 3, 2 children, 2 losses, 1 corruption, 1 kill, `open()` may fail, an old file or none | `TypeOK`, `LInv`, `RingHoldsTheFuture`, `ResendFindsItsPacket`, `WindowsAgree`, `NoRingOverwrite`, `OnePeer`, `WindowNeverMovesBack`, `Termination` |
| `slow_network` | delay; 6 blocks, window 5, a child's ring of 2, queues of 2, 1 try, 1 loss, 1 duplicate, 1 reordering, 1 kill | `IInv`, `RInv`, `AckedIsWritten`, `EofMeansWritten`, `EofArrivesLast`, `FlushEnds` |
| `two_writers` | `SrejBytes`: delay, 2 children, 1 corruption, queues of 2, `open()` may fail; blocks of 3 and 2 bytes, room for 4, or an old file of 6 bytes | `FileIntegrity`, `BlocksAreBytes`, `BytesInv`, `PacketsFitTheirSlots`, `CopiedStays`, `Implements` |
| `copy_completes` | fair; 5 blocks, window 3, 2 losses | `CopyCompletes` |
| `no_ring` | fair; a ring of 0 slots, with the faults of `lossy_lan` and 1 duplicate | `Termination` |
| `poll_set` | `PollSet`: descriptors 0, 1, 3, 6, a set of 2 that grows by 2 | `SetInv`, `KeepsPromise` |
| `zombies` | `ProcessTable`: fair; 4 processes, a queue of 3 | `ZombieNoticed`, `DiesOnlyWhenFull`, `SlotsComeBack`, `RequestsTaken` |

`lossy_lan` has 6 blocks for a window of 3 because a slot of the child's ring can
only be overwritten by a packet a whole window further on. `ResendFindsItsPacket`,
`WindowsAgree`, `NoRingOverwrite`, `OnePeer` and `WindowNeverMovesBack` are checked
there and not under delay: with overtaken or repeated datagrams they are false, see
`stale_srej`. `LInv` is the invariant from which they are proved.

In `slow_network` rcopy sends a window of five into a child's ring of two slots, as it
does in the code with a window of 258. So a slot of that ring often holds a valid packet
of another number, a flush of several packets goes around the ring, and after one the
highest packet received can be the one that is missing. The sixth block makes rcopy
reuse a slot of its own ring, which a late SREJ then asks for; an overtaken RR moves its
window back. Two datagrams fill a queue. One try is enough here because a timeout may come at any moment.

`two_writers` needs no loss of its own: two datagrams fill a queue, and what comes
then is lost. Its two blocks are enough for a second child to write behind, over and
ahead of the first. Either the file is new, and the disk is full in the middle of the
second block, or there is an old file of six bytes, one longer than the copy, and room
for all of it. The corruption is there for the filename response, after which one child
writes the filename PDU as packet 0 and another one the file. Two writers with
reordering are left to the proofs.

`no_ring` has the cases of `Termination` that a network without duplication cannot
produce: a repeated filename response is taken for an SREJ of any number, and what
rcopy sends from a slot it never filled is an empty datagram; and the second child's
BAD may come in the middle of the copy.

`poll_set` has a descriptor inside the first set, some just at and beyond its end, and
0, which is also the descriptor of unused entries; `growPollSet` runs from 2 to 5 and
to 8. `zombies` has slots for a child that is reaped, one that ends in the handler, one
that ends after it and one that goes on running.

`Uint8` stands for 256: with `Uint8 = WindowSize` a child gets a ring of 0 slots, as
with a window of 256 in the code.

`CopyCompletes` needs `MaxChildren >= MaxTries`: each round of `onFilename` may
fork a child. It also needs fewer losses than tries, and no corruption of a filename
response, which may put the filename PDU in the file. `Termination` needs a window
of at least two (see `eof_window_one`) and boundedly many corruptions, because
corrupted answers reset the counter of `onFilename` (`rcopyLib.c:93`).

### Findings

Runs that TLC must refute; each checks one property, which is what a comment says.

| Run | Property | What happens |
|---|---|---|
| `eof_window_one` | `EofThenDone` | `rcopyLib.c:220`: send EOF, "then move to the done state". With window 1 EOF closes the window; if it is lost, `onDataClosed` resends the last data packet, the child repeats its RR, the counter starts again: both go on for ever. |
| `filename_as_data` | `FilenamePduIsNotData` | `serverLib.c:238-245` means to answer a repeated filename PDU, but tests for `SETUP_FLAG`, which nobody sends. After a corrupted filename response rcopy sends the filename PDU to the child, which writes it to the file as packet 0. |
| `buffer_over_255` | `PacketsFitTheirSlots` | `circularBuffer.c:21`: `bufferSize` is "the maximum amount of bytes that can be in a data packet". `onStart` takes it as a `uint8_t`, so from 256 on the child's slots are smaller than the packets copied into them; the window size fares the same, and 256 gives a ring of no slots (run `no_ring`). |
| `stale_srej` | `ResendFindsItsPacket` | `rcopyLib.c:155`: "resend the specific packet". A late SREJ finds a later packet in the slot, and that is sent. |
| `poll_stdin` | `ReturnsReadySocket` | `pollLib.c:74`: pollCall "returns the socket number if one is ready for read". Once the standard input hangs up it returns 0 at once: unused entries watch descriptor 0. The callers then block in `recvfrom`, without a timeout. |

Met on the way, without a run: a lost filename response makes rcopy repeat its
request to the main server, which forks a second child, although `serverLib.c:77` says
"onData handles if this packet is lost" (`two_writers` shows that the file survives
it); an RR overtaken by the next one moves the window
back (`rcopySlidingWindow.c:28-30` assigns without comparing), which is harmless as
far as the runs and proofs go, and does not happen on a local network
(`WindowNeverMovesBackHolds`); `serverLib.c:108` says "resend the lowest packet"
where the code only counts; `pollLib.c:75` says 0 is returned on a timeout where the
code returns -1.

## 4. Fairness

`FairSpec` assumes weak fairness of rcopy's steps, of the main server, of each
child, and of `Tick`. Each is a sequential process that runs whenever it is not
blocked in `poll` or `recvfrom`, the operating system schedules it, and a `poll`
with a timeout returns. Nothing is assumed of the network or of who kills
processes: a lost datagram may be the one that matters. In every state at most a
few branches of one process are enabled, all of the same handler, so weak fairness
of the whole process is enough. A handler that a kill cuts short counts as a step of
its child; the child has ended with it.

`Spec` of `ProcessTable` assumes weak fairness of the main process in `recvfrom`, of
its `fork()`, of the handler, and of the end of each child. A signal interrupts the
main process only as often as children end, so weak fairness is enough. That a
child ends is an assumption there: it is `Termination`, which holds in the runs of
`lossy_lan` and `no_ring`, but not for a window of one (`eof_window_one`), where a child
and its slot may be lost for ever.

## 5. Proofs

Assumed of the constants: `ParamsAssumption`, `NetworkAssumption`,
`ServerAssumption` (they are numbers; window, retries and `Uint8` are positive).
Nothing is assumed of the network, except where the table says *local*: delay may be
on, all faults unbounded in number up to any bound, `MaxChildren` and `Capacity`
anything. *Local* stands for `LocalNetwork`: no delay, no duplication, no reordering;
losses, corruptions, full queues, killed processes and any number of children remain.

| Theorem | Says |
|---|---|
| `Invariance` | `Spec => []IInv` |
| `TypeCorrect` | `Spec => []TypeOK` |
| `FileIntegrityHolds` | no block at a wrong position |
| `AckedIsWrittenHolds` | what is below `rr`, or below an RR in the network, was handed to `write()` |
| `EofMeansWrittenHolds` | EOF only when all was handed to `write()` |
| `EofArrivesLastHolds` | when an EOF is on its way to a child, all was handed to `write()` already |
| `RInvHolds` | valid slots of a child's ring are at their place and still to come |
| `RingHoldsTheFutureHolds` | a child's ring holds only packets still to come |
| `FlushEndsHolds` | the loop of `onDataFlush` ends |
| `LInvHolds` | local: `Spec => []LInv` |
| `WindowsAgreeHolds` | local: rcopy's window is never ahead of what its child expects, nor a window behind |
| `ResendFindsItsPacketHolds` | local: what is asked for, or repeated after a timeout, is still in rcopy's ring |
| `NoRingOverwriteHolds` | local, `WindowSize < Uint8`: nothing in a child's ring is overwritten before it is flushed |
| `OnePeerHolds` | local: once it sends, rcopy never turns to another child |
| `WindowNeverMovesBackHolds` | local: `rr` never decreases |
| `PacketsFitHolds` | no packet in a child's ring is larger than its slot, if `BufferSize < Uint8` |
| `BytesInvHolds` | each descriptor is where the block its child expects begins, unless that child wrote a filename PDU |
| `BlocksAreBytesHolds` | byte by byte, the file holds the blocks it is said to hold, as far as there is room, and nothing else of the copy, as long as no filename PDU was written |
| `CopiedStaysHolds` | a byte that is right is only overwritten with another by a child that took a filename PDU for packet 0 |
| `ImplementsHolds` | `SrejBytes` implements `FileCopy` |
| `SetInvHolds` | every watched descriptor has its entry, and `poll()` sees it |
| `KeepsPromiseHolds` | `PollSet` implements `PollPromise`, but for a hangup of the standard input |
| `ZombieNoticedHolds` | while there is a zombie, the handler runs or will run |
| `DiesOnlyWhenFullHolds` | `fork()` never fails because of zombies that stay |

*The inductive invariant.* None of these properties is inductive. `IInv` adds what
may be in the network and in the rings:

1. every intact datagram from rcopy carries the block of its own number, or is EOF
   with number `NumBlocks`, or the filename PDU (`FromRcopy`), and so does every
   filled slot of rcopy's ring: however late or repeated a packet is, it says the
   truth. This needs `offset = current + 1` as long as EOF has not been sent;
2. every intact RR from a child, at the time it is in the network, only names blocks
   that were handed to `write()` (`FromChildren(file)`), and so does `rr`; and there is an intact
   EOF in the network only if all blocks are (`ToServer(file)`);
3. a valid slot of a child's ring holds an intact packet under its own number, and
   everything below `expected[c]` was handed to `write()`;
4. hence a child that writes packet `expected[c]` at position `expected[c]` writes
   the right block (`WrittenInSequence`), the file only improves, and 2 stays true
   (`MailMonotone`).

`RInv` is inductive under `IInv` and says the same of a ring in more detail: a valid
slot is at the index of its number, and that number is not before `expected[c]`,
which in the FLUSH state is past packet 0, nor after `highest[c]`. So the slot of the
number behind `highest[c]` never holds that number, and the loop of `onDataFlush`, which
tests nothing but slots, ends there or before; that there is a first such number is one
more use of `SetInduction`, see *Bytes*.
`NoGaps` is inductive under `IInv` as well: whatever position of the file is filled, some
child is past it.

*The refinement.* `CopiedBlocks` (the blocks all of whose bytes are in the file), `rr`,
`Outcome` and `Trouble` are the abstract state. A write is `Store` or, once some
child has written a filename PDU, `Misplace`; an RR that arrives is `Acknowledge`, `RcopyEof`
is `Announce`, an early end of rcopy is `GiveUp`, all else stutters. `acked` may go back:
an old RR is still true news. `CopyInv` is `NoGaps` and that a filled position holds its
own block until a filename PDU is written. With `IInv` and `BytesInv` it follows that,
until then, every copied block was handed to `write()`, and every one handed over is
copied if there is room for the whole of it (`CopiedIsWritten`); that the blocks before a
copied one are copied too (`NoGapsInCopy`), since there is room for them; and that as long as no
`write()` fell short, what `IInv` says of `write()` is true of the bytes
(`LandedIsCopied`).
That no write takes away a copied block, nor any right byte, is `WritesInPlace`, which is
also the proof of `CopiedStays`.

*The windows.* That the two windows stay in step depends on the order of datagrams, so
`IInv`, which only says that what is in the network is true, is not enough, and the
properties are false when an answer is repeated or comes late (`stale_srej`). `LInv` is
inductive under `IInv` and `RInv` on a local network. It goes by phases:

1. while rcopy asks for the file (`AskingInv`), at most one process has anything to do,
   and it has one datagram at most: stop and wait. A timeout needs that nobody has
   (`Quiet`), so rcopy's next PDU is again the only one. Hence no answer of another
   child is left when rcopy starts to send, however many children there were;
2. from then on (`SendingInv`) only rcopy and its one child have anything to do, and the
   answers on their way to rcopy are RRs and SREJs of that child, with numbers from `rr`
   to `expected` that never decrease (`InOrder`): so `rr` only moves on, and the numbers
   it takes are never beyond what the child has;
3. no SREJ asks for a number that rcopy has not sent, none below `rr` is left, and
   rcopy's ring holds the last `WindowSize` packets (`HoldsLatest`): so a resend finds
   its packet;
4. the child has never heard of a number above `current` (`WindowInv`), and
   `current < rr + WindowSize <= expected + WindowSize`: so a new packet never reaches
   the slot of one that is still to be flushed, if the ring is as large as the window.
   That is the place of the assumption `WindowSize < Uint8`; without it the child's ring
   is smaller (`no_ring`).

`SocketInv` says that a closed socket holds nothing and that only a child that has
started has sent anything; a packet for a child that has not started would be lost.
`lossy_lan` is an instance of `LocalNetwork` with every other fault, and checks `LInv`.

*Sizes.* Each step of `SrejBytes` is one of `Srej` with something added, so the
invariants of `Srej` hold there too (`BytesRefines`). With them `PacketsFitHolds` has
only one case to fear, a filename PDU in a ring, whose size is not bounded by
`BufferSize`: it carries number 0, and what is in a ring comes after `expected[c]`, or
at it when that is past 0 (`HeldIsData`).

*Bytes.* `BytesInv` is inductive under `IInv`. A child writes in one step the packets with
the numbers from `expected` on (`WrittenByChild`); `onDataFlush` may write several, and the
offset of each is where the one before ended (`WriteOffsets`, a recursive function). That
this is where its block begins (`OffsetsAre`) is an induction over the packets, for which
`SetInduction` (in `SrejProofs`) stands in for the induction theorem of the library: a finite set that
adding 1 maps into itself cannot miss 0. A write from the beginning of a block to its end,
as far as there is room, then covers the bytes of the block and no other
(`CoveredIsBlock`). Nothing is assumed of the sizes but `BytesAssumption`, and nothing of
the disk.

*Poll set and process table.* `SetInv` and `ZombieNoticed` are inductive as they stand.
For the poll set the argument is that `s + POLL_SET_SIZE` is above `s`, that new entries
ask for nothing, and that `maxFileDescriptor` only grows; the abstract state of
`PollPromise` is `Watched`, the set of entries that ask for input, and `MarkedOK` says
that `poll()` marks exactly those of them that can be read. They hold for any set of
descriptors and any initial size (`PollAssumption`). `ZombieNoticed` says for any number
of processes that every step that makes a zombie also makes a signal pending, and that
the handler consumes the signal before it looks, not after.

*Only model-checked:* everything with fairness (`CopyCompletes`, `Termination`,
`SlotsComeBack`, `RequestsTaken`), because TLAPS has no `ENABLED`; and there the
bounds of the faults matter too. All invariants and action properties of the runs are
proved.

## 6. Not modelled, and the plan

Not modelled, and why:

- argument parsing, name resolution, bind, the TCP functions: they only end the
  program before it starts, or are never called. Window and buffer sizes of 0 get past
  the parsing (`rcopy.c:49-50`); the models assume sizes of at least 1;
- printing;
- the values of bytes, since none is ever looked at: `SrejBytes` names input bytes by
  their number. Buffer sizes beyond `MAXBUF` (1400), whose packets `recvfrom` truncates;
- the width of sequence numbers (files of 2^31 packets);
- a `write()` that fails once and works later, and what an overrun slot does to the
  memory behind it (`buffer_over_255` shows that the slot is overrun);
- failing `malloc()`, `recvfrom()` and `sendto()`: they end a process, which the model
  has as a process that is killed;
- a restart of the server, which the code does nothing about.

The order of work:

1. the core: `Pdu`, `CircularBuffer`, `Udp`, `Rcopy`, `Server`, `Srej`, its runs,
   `IInv` and the safety theorems; `FileCopy` and the refinement (done);
2. sizes, bytes and a full disk (`SrejBytes`), the poll set with its promise
   (`PollSet`), the process table and SIGCHLD (`ProcessTable`), with the theorems of
   all three (done);
3. the windows on a local network: `LInv` and its theorems (done).
