# Omiscid in TLA+

Omiscid 3.0b is a C++ middleware library. This commit holds its *system* layer
(threads, locks, events, lists, sockets, shared memory, strings, tracing of memory
leaks) and the part of its *messaging* layer that turns C++ objects into JSON
messages and back (`Messaging/`, `Json/`). The upper layer trusts the lower one to be
right under any interleaving of threads; the project models both.

Source paths below are relative to `src/`; headers are in `System/System/`,
implementations in `System/`.

## 1. Inventory

### Parts that are modelled

| part | state it keeps | operations | what makes it hard | what makes it correct |
|---|---|---|---|---|
| `ReentrantMutex` (`ReentrantMutex.h/.cpp`) | one `std::recursive_mutex` | `Lock(wait_us)` (a `try_lock` loop with sleeps), `Unlock` | re-entry, timeouts; the loop is not fair | one owner, as many unlocks as locks |
| `SmartLocker` (`LockManagement.h/.cpp`) | the managed object, `LockCount` | `Lock`, `Unlock`, destructor | exceptions and early returns; a timed lock that fails | what was locked is unlocked once |
| `SimpleList` (`SimpleList.h`) | `Head`, `Tail`, `NumberOfElements`, the cells, and a cursor (`PreviousElement`, `CurrentElement`, `RemoveCurrentHasOccured`) | 12 operations, among them removal and insertion at the cursor | long sequences of legal calls; the cursor dangles | one chain, nothing lost or followed after `delete`, a sequence with a position |
| `MutexedSimpleList` (`MutexedSimpleList.h`) | a `SimpleList` and its mutex | the list's under a lock held by the caller, and `operator=`, which takes two | lock order; copies of a list in use | exclusive access, exact copies, every call returns |
| `Event` (`Event.h/.cpp`) | `Signaled`, a mutex and a condition variable | `Signal`, `Reset`, `Wait(time)` | lost, late and spurious wakeups | a signal made before the wait is not lost |
| `Thread` (`Thread.h/.cpp`) | `MyThread`, `ThreadIsRunning`, `StopWasAsked`, two events | `StartThread`, `StopThread`, `Join`, `WaitForStop`, `StopPending`, destructor; `CallRun` in the child | unsynchronised flags, stop against start, restart, destruction during a stop, timeouts | one `Run` at a time; an answer `true` means the end; nothing runs in a destroyed object |
| message queue of `Thread` | a `MutexedSimpleList` of messages | `SendMessage`, `GetMessage`, `WaitAndGetMessage` | senders and receivers at once; test then extract; polling under a lock | first in, first out, each message once; no one waits beside a message |
| `MultipleReferencedData` (`.h/.cpp`) | `NbCurrentRef` and a mutex, inside the object | `AddRef`, `RemoveRef`, `IsStillUseful`, `ReleaseData`, `Init` | the object deletes itself, and with it the mutex it holds | deleted once, behind its last owner; never leaked |
| `SharedMemSegment` (`.h/.cpp`) | a System V segment with two flags in it; `iSegMem` and `SegAddress` of each object | `CreateAndOpen`, `Open`, `Close`, `RemoveSharedMemSegment` | processes that attach before the segment is ready or while it is removed, and that die | nobody writes where the creator did not allow it; no segment stays behind |
| `TrackingMemoryLeaks` (`.h/.cpp`) | the list of live blocks, the number of clients, one mutex behind `new` and `delete` | `operator new`, `operator delete`, `TrackMemoryLeaks` objects, `DumpUnfreed` | lives of clients against lives of blocks; a `delete` inside the dump | the list is the heap; every block is freed as it was allocated; every call returns |
| JSON parser (`Json/JSON_parser.cpp`) | a push-down automaton: state, stack of modes, one buffer that grows | `new_JSON_parser`, `JSON_parser_char`, `JSON_parser_done` | buffers at their limit, depth, comments, escapes, failed allocations | accepts documents only; never leaves its arrays |
| `json_spirit` (`Json/json_spirit_*.cpp`) | the value under construction and the path into it | `read` through the parser's callback, `write` | order of the callbacks; root, nesting, names | the value read is that of the text |
| `Serializable`, `StructuredMessage`, `SerializeValue` (`Messaging/`) | the mapping of an object: named fields with types | declaration, `Serialize`, `Unserialize`, `Put`, `Get`, the conversions | failure half way, texts cut short, conversions that narrow | what is read back is what was written; a failure corrupts nothing, and says so |
| `Socket` (`Socket.h/.cpp`) | a descriptor | construction, `Listen`, `Connect`, `Accept`, `Close`, destructor, `Send`, `Recv` | partial sends, errors half way, numbers of descriptors used again | the stream is exact; an open descriptor has one owner |

Up to the shared segment and the sockets, they interact by calls and shared memory only.
`Thread` owns two `Event`s and one `MutexedSimpleList`; every locked structure is reached
through a `SmartLocker` over a `ReentrantMutex`; `MutexedSimpleList` inherits `SimpleList`.
Child threads call back into their `Thread` object (`CallRun`, `StopPending`,
`WaitForStop`). `TrackingMemoryLeaks` replaces `new` and `delete` and so is called by all.
`Serializable` holds a `StructuredMessage`, which calls `json_spirit`, which feeds the
parser one character at a time and is called back with each token.

### Parts that are not modelled

| part | state, operations | why not |
|---|---|---|
| `MemoryBuffer`, `Message` and their two subclasses | real and logical length, the bytes | sequential, and what could go wrong is visible in single lines (section 6) |
| `SimpleString` | a `std::string` | sequential functions on one string: search, replacement, formatting (section 6 for `ReplaceAll`) |
| `SimpleRecycleList` | a store of cells shared by all lists | its functions are not virtual, so the `SimpleList` below it never calls them: the store is never filled |
| `Mutex` | one `std::mutex` | the loop of `ReentrantMutex` without re-entry |
| `ConfigSystem`, `ConfigMessaging` | a counter under a mutex | asks nothing that `MultipleReferencedData` does not ask |
| `AutoDelete`, atomic counters | one pointer; names for `std::atomic` | one assignment a method |
| time, portage, exceptions | none | readings of clocks, shims, formatting |

Of the parts that are modelled, these operations are not: in `Socket`, datagrams,
`Select`, the blocking mode, names and addresses; in `MutexedSimpleList`, the counters of
`DEBUG_MSL`, which is not defined; in `TrackingMemoryLeaks`, the check of the bytes around
a block (`CHECK_MEMORY_BOUNDARIES`, not defined) and three functions nobody calls; in
`SerializeValue`, the conversion operators that no field uses; in `JSON_parser`,
`delete_JSON_parser`; everything that is compiled on Windows only or with Boost.

`PROJECT.json` lists every part with its sources ("components") and, under
"hazards", each place of the code where something hard to test can go wrong.

## 2. Plan

Done, in this order, the most shared code first:

1. `ReentrantMutex`, `MessageQueue` (and `Mailbox`, the abstract specification it
   implements), `Event`, `ThreadLife`, `MultipleReferencedData`, `SimpleList` (and
   `ListWithCursor`), `MutexedSimpleList`.
2. `SharedMemSegment`, `TrackingMemory`.
3. `JsonParser`, `JsonSpirit`, `JsonReader` (and `JsonDocument`, which it implements),
   `Serialization` on top of them.
4. `Socket`.
5. Proofs: `MessageQueueProofs`, `MultipleReferencedDataProofs`, `ListProofs` (of
   `SimpleList` and of `MutexedSimpleList`), `SharedMemSegmentProofs`, `SocketProofs`,
   `ThreadLifeProofs`, `TrackingMemoryProofs`, `JsonProofs` (of `JsonReader` and of
   `Serialization`).

Left, by how much it would add: `Select` and datagrams; `MemoryBuffer` with `Message`.

## 3. The modules and the code

| module | stands for | how |
|---|---|---|
| `ReentrantMutex` | `ReentrantMutex` over `std::recursive_mutex` | a value `[owner, depth]` with operators `TryLock`, `Locked`, `Unlocked`; the `try_lock` loop of `Lock` is a step that can be taken when `try_lock` would succeed |
| `Event` | `Event` over a POSIX condition variable | a value `[signaled, waiters]`. `Signal` broadcasts, so it empties `waiters`; a blocked thread goes on when it is no longer in it |
| `Mailbox` | what the message queue promises | a sequence of messages; each receiver's answer is pending, missed or a message |
| `MessageQueue` | `Thread::SendMessage`, `GetMessage`, `WaitAndGetMessage`, `SimpleList::Add`, `ExtractFirst`, `SmartLocker` | one action per store: lock, allocate, link, tail, count, check, unlink, uncount, release, unlock |
| `ThreadLife` | `Thread`'s life cycle | one action per access to shared state; `pc` names the place in the method |
| `MultipleReferencedData` | the same class | lock, read, write, test, unlock, delete; a *handle* is one owner of a reference |
| `ListWithCursor` | what `SimpleList` promises | a sequence, a position in it, and whether the element there was just removed |
| `SimpleList` | the list and its cursor | one action per call; the cells and their links are explicit |
| `MutexedSimpleList` | `AddTail` under a `SmartLocker`, `operator=` | lock and unlock steps in the order of the code; a copy moves one element a step |
| `SharedMemSegment` | the Linux half of the class | one action per call of the kernel (`shmget`, `shmctl`, `shmat`, `shmdt`) and per access to a flag in the segment; `life` of a segment is unborn, live, marked or gone |
| `TrackingMemory` | `operator new` and `delete`, `MemoryList`, `TrackMemoryLeaks`, `DumpUnfreed` | a call is a step, its body under the mutex another; the list with its cells, links and cursor |
| `JsonParser` | `JSON_parser.cpp` | every function an operator from the parser object to what it leaves; the transition table as a function from states and classes of characters |
| `JsonSpirit` | the reader without Boost, the values | the callback as operators on the path from the root to `current_p`; `read` of a whole text as a fold |
| `JsonReader` | the loop of `read` on any text | one character a step, chosen by the environment |
| `JsonDocument` | what the parser promises its callback | the path of open containers, and whether a key waits for its value |
| `Serialization` | `Serializable`, `StructuredMessage`, `SerializeValue`, the writer | a writer and a reader object of one class: `Serialize`, the text cut on its way, `Unserialize`, again |
| `Socket` | stream sockets over a table of descriptors | one action per call, several for a `Send` in parts, for `Accept` and for `Close`; the kernel's side is `file`, `stage`, `peer`, `backlog`, `inbox` |
| `...Proofs` | | the inductive invariants and the theorems. `ListProofs` is about both lists and `JsonProofs` about reading and sending; the names of the modules they extend differ for that (`SharedInit`, `SerialNext`) |

`ReentrantMutex` and `Event` are EXTENDed by the modules whose objects own one;
`Serialization` and `JsonReader` extend `JsonSpirit`, which extends `JsonParser`: the texts
that objects are turned into are read by the same parser that is fed any text. `MC*`
modules give the constants for TLC. Operators named `Action_Bug` next to an action are
variants of it with a plausible mistake. No specification uses them; `PROJECT.json`
("mutants") pairs each with the property that must fail when it takes the place of the
action, which shows that the property can be broken by the code.

What the models assume of the code:

*Threads and lists.*

- The unsynchronised `bool`s of `Thread` are read and written atomically and in program
  order. C++ promises neither; x86 and the calls of `pthread` around them make it so in
  practice.
- `MyThread` is an `auto_ptr` (`Thread.h:210`; the `unique_ptr` of line 208 is for Windows).
  Its `reset(p)` compares the pointer with `p` and, if they differ, deletes what it points to
  and stores `p`. Each of these is a step: `StartThread` creates the child (`Create`), which
  runs from then on, and only then does `reset(p)` read the old pointer (`ReadOld`), delete it
  (`DeleteOld`) and store the new (`StoreNew`), before `Detach`; `reset()` of `StopThread`
  takes the same steps, but does nothing when the pointer is null, and `GetId` tests the
  pointer (`SelfTest`) before it uses it (`SelfId`). A build may read the pointer again where
  it deletes or uses it, or not. When an attached `std::thread` is destroyed, or one that is
  null or gone is used, `terminated` records it and the model goes on as a build does that
  does not notice.
- `GetId` of a detached `std::thread` is the empty id, and so is that of a null `MyThread`.
  Hence the tests "am I this thread?" (`Thread.cpp:126`, `170`) can succeed only between
  `StoreNew` and `Detach`.
- `Handshake` in `ThreadLife`: nobody calls a method from the `StartThread` that created
  a child until that child has begun `Run`. The run `early_stop` shows why.
- The owner destroys a `Thread` only when no other thread is in one of its methods, and
  no other thread calls once it has begun. `ActorsAssumption`: the owner, its peers and the
  threads the object creates are different threads.
- A caller reaches a `MultipleReferencedData` through a handle it owns. Who made the
  object, or took its last reference with `RemoveRef`, may use it alone
  (`kept` marks that such a keeper exists).
- `Careful` in `SimpleList`: callers do not insert after the last element, do not put an
  element in front of one the cursor takes for the first, and do not extract the element
  the cursor is on or just after. Each is a use that breaks the code (section 6).
- `SimpleList::operator=` copies at most two elements in the model. `operator=` is
  one step: the list has no lock of its own, and `MutexedSimpleList` looks inside it.
- A timed lock expires only while somebody else holds the mutex.
- Memory: `MessageQueue` has as many cells as `Cells`; when none is left an allocation
  fails, and only then.

*Shared segment.* One key; the processes are of one user, so `ReadOnly` is what keeps them
from writing; one object to a process; an object that has a segment closes it before it is
used again; the kernel does not give an identifier twice. A failed `shmat` returns
`(void*)-1`, which the code takes for an address (`SharedMemSegment.cpp:168`): the process
dies at its first access. Processes may also die at any step, and are then replaced.

*Memory tracking.* The body of a call runs under the mutex from its first to its last
access, so it is one step. A tracked block lies behind its cell: `Where` is an address
`malloc` never returned, so a tracked block freed as an untracked one aborts. The program
deletes each pointer it was given once, a pointer that was never set
(`TrackingMemoryLeaks.cpp:771`) included.

*JSON.* A character is its class: the 32 columns of the source's table, a control
character, or a negative `char`. `Kept(c)` says what the buffer records of a character:
its class where texts must come back, only that there was one where any text is read. The
digits of an escape matter only by what they encode (one, two, three bytes, or half of a
surrogate pair). A number of allocations given by the configuration succeeds.

*Serialization.* A value has a part that travels (`low`, its text) and a part that does
not (`high`: what a `long` has above 32 bits, a `double` beyond 6 digits). A string is the
sequence of classes of its characters. Both objects are of one class and one thread uses
each; texts lose any part of their end, and nothing else, on their way.

*Sockets.* Each object is used by a thread of its own. The kernel gives the lowest free
number, takes a send whole, in part or not at all, and reports a peer that hung up. A part
of a long `Send` may fail after others were sent: the call throws, its caller knows of none
of them, and the socket goes on as it is, with that message again or with another. An
`Accept` may fail between `accept` and the return of the new object, whose `new` or
`SetDescriptor` throws: the descriptor stays open and nobody has it (`orphans`). Calls that
throw before they change anything are left out.

Auxiliary variables (`chain`, `counted`, `kept`, `seen`, `why`, `asked`, `misled`,
`expired`, `overlapped`, `torn`, `orphans`, `snapshot`, `creator`, `granted`, `crashed`, `outlived`, `starved`, `sent`,
`before`, `whole`, `threw`, `next`) record history for the properties; no guard of the
code's actions reads them, with these exceptions: `held` and `InUse` of
`MultipleReferencedData` say which calls its users may make, `whole` that a text is cut
at most once, and `next` of `Socket` bounds what a thread sends.

## 4. What the runs check

Runs that pass:

| run | instance | question and answer |
|---|---|---|
| `message_queue` | 2 threads, 3 cells, 2 messages | Under every interleaving of stores, the list under the lock stays one list (`ListIsWellFormed`), no cell is leaked or used after delete (`CellsAccountedFor`), receivers are answered as by a first-in first-out mailbox (`ImplementsMailbox`), a lock taken is given back, even when the allocation fails, and a waiter gets a message that lies there once the others are quiet (`WaitGetsMessage`) |
| `thread_stop` | an owner, 2 peers, 1 start | `Run` polls or waits; it is stopped and joined by three threads at once and destroyed by its owner. Whoever is answered `true` is answered after the end (`AnswersAreRight`), an asked `Run` ends, every `StopThread` returns, and no child touches a destroyed object |
| `thread_restart` | an owner alone, 2 starts, timeouts and spurious wakeups, a `Run` of any style | one `Run` at a time; a `Run` that polls leaves only when *it* was asked; a `StopThread` that timed out leaves its request standing; a `std::thread` is destroyed attached, or used when it is null or gone, only where two threads were at `MyThread` at once (`NeverTerminates`). `AnswersAreRight` adds that late signals of an earlier run and spurious wakeups are the *only* ways to a wrong answer |
| `reference_counting` | 3 threads, 3 handles | the count is exact during every call; the object is deleted once, behind its last owner, with nobody at its mutex; it is not left behind |
| `list` | 3 cells, 2 values, every operation | a caller that keeps the cursor off the ends always finds one well-formed chain and a sequence with a position, removal inside a First/NotAtEnd/Next loop included |
| `lists_under_locks` | 3 threads, 2 lists, 2 calls each, one timed | copies are exact while others append; no list is touched by two threads unless a timed lock expired; locks are given back, also by lockers that never got them; with assignments in one direction every call returns |
| `json` | a stack of 4 modes, buffers of 4 to 8 characters, three configurations, any text | no assertion of the parser or of the reader fails and no array is left, whatever comes, failed allocations included (`AssertsHold`); the reader is inside the containers the parser is inside (`ReaderFollowsParser`); the callbacks are those of one document, and a text is accepted only when it has ended (`IsADocument`) |
| `serialization` | six classes of two or three fields, compact or indented, every cut of the text, several messages in a row | a whole message of portable values gives the reader the writer's values (`RoundTrip`); a text cut anywhere leaves in a simple field the old value or the one sent, and when `Unserialize` returns every declared simple field has the one sent unless partial messages are allowed (`CutNeverCorrupts`); an object whose declarations stopped half way never sends a short message before it has thrown (`ShortMessageWasAnnounced`) |
| `tracking_memory` | 2 threads, 3 blocks, 2 clients | the list of blocks is sound and is the heap's (`ListIsHeap`); nothing is freed at an address `malloc` did not give, but for blocks that outlive the clients or an allocation that failed (`FreesAreValid`); every call returns, but for those behind a dump that found a leak (`EveryCallReturns`) |
| `shared_segment` | 3 processes, 2 segments, a writer that looks twice | write access is given only where the creator granted it, however the stores of its two flags and the looks at them fall (`AccessIsGranted`); a segment that nobody has marked for removal is still held by its creator, until a process dies (`NoOrphanSegment`) |
| `sockets` | 3 objects, 3 kernel ends, 3 descriptors, streams of 3 bytes, buffers of 2 | what was read and what waits goes on byte for byte to where the sender was told it is, and repeats only what left in a `Send` that failed half way, with the sender going on (`StreamIsExact`); an open descriptor belongs to one object or one `Accept`, or to an `Accept` that failed, and an object that is not closing has an open one, while numbers are used again (`DescriptorsAreOwned`) |

The run whose property fails, a disagreement between the code and one of its comments
(`findings` quotes it):

| run | property | what TLC shows |
|---|---|---|
| `early_stop` | `ReturnMeansEnded` | `StopThread` before the child has set `ThreadIsRunning` answers `true`; the `Run` then starts and nobody stops it |

### Bounds, and why they are enough

- `message_queue`: three cells allow an empty list, a list of one (where `Head` and `Tail`
  meet) and of more, and exhaustion of memory. Two threads may each be sender and
  receiver. The theorems lift the safety properties to any sets.
- `ThreadLife`: `MaxStarts` counts operating system threads. Two show everything that one
  run can leave behind for the next; the code keeps nothing older. Two peers and an owner
  let two threads be in `StopThread` while the third waits or destroys.
- `reference_counting`: three handles allow one to be given up, one to be added and one at
  rest. Threads and handles are symmetric, no liveness is checked there.
- `list`: three cells give a cell before, at and after the cursor. Sequences of calls are
  unbounded.
- `lists_under_locks`: `MaxCalls` = 2 lets a list hold something before it is copied; a
  third thread keeps a lock busy while two others are at the other list.
- `json`: texts are unbounded; what is bounded is one scalar (`MaxBuffer`), long enough for
  the buffer to grow once and for an escape of six characters to be decoded in it. The
  theorems lift the three properties to any sizes. A stack of four modes is filled, met at
  its limit; it grows only when `depth` is negative, which `ConfigsAssumption` excludes, so
  only the buffer grows, and with one allocation is refused it. The configurations differ in
  depth, comments and memory.
- `serialization`: two fields show an order and a failure between them, three that what lies
  behind a failure is not reached. The classes hold each type that is encoded in its own
  way, a key declared twice and a type that is not supported; the values hold what each
  conversion loses. `StackSize` and `BufferSize` are the code's.
- `tracking_memory`: three blocks give the list a head, a middle and a tail; two clients a
  first and a last one with a time between.
- `shared_segment`: a segment is raced for, removed and replaced by the second; a creator, a
  user and a third that removes. The theorems lift both properties to any number of
  processes, segments and looks.
- `sockets`: `BufferSize` 3 makes a message of two bytes short and one of three long;
  `Capacity` 2 makes the kernel take a part of either. A listener and a connection fill the
  table. Three ends are that listener and one connection at a time, which may be closed and
  its ends and numbers taken by the next.
  Objects and ends are symmetric, no liveness is checked there.

Deadlock is checked in `message_queue`. Elsewhere the system may stop because every
bounded call was made, the object is gone, the text was judged or the program was aborted;
there the liveness properties say what must not be left waiting.

### Fairness

Weak fairness of each thread's own steps, nothing else: the operating system runs every
thread that can run. No thread has to make a call, so no property says that messages are
sent, and no `Run` has to finish by itself or to call `WaitForStop`: one that only polls
`StopPending` must be reached by the request too. `try_lock` is not fair, and no strong
fairness is assumed: `WaitGetsMessage` says what weak fairness gives, that a receiver gets
its message *once the others are quiet*; in `lists_under_locks` each thread makes finitely
many calls, so a polling thread cannot lose for ever. Time passes, but no timeout has to
fire before an answer comes: the steps of a timed wait are in the same weakly fair action
as the answer. In `tracking_memory` a body under the mutex is one step, so the mutex is
free between any two steps unless a dump hangs with it, and weak fairness of each body says
that a blocking `pthread_mutex_lock` returns.

## 5. What is proved

`tlapm` checks eight modules of proofs, for every value of the constants that satisfies the
assumptions their modules name. These say no more than what the constants stand for:

- `NoThreadAssumption`, `CellsAssumption`, `MsgsAssumption`, `NullAssumption`,
  `HandlesAssumption`: the values for "nobody", null, "no message", "no handle" are not a
  thread, a cell, a message, a handle; there are finitely many handles, and memory has room
  for finitely many cells of a `SimpleList`;
- `AssignsAssumption`, `CallsBoundAssumption`, `CallsAssumption`, `BoundAssumption`:
  assignments are between lists, the bounds on calls and starts are numbers, the calls and
  the styles of `Run` are among those there are;
- `TrackingAssumption`: `malloc` has finitely many blocks to give, and null, "no thread" and
  the pointer nobody set are not a block or a thread;
- `ActorsAssumption`: owner, peers and children are different threads;
- `SegmentAssumption`, `SocketAssumption`: a writer looks at least once, sizes are numbers,
  "none", "failed" and `SOCKET_ERROR` are not a segment, an end or a descriptor;
- `CarefulAssumption`, `SwitchAssumption`: the switches are Booleans;
- `ConfigsAssumption`: a configuration of the parser has a depth below the size of the stack
  in the object, so that `DONE` and the deepest nesting fit. `init_JSON_config` gives
  `JSON_PARSER_STACK_SIZE - 1`, which is what `json_spirit` uses; section 6 has what
  happens with others.

Where a theorem needs more, its own ASSUME says so; each of those is discussed below.

**`MessageQueueProofs`.** None of the invariants is inductive: that the list is well formed
when nobody holds the mutex says nothing of the states in between. `IInv` has

- `LockInv` and `CallInv`: the holder of the mutex is the one thread whose `pc` is between
  lock and unlock, and its `op` fits its place;
- `ChainInv`, `LinkInv`: the auxiliary `chain` is injective and the pointers follow it, *but
  for* the end that the holder is just changing, as a function of the holder's `pc`;
- `HandInv`, `CoverInv`: the cell in the holder's hand is outside the list and outside `free`,
  and free, listed and held cells are all there are;
- `CountInv`: `NumberOfElements` is `Len(chain)`, less or more the one under way.

From `Invariance` (`Spec => []IInv`) follow `TypeCorrect`, `MutexCorrect`,
`NeverExtractsCorrect` (no receiver extracts from an empty list: it tested under the same
lock), `WellFormedCorrect`, `CellsCorrect`. `InitRefines` and
`StepRefines` use `IInv` to map each step to a `Put`, `Ask`, `Take`, `Miss`, `GiveUp` or a
stutter of `Mailbox`, and `RefinementCorrect` concludes `Spec => Box!Spec`.

**`MultipleReferencedDataProofs`.** `CountIsExact` needs to know that a count read is still
the count when it is written (`CountRead`, from `MutexHeld`); `NoUseAfterDelete` needs that
whoever finds 0 is alone. So `IInv` says which handles are `counted` (those at rest or under a
call that has not yet given them up or has just added them: `Accounted`), that calls do not
share handles (`Apart`), that a call without a source excludes others (`KeeperAlone`,
`LastAlone`), what is left after the deletion (`Gone`), and when a zero is kept (`Kept`). The
theorems `CountCorrect`, `DeleteCorrect`, `LeakCorrect` and `TypeCorrect` follow; the last
includes that `NbCurrentRef`, unsigned in the code, never goes below zero.

**`ListProofs`, for `SimpleList`.** What the list holds is a walk along its pointers,
`Chain`, a recursive function. `IInv` does not speak of it: it says that *there is* a
sequence of distinct cells that starts at `head`, is linked cell to cell and ends in null
(`IsChain`), to which `tail`, the count and `free` fit (`Fits`), with the cursor at a place
of it or behind it (`CursorAt`). `ChainIs` then shows that the walk returns this sequence,
whatever its length: `Walk` satisfies its recursive equation (`WalkIs`, as a function that
does exists for every length), and both it and the walk are followed by induction, which
`SetInduction` gives for sets of numbers from a minimal counterexample. Every call is shown
to do one of three things, `Grows`, `Shrinks` or `Moves`, or to build the list anew, and
each of these once and for all to keep the invariant and to do to contents and position what
the abstract list says. From this follow, for any number of cells and for values of any
kind, `ListIsNeverBroken`, `ListIsWellFormed`, and the refinement `ListIsImplemented`: `Spec
=> ImplementsList`. All assume `Careful`; section 6 has what happens without.

**`ListProofs`, for `MutexedSimpleList`.** `AccessIsExclusive` is about where two threads
are, so the invariant `LockInv` ties places to locks: `PlaceOK` says which lockers a place
has counted, `Held` adds up how often a thread holds a list as what it writes and as what it
reads, and `MutexOK` says that this is the depth of the mutex for its owner and zero for all
others. It holds for any pattern of assignments, a list to itself and two lists to each
other included, which may block but never share. `CopyIsAlwaysExact` adds `CopyInv`: while
no timed lock has expired the list that is read stays as it was when it was locked (only the
thread that writes a list changes it, `OnlyWritten`), and what is written is a beginning of
it. It is proved when no list is assigned to itself; such an assignment empties the list.

**`SharedMemSegmentProofs`.** `IInv` has, besides types,

- `Fresh`: a segment nobody asked for is nowhere, so a new one starts without flags;
- `Flagged`: a segment that is ready and not granted has `ReadOnly`. That is the order of the
  stores in `InitNewSharedMemSegment`, and what makes the two looks of `Open` enough;
- `ObjectOK`: what a place says of the call (`CallOK`), of the segment an object is making
  (`MakerOK`) and of the flags an opener has seen (`WriterOK`);
- `Kept`: without a crash, a segment that is not marked is held by its creator.

Flags only ever appear, and a segment keeps its creator, so a step of one process leaves
what the invariant says of the others: `Frame`, proved once for every step. Each of
`Flagged`, `Kept` and `ObjectOK` is then a lemma about the one process that moves.
`AccessIsAlwaysGranted` and `NoSegmentStaysBehind` follow.

**`SocketProofs`.** That a stream carries what its sender counted is about an object, the
end behind its descriptor, and the end that one is connected to; it fails as soon as a
number is used by two objects, or an end is behind two numbers. So `IInv` has

- `Owned`: a descriptor in the table belongs to exactly one object or one `Accept` under
  way, or was left by one that failed, also while `Close` is between `closesocket` and the
  reset of the member, when the number may be given again;
- `Placed`: an end in use is behind one descriptor or waits in one backlog;
- `Paired`: connected ends point at each other, and an end that never was connected has
  received nothing; `Silent`: nothing comes from an end that no object has, in a backlog,
  in an `Accept` or left by one;
- `Exact` and `Counts`: what waits follows what was read, byte for byte or by a way back
  that a failed `Send` left in `torn`, and its last byte is where the sender was told it
  is, `TotalLen` of the pass under way included.

`StreamIsAlwaysExact` and `DescriptorsAreAlwaysOwned` follow for any number of objects, ends
and descriptors and any sizes of buffers and messages. The kernel's lowest free number is a
minimum, found with the well-foundedness of the naturals (`MinIsMember`).

**`ThreadLifeProofs`.** `TypesAreRight` needs nothing (`Typed`: who can be where, who waits on
which event), nor does `TerminateNeedsAnOverlap`. The rest is about how the flags of one run outlive it, in three layers, each
of which names the conditions it needs:

- `HandInv`, under `Handshake`: whoever calls finds the last child in `Run` or past it
  (`Begun`), so the owner creates a child only when the one before has left (`OneChild`);
  a waiter that is told has been told after the end (`Answers`); a request stands until it is
  answered (`Requests`). `NeverTwoRuns`, `AnswersAreAlwaysRight` and
  `RequestsOutliveTimeOuts` follow, for any number of peers and starts, any style of `Run`,
  with timeouts and spurious wakeups;
- `AloneInv`, when besides nobody but the owner calls or the object is started once: a
  request is for the last child (`Asked`). `PollsAreAlwaysAsked` follows. With one peer and
  two starts it fails: a peer's late `StopWasAsked` meets the next child;
- `FreeInv`, when besides there is one start, no timeout, no spurious wakeup and a `Run` that
  ends as it is asked to: somebody who has asked waits until `CallRun` is over (`Watched`,
  `Over`), and the owner frees after that (`Destroying`). `NeverUsedAfterFree` follows. TLC finds a
  counterexample to it without any one of these conditions, but that a `Run` which joins
  itself does no harm.

`TerminateNeedsAnOverlap` needs none of these conditions. As long as no two threads have been
at `MyThread` at once, the steps of one are `Undisturbed` (`OneAtATime`): a `std::thread` is
attached only where its `StartThread` is on its way to `Detach`, and what `MyThread` owns is
detached and not deleted, but where a `reset` is about to store over it. It is
proved for every step of every thread, whoever calls and whenever.

The object is used in these ways in the runs too: `thread_stop` has one start and two peers,
`thread_restart` an owner alone. The layers say what of it depends on that.

**`TrackingMemoryProofs`.** `MemoryList` is `SimpleList`'s twin, so the proof takes
`ListProofs` with `INSTANCE`: a block is a cell that holds itself, the blocks not tracked
are the free cells, and the lists with mutexes are none. `AddPuts` and `RemoveTakes` show
that `Add` and `Remove` do to the links what `PutsIn` and `TakesOut` say there, and its
lemmas give the new chain; `SeekFinds`, that the loop of `Remove` stops on a block exactly
when it is tracked. `IInv` has besides the list (`Linked`): every pointer the program has or
is deleting is to memory it was given, and no two deletes have the same (`Owned`); the
clients are the objects and the destructors that have not left yet (`Counted`), without
which `NumberOfTrackingMemoryClient` could go below zero; and a tracked block without a
client has outlived the last (`Blamed`). From it follow `ListIsAlwaysHeap` and
`FreesAreAlwaysValid`, for any number of threads, blocks and clients.

**`JsonProofs`, for `JsonReader`.** For any text, any depth, any sizes of stack and buffer and any
allocation that fails. `AssertsHold` and `ReaderFollowsParser` say nothing of what the next
character may do, so `IInv` has `Good`, what holds between two characters of a text:

- `BufferOK`, `MemoryOK`: the buffer with its final zero is in its array, the stack of modes
  in its own, whose limit is the depth (the assumption on configurations is used here);
- `ShapeOK`, `HeldOK`: the state says whether a comment, a string or another scalar is
  under way, and how many characters of an escape the buffer has at least (`Least`), without
  which the six characters of `decode_unicode_char` need not be there;
- `TopOK`: the state fits the mode on top of the stack. A comment keeps in `before` what it
  interrupts, so this is said of `Entry`, the state that comes after the comment;
- `ActionsOK`, `Together`: the open containers of the reader are those of the stack above
  `DONE` (`Follows`), and a name is waiting exactly where the parser expects its value or
  reads it. After the document the root stays open, which is the one exception.

A step is one character. It is put into the buffer or is not (`FilledByChar`). The table is
data: `CellsOfBlanks`, `CellsOfStrings` and `CellsOfWords` look at its rows once, and
`CauseOfCell` turns an entry into the few facts an action needs (the states and classes the
action is for, and that the state it goes to has the right shape). Then there is one lemma
for each action: `OnMove`, `OnEscape`, `OnUnicode`, `OnComma`, `OnEndCompound` and so on.
Each shows the same, `Outcome`: no assertion fails, and either the text is refused or the
reader has been `Told` of the calls just made, the document allows them, and `Good` holds
again. A number or a word ends with the character behind it, so one character may make two
calls: `Emitted` says what the first does, `ToldMore` adds the second. The calls reach the
reader through a fold of the library, computed for none, one and two (`Calls0`, `Calls1`,
`Calls2`). `TakeOutcome` puts the actions together, `CharOutcome` and `DoneOutcome` the
character and the end of the text. They give `NextStep`, and from it follow `SpecIInv`,
`JsonAssertsHold`, `JsonReaderFollowsParser`, and `JsonIsADocument`: `Spec => IsADocument`,
the refinement of `JsonDocument`.

**`JsonProofs`, for `Serialization`.** `ShortMessageWasAnnounced` relates a message to the
calls before it, so `DeclaredInv` adds what lies between: the message on its way carries the
mapping its writer has, and a mapping that is declared and short is one whose declaration
has thrown. `CallDeclareSerializeMappingIfNeeded` sets its flag before the declarations, so
the exception comes once and every later call sends the short mapping without a word; the
theorem says that it did come. The writer of `json_spirit` is a recursive function on the
paths into a value, which keeps the module within the prover's reach.

**Only model-checked.** All liveness (fairness and ENABLED are outside the prover), and
`RoundTrip` and `CutNeverCorrupts` of `Serialization`: they are about what writing a tree and
then parsing the text, or a part of it, returns, the one a recursive function and the other a
fold of the parser over a text of any length. What those return for every tree needs an
induction over data that the prover cannot make.

## 6. Differences seen while modelling that have no run

Each run asks a question of its own; what follows was met in the code on the way. Where a
checked property leaves one of these out by a premise, the premise says so.

*Threads.*

- The end signal of one run may come after the `Reset` of the next, whose `StopThread` then
  returns at once: `ThreadIsRunning` is cleared (`Thread.cpp:217`) before `IsEnded` is
  signalled (`Thread.cpp:220`), and in between a `StartThread` finds nothing running.
  `Thread.h:110` promises that the thread has ended. `AnswersAreRight` counts it in `misled`.
- `StopWasAskedEvent` is never reset (`Thread.cpp:84` clears the flag alone): a `Run` that is
  restarted after a stop leaves `WaitForStop` (`Thread.h:193`) at once.
- `Event::Wait` without a timeout tests `Signaled` with an `if` and not in a loop
  (`Event.cpp:78`): a spurious wakeup passes. `thread_restart` allows it, and counts it
  in `misled`.
- `StartThread`: with parameter 0 it waits, with another it does not (`Thread.cpp:95`); the
  comment says the opposite (`Thread.h:103`). With 0 its wait ends early and it returns
  `false` although the thread was created (`Thread.cpp:100`, `Thread.h:104`).
- `StartThread` on a running thread does nothing (`Thread.cpp:78`); `Thread.h:102` says the
  running thread is stopped.
- `~Thread` waits only if `ThreadIsRunning` (`Thread.cpp:69`): when `Run` ends by itself, the
  object may be freed between the clearing of that flag and `IsEnded.Signal()`.
  `NoUseAfterFree` is checked where `Run` ends on request only.
- A `Run` that stops or joins its own `Thread` does not recognise itself
  (`Thread.cpp:126`, `170`) and waits for its own end.
- `new std::thread` lets the child run before `MyThread` has its pointer (`Thread.cpp:90`). A
  `Run` that stops itself at once finds null and not itself; when its wait ends without the
  end (a timeout, or a spurious wakeup), its `MyThread.reset()` (`Thread.cpp:159`) may fall
  between the store of the owner and `detach` (`Thread.cpp:93`). Then an attached
  `std::thread` is destroyed, which terminates the program, or `detach` goes through null or
  what was deleted; and when both threads `reset` at once one pointer may be deleted twice. Nobody but the
  owner and its child is needed, and the same happens with another thread in `StopThread`.
  `NeverTerminates` says that it takes such an overlap, in which `overlapped` is set.
- Two `StartThread` in a row, the second before the first child has set
  `ThreadIsRunning`, give two `Run`s (excluded by `Handshake`).
- `RemoveRef` and `IsStillUseful` are two calls (`MultipleReferencedData.cpp:50`): two
  threads that use them in place of `ReleaseData` can both find the object useless. The
  model lets only the keeper do so.

*Lists and locks.*

- `SimpleList::Insert` after the last element leaves `Tail` behind (`SimpleList.h:366`); the
  next `Add` links at the old `Tail` and the inserted element is lost.
- `SimpleList::InsertBefore` on the first element leaves `PreviousElement` null
  (`SimpleList.h:382`), so a `RemoveCurrent` after it writes through null; past the end it
  links behind the last cell without moving `Tail`. `ExtractFirst` does not look at the
  cursor. An assignment to itself empties the list (`SimpleList.h:297`,
  `MutexedSimpleList.h:198`).
- `a = b` and `b = a` of two `MutexedSimpleList`s in two threads wait for each other: each
  locks what it copies from and then itself (`MutexedSimpleList.h:195`).
- `SmartLocker::Lock(wait)` returns `true` even after its timeout (`LockManagement.cpp:69`),
  so a caller cannot tell that it does not hold the lock. Its `LockCount` stays 0, and it
  gives nothing back.
- With `DEBUG_MSL`, `MutexedSimpleList::Unlock` increments the count it should decrement
  (`MutexedSimpleList.h:279`).
- The cells of `SimpleRecycleList` never come from its store: the functions it overrides are
  not virtual.

*Shared segment.*

- Only a writer waits for `Initialized` (`SharedMemSegment.cpp:91`): a reader may read a
  segment that is not ready. A writer that gives up (`SharedMemSegment.cpp:107`) closes, and
  so removes, the segment its creator is still preparing.
- The result of `shmat` is compared with `NULL` (`SharedMemSegment.cpp:168`) where its
  failure is `(void*)-1`.
- Whoever closes removes the key (`SharedMemSegment.cpp:263`), while others are attached and
  more may want to open it.

*Memory tracking.*

- `DumpUnfreed` calls `delete` while it holds the mutex that `operator delete` locks
  (`TrackingMemoryLeaks.cpp:897`): with a leak to report, the program hangs.
- A block allocated under a client and deleted after the last one is given to `free` at an
  address inside the block (`TrackingMemoryLeaks.cpp:788`).
- When `malloc` fails `*addr` stays unset and is returned (`TrackingMemoryLeaks.cpp:771`).

*JSON and serialization.*

- `push` compares `top` with the limit and stores at `top` + 1 (`JSON_parser.cpp:373` to `395`):
  with a negative `depth`, or one as large as the stack in the object, it writes one past the
  end. `json_spirit` uses neither. `JSON_parser_done` also accepts a text that has not begun
  (`JSON_parser.cpp:1093`). The result of `new_JSON_parser` is not compared with null
  (`json_spirit_reader.cpp:387`).
- A failed read is refused only when its value is not an object
  (`StructuredMessage.cpp:88`): a list cut in its middle arrives short and is taken.
- `Put` appends a pair and `Find` returns the first (`StructuredMessage.cpp:214`, `158`): a
  key put twice keeps its first value.
- A `long` is cut to an `int` (`SerializeValue.cpp:156`); a `double` has six digits and, when
  it is integral, comes back as an integer that is refused (`SerializeValue.cpp:95`).
- A string is tried as JSON before it is a string (`SerializeValue.cpp:193`), so `"[]"`
  arrives as a list; the writer escapes nothing (`json_spirit_writer.cpp:67`). An empty
  `char *` aborts.
- The declarations are marked as made before they are (`Serializable.h:116`): after an
  exception the object goes on with those before it.

*Sockets, buffers, strings.*

- Below `TCP_BUFFER_SIZE`, `Send` calls `send` once and returns its short count; when a later
  part of a long message fails, the exception does not say how much was sent
  (`Socket.cpp:480`), and the socket stays usable: whoever sends the message again sends its
  beginning twice, and whoever goes on sends behind a torn one. `StreamIsExact` allows these
  repeats and no others.
- When `new` fails in `Accept` or `SetDescriptor` throws (`Socket.cpp:171` to `174`, `98`), the
  descriptor that `accept` gave stays open and no object has it. `DescriptorsAreOwned` says
  that these are the only such ones.
- `Select` answers `true` after an `EINTR` (`Socket.cpp:565`), its set being as it was.
- The result of `accept` is not tested (`Socket.cpp:170`), and the new `Socket` is leaked too
  when `SetDescriptor` throws.
- `ReplaceAll` does not end when the replacement contains the pattern (`SimpleString.cpp:285`).
- The copy constructor of `Message` copies from the new message into the old one, and its
  local `len` hides the member (`Message.cpp:29`).
- `MemoryBuffer::SetNewBufferSize` throws whenever it should grow and keep the data
  (`MemoryBuffer.cpp:32`).
