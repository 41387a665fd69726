# Verification of SystemCore

SystemCore (`src/`) is a small C++ framework: an application is a tree of
*processes*, objects with the virtual functions `initialize()`, `process()` and
`shutdown()`, which are *ticked* by their parent, by a thread of their own or by
a loop of the user. On top of it the repository has pipes between processes, a
TCP listener and a TCP transfer, a command terminal, a debug server, a log, a
single wire link for microcontrollers and a WLAN station.

This directory holds TLA+ modules that model that code, TLC configurations that
check them on small instances, and proofs, checked by TLAPS, that hold for
every instance.

## The system: components, state, interaction

| Component | State | Operations | Interaction |
|---|---|---|---|
| **Processing** (`Processing.{h,cpp}`) | per process: `mStateAbstract`, `mSuccess`, `mStatParent`, `mStatDrv`, `mDriver`, `mChildList` + `mChildListMtx`, `mpDriver` | `treeTick`, `start`, `cancel`, `repel`, `whenFinishedRepel`, `unusedSet`, `destroy`, `progress`, `processTreeStr`, `applicationClose` | every component is a process; parent and child share `mStatParent`/`mStatDrv` without a lock; the tree printer reads all lists |
| **Pipe** (`Pipe.h`) | queue of particles with two time stamps, size, parent pointer, list of children, `mSourceDone`, `mSinkDone`, three mutexes | `commit`, `get`, `toPushTry`, `connect`, `disconnect`, destructor | used between processes on different threads; a pipe pushes to its children |
| **TcpListening** | state, listening sockets v4/v6, `ppPeerFd`, limits | socket set-up, accept, `nextPeerFd`, shutdown | hands accepted descriptors to its parent by a `Pipe<SOCKET>` |
| **TcpTransfering** | state, socket, `mReadReady`, `mSendReady`, done bits, buffer | connect, `send`, `read`, `readFlush`, shutdown | called by its parent and, for logs, by the debug server |
| **SystemCommanding** | state, key decoder state, edit buffer, cursor, history, static command list | key handling, line editing, history, tab completion, `cmdReg`, automatic mode | reads and writes through its TcpTransfering child; command functions run in its tick |
| **SystemDebugging** | four listeners, list of peers, process tree text, log queue and its mutex | accept peers, check peers, send tree and log | starts a SystemCommanding or TcpTransfering per peer; its log hook is called from every thread |
| **Log** | level, entry callback, one mutex and buffer | `entryLogCreate` | called from everywhere |
| **SingleWire** (target side) and **SystemDebugging on stm32** | protocol state, output buffers, flags shared with interrupts | `dataReceived`, `dataSent`, `contentProcOut…` | interrupt callbacks against a ticked process |
| **EspWifiConnecting** | connection state, event group | event handlers, `process` | events of the WLAN driver against a ticked process |
| **hello-world** | `pApp` | main loop, signal handler | drives the root |
| `Processing.py`, generators, CI | – | – | not part of the running system |

### What is hard

* A child is ticked by another thread than its parent; the parent decides from
  two bytes which both write whether it may remove, join and delete the child.
* `mStatParent |= flags` is not atomic. It is done by the parent (`cancel()`,
  `repel()`, `whenFinishedRepel()`, `start()`) and by the child (`unusedSet()`
  in `PsFinishedPrepare`).
* `processTreeStr()` holds the mutex of one list per level while it descends,
  and the parents of removed children wait for these mutexes and for `join()`.
* Closing an application is a wave: down the tree as unused flags, up again as
  finished and deleted processes. One process that is missed keeps it open.
* Pipes are connected, filled, read and destroyed by processes on different
  threads, and push to one another.
* Sockets deliver parts of messages, refuse them, and end at any time.
* Key sequences, Telnet negotiation and line editing interleave byte by byte.
* Interrupts and events of drivers interleave with ticks.

`PROJECT.json` lists these as hazards, each with its line and the properties
that would catch it.

## Plan

Ordered by what the rest depends on.

1. **Process tree** (modelled, checked, proved): `ProcessTree` (abstract),
   `Processing`, `ProcessingInv`, `MCProcessing`, `ProcessingProofs`.
2. **Pipe** (modelled, checked, proved): `PipeStream` (abstract), `Pipe`, `MCPipe`,
   `PipeProofs`, `StreamProofs`.
3. **TcpTransfering** (modelled, checked, proved): `TcpTransfering`,
   `TransferingProofs`.
4. **SystemCommanding** (modelled, checked, proved): `LineEditing` (abstract),
   `KeyDecoding`, `SystemCommanding`, `MCCommanding`, `CommandingProofs`.
5. **TcpListening and SystemDebugging** (modelled and checked together, proved):
   `Ticking`, `TcpListening`, `ListeningProofs`, `SystemDebugging`, `MCServer`,
   `DebuggingProofs`.
6. **SingleWire with the debug process of the target** (modelled, checked, proved):
   `SingleWire`, `MCSingleWire`, `SingleWireProofs`.

Every safety property that a passing run checks is also a theorem. Left: the safety
that the liveness properties rest on and that is not a property of a run (what a
transfer promises to the server and to the terminal, which the two model in a few
states of their own instead of instantiating `TcpTransfering`).

## Modules

### `Processing`: the tree and its drivers

One module for the tree because its hard properties are about several processes
at once. A process is an element of `Procs`; a variable maps processes to the
member of the same meaning:

| Variable | Code |
|---|---|
| `mem` | the heap object: not created, live, deleted |
| `st`, `success`, `statParent`, `statDrv`, `driver` | `mStateAbstract`, `mSuccess`, `mStatParent`, `mStatDrv`, `mDriver` |
| `loop`, `burst` | the thread of `internalDrive()`, or the user's loop; ticks since it looked at `progress()` |
| `parent`, `children`, `ref` | who called `start()`; `mChildList`; the pointers a process still uses |
| `pc`, `cur`, `todo` | the active frame of `treeTick()` on the process: where, `pChild`, the rest of the list |
| `latch` | the value loaded by `mStatParent \|= flags` before its store |
| `walker`, `wlock`, `wat`, `wtodo` | `processTreeStr()`: who runs it, the mutexes it holds, its position |
| `opened` | history: `initialize()` has been entered |

Every access to something another thread reads or writes is a step of its own:
the visit of a child, the removal from the list, join and delete, each load and
each store of `mStatParent`, the choice of a driver in `start()` (from here on
the thread runs) and the insertion into the list. A frame of a process that its
parent drives lies inside the parent's frame (`pc = "child"`); processes with
another driver interleave freely.

What a concrete process does is not fixed. While its frame is in `"call"` it
may, in any order and number, start the children that `Starts` offers, cancel,
repel or whenFinishedRepel the children it holds pointers to (`Ops`), print the
tree (`Walkers`), and return Pending or any result in `Results`. So every
application whose tree is contained in the instance is covered. `Signal` is the
signal handler of `hello-world/main.cpp` and may come any number of times while the
root lives. The handler is installed before the root is created (`main.cpp:89`, `95`) and
stays installed when it has been destroyed (158); a signal at those times uses a NULL or a
freed pointer, and is outside of the model (see the observations).

`DriverFlag` keeps of `mStatDrv` what the driver and the walk look at: the driver's
end and `procTreeDisplaySet()`. The latter is called before `start()`, as in its only
use (`SystemCommanding.cpp:224`): `|=` and `&=` on `mStatDrv` (`Processing.cpp:339-345`) are
not atomic, so that a call for a child that has its own thread already could undo the
end which that thread has just marked, and the child would never be removed.

Left out: names, log messages, the text of the tree and its limits (a child may
be skipped by the walk at any time instead), `mLevelTree`, sleeping (a driver
may pause between any two steps anyway), a second `start()` of the same child,
several walks at a time, `procTreeDisplaySet()` behind `start()`, `disableTreeDefaultSet()`,
and the children array of builds without the C++
library. The list of children is a set: `treeTick()` visits each once, and the
order does not matter to any property here.

### `ProcessTree`: what the tree promises

Four variables-free sentences become four actions: only a working process spawns
children; a process can be released at any time before it is deleted; it
finishes its work; it is deleted after it has finished, has been released (the
root need not be) and everything below it has been deleted. `Processing!Tree`
instantiates it with a refinement mapping and `KeepsPromises` states that the
detailed tree, with threads, non-atomic flags and drivers, implements it.

### `ProcessingInv`, `ProcessingProofs`, `MCProcessing`

`ProcessingInv` has the inductive invariant `IInv`, in named parts. `MCProcessing`
has the values of the constants for TLC, `ProcessingProofs` the theorems.

### `Pipe`: queues in a tree

| Variable | Code |
|---|---|
| `mem` | the object: live, in its destructor, freed |
| `entries` | `mEntries` with `mSize`; particles are the numbers of their acceptance |
| `sourceDone`, `sinkDone` | `mSourceDone`, `mSinkDone` |
| `parents`, `children` | `mParentList`, `mChildList` |
| `childMtx`, `parentMtx` | who holds `mChildListMtx`, `mParentListMtx` |
| `at`, `call`, `todo`, `entry` | per thread: where it is in which call, the rest of a loop over children, the particle in its hands |
| `committed`, `out`, `ended` | history: what was accepted, what has left each pipe, who was told of the end |

`mEntryMtx` guards short sections that take no other mutex: each is one step.
The list mutexes are held across others and are variables. So `toPushTry()` is
eight actions (`PushBegin`, `PushCheck`, `PushReady` per child, `PushPop`,
`PushGive` per child, `PushGiven`, `PushLeft`, `PushEnd` per child, `PushDone`),
`connect()` and `disconnect()` are two halves, and the destructor goes through its
children one by one and then leaves its parents. `Calls` gives each thread the
calls it may make, in any order and number, so a program is a constant.

The order of siblings is left open (lists are sets). A pipe is named in calls
only while it lives, which is the caller's part; that no other pipe and no loop
refers to a freed one is the code's part (`ListsLive`).

Left out: the time stamps, and moves of entries. Read but not modelled: the move
constructor of an entry copies `t1` into `t2` (`Pipe.h:118`).

### `PipeStream`: what a tree of pipes promises

The source produces numbered particles and may close; a reader is given the next
one, or a later one below a pipe that does not wait for full children; it is
told of the end when nothing is missing, unless a receiver on its way has cut it
off. `Streams` states that `Pipe` implements this for all levels together.

### `TcpTransfering`: one connection

The variables have the names of the members. `life` is the part of
`mStateAbstract` that decides whether `shutdown()` runs: a process that is
cancelled before its first tick becomes `"skipped"`. `table`, `conn`,
`sentByPeer` and `inQueue` are the kernel and the peer: whose the number of our
descriptor is (after `close()` somebody else may get it), how the connection is,
and which bytes wait to be read. `got` and `answer` are what users were given.

`read()`, `send()` and `shutdown()` hold `mSocketFdMtx` throughout. `process()` uses
the descriptor without it while it connects; its users on other threads wait for
`mSendReady` (`SystemCommanding.cpp:238`, `SystemDebugging.cpp:412`, `457`), which
is set after that. Under this assumption about the callers a tick is one step. A
user that calls `read()` of a connecting client from another thread is outside of
the model: there `read()` may close the descriptor between the load of
`mSocketFd` and `poll()` or `connect()`.

Left out: how much `send()` hands over (it answers 0 when the kernel is full after
a part was taken; what that means for the peers of the debug server is in
`SystemDebugging`), counters, addresses, `exactRead()`, Windows.

### `LineEditing`, `KeyDecoding`, `SystemCommanding`: the terminal

`LineEditing` is what a user expects of a line editor: a line, a cursor, the lines
before it, and one action for each thing a key may do. `KeyDecoding` is the switch of
`ansiFilter()` as the set of its cases, each with a state, a byte, the next state
and the key that is complete; a byte without a case closes the terminal.
`SystemCommanding` has the rows, indices and copies of the code:

| Variable | Code |
|---|---|
| `life`, `mState`, `mModeAuto`, `diffMs`, `mDone` | the process, its mode and its time limit |
| `trans`, `told` | the state of the `TcpTransfering` child as its parent sees it; `doneSet()` |
| `mStateKey`, `mLastKeyWasTab` | the decoder and the rule of the second tab |
| `mCmdInBuf`, `mIdxLineEdit`, `mIdxLineView`, `mIdxLineLast`, `mIdxColCursor`, `mIdxColLineEnd` | the ring of rows |
| `cmds` | the list of commands, which other processes extend between two ticks |
| `buf`, `changed` | what is left of one `read()`; whether a prompt is due |
| `shown`, `ran` | what `promptSend()` wrote last; the line being executed |

A tick of `StMain` is one step per byte, so that an invariant holds between any two
bytes of a sequence; nobody else moves before the bytes of a `read()` are used up.
Inputs arrive whole or in parts, `Connection` ends at any time, and commands are
registered while lines are edited. `Edits` states that rows and indices implement
`LineEditing`.

Left out: what commands do, and the list of candidates that a second tab prints.

### `Ticking`, `TcpListening`, `SystemDebugging`: the debug server

`Ticking` is `treeTick()` of a process that its parent drives, as a function of its
state: for modules that follow several such processes, tick by tick.

`TcpListening` has any number of listeners. A tick that accepts is a step for each
`accept()`, as the queue may be taken from and filled in between. An accepted
connection whose address cannot be read (`TcpListening.cpp:322`) ends the listener, and its
descriptor is lost: `Lose`, after which `fd` of the connection is `"lost"`. Its machine
`LstSpec` leaves open who takes from the queues and closes what was taken.

`SystemDebugging` composes four listeners with the processes that the server starts:

| Variable | Code |
|---|---|
| `sd`, `children`, `todo`, `part` | the server, its `mChildList`, who is still to be ticked, where the tick of the server is |
| `tr`, `cmd` | the `TcpTransfering` and the `SystemCommanding` of each connection |
| `client` | the other end of each connection |
| `mPeerList`, `mProcTree`, `mProcTreeChanged`, `mProcTreePeerAdded`, `elapsed` | members, the time since `mProcTreeChangedTime` |
| `qLogEntries`, `popped`, `logged` | the queue of the hook, what was taken from it, what was logged |
| `seen`, `refused` | history: the tree that each connection took last, and who did not take the last one |
| `last`, `missed` | history: the entry that each connection took last, and those since it joined that it did not take |

Transfers and terminals are as detailed as the server needs them: when they end, by
themselves, by their client or by the server, and who closes the descriptor. The
whole of them is in their own modules. `send()` to a peer (`SendsAll`) has one of three
results, and the server looks at none of them (`SystemDebugging.cpp:416`, `461`): the
connection takes everything; it is broken, and is closed at once; or the kernel takes a part or
nothing, as the client does not read (`"full"`). In the last two cases the tree or the
entry is recorded as refused or missed by this peer. The list of peers is a set: no property tells in which
order they are served. `todo` is the list of children as it is when a round begins
(`RoundBegins`), so a child that is started in a round is ticked in the next one. The
transfer of a terminal is ticked before the terminal: between the two, `TurnOf(c)` stands
at the head of `todo`. The server and its children are ticked by
one thread; a client, the clock, the threads that log and the parent that repels
the server move at the steps where the server can see it (`IsSeen` and the guards
of `Cancel`, `TimePasses`, `EntryLogEnqueue`): moves in between commute with the
steps up to there.

`Listens` states that the composition implements `LstSpec`, so that what is proved of
listeners with arbitrary users holds of the listeners of the server.

### `SingleWire`: the debug link of a microcontroller

One loop ticks the transfer process and, above it, the debug process; interrupts
(`dataReceived()`, `dataSent()`) come between any two steps.

| Variable | Code |
|---|---|
| `mState`, `mSyncedTransfer`, `mValidIdTx`, `mpDataTx` | `SingleWireTransfering` |
| `tx` | `mBufTxPending` with what is being sent |
| `mBufId`, `mStateRcv`, `mIdxBufDataWrite`, `inCmd`, `ends` | the receiver, `mBufInCmd` and the end bytes in it that `dataInTerminate()` has not found yet |
| `mValidBuf`, `mModeDebug` | the flags both processes share |
| `dbgState`, `mStateCmd`, `mCntDelay`, `outCmd`, `outLog`, `logOvf` | `SystemDebugging` of the target and what its buffers hold |
| `pc` | the loop that waits in place for the end of a transfer, when log entries are sent at once |

The scheduler at the other end is not in the repository. The model's scheduler asks
for a content and waits for it, sends one command at a time, and may lose any byte.
With `SchedWaits` it begins the next command after the answer, or when the target has
come to an end with the last one (`IsIdle`); without it, whenever it likes. `IsTicked` says
that the link is half duplex: the last byte of a command does not arrive within the two
ticks in which the transfer process finishes what it sends. `EndsAtStart` is the number of
end bytes that the uninitialised `mBufInCmd` may hold, `stale` how many it does hold. What
only holds for a scheduler that waits and a memory with one such byte at most says so:
`OneByOne` is a premise in the properties, and no assumption of the module.

## Runs

| Run | Instance | Shows |
|---|---|---|
| `drivers` | root and one child, any of the three drivers, all calls, both results, bursts of 2, root prints the tree | `IInv`, `PointerValid`, `ShutdownBeforeDelete`, `FlagsSticky` |
| `tree` | root, a thread, a thread below the thread, `repel()`, the root prints the tree | `DriversLive`, `TreeGone`, `WalkLive`, `BottomUp` |
| `close` | root, which prints the tree again and again, and a thread, with fairness | `UnusedDestroyed`, `RepelledInTime`, `KeepsPromises` |
| `pipe_stream` | four pipes of one entry on two levels, one that does not wait, two threads that push the source, a reader that quits, 3 particles | `QueueInv`, `Streams` |
| `pipe_deliver` | the same tree, all waiting, a pump for each level, 2 particles, with fairness | `Delivered`, `EndArrives` |
| `pipe_connect` | three threads: two owners that connect the same child; pipes of both levels that leave and are destroyed, by two threads, while a parent is pushed | `ListsLive`, `LinksAgree`, `UpToOneParent`, `CirclesAreLeavers`, `DestroyEnds` |
| `pipe_leave` | a parent and a child on two threads | finding: destructor against `parentDisconnect()` |
| `transfer` | an accepted or an opened connection, 3 bytes, reads of 2, a time limit of 2, cancelled at any time, with fairness | `TypeOK`, `DescriptorOwned`, `NothingLost`, `SendsWhenConnected`, `ResultTells`, `NegativeIsFinal`, `Ends`, `ConnectEnds` |
| `commanding` | three rows of two characters, 15 inputs from a letter to parts of a key sequence, two commands, both modes, with fairness | `EditInv`, `ShownIsLine`, `Edits`, `SessionEnds` |
| `commanding_blank` | a letter, a blank and the enter key | finding: a line that begins with a blank |
| `server` | four listeners with queues of one, one port that may be occupied, a client of any port that does not read and leaves when it likes, a second client of the log, two log entries, a repel in any tick, with fairness | `ServerInv`, `Listens`, `TreeShown`, `LogDelivered`, `ServerEnds` |
| `target` | two commands with texts that fit the buffer or do not, a log entry, a delay of seven ticks, up to two left-over end bytes, both modes of logging, with fairness | `WireInv`, `AnsweredOnce`, `CmdAnswered` |

Bounds of the tree: the number of processes (two or three), and `NumBurst` (1 or 2
instead of 13, `Processing.cpp:102`, and 12, `main.cpp:120`). Nothing else is bounded: a process may call and be ticked
for ever. Two processes suffice for everything between one parent and one child,
under every driver; three are needed for a chain of drivers and for a walk two
levels deep. The proofs below lift the invariants to any number.

Bounds of the pipes: `NumParticles` and the sizes. With one entry every pipe is
full after one particle, so every push meets full and empty children; three
particles are in flight at once on the way from the source to a reader on the
second level, and a gap, a swap or a repetition needs two. Two levels are needed
for the end to overtake a particle, two pumps for a push that meets another. Locks are
only taken along a link, so two threads on both ends of a link are what a circle needs:
in `pipe_connect` the threads that destroy, disconnect and connect are not the same, and
the circle that exists is reached (`LeaveEachOther`).

Bounds of the connection: `NumBytes` is one more than a read takes, so that reads
take all, a part and nothing; `TmoConnDone` of two ticks of the clock lets answers
come before, at and after the limit.

Bounds of the terminal: with three rows the ring goes round after the third line, a
line of two characters has a first, an inner and a last place for the cursor, and the
inputs have at least one of each kind: what inserts, removes, moves, recalls,
completes, acknowledges and ends, a sequence in two parts, and a negotiation. One of
the two commands is a completion of the other one's first letter, so that there are
none, one and two candidates.

Bounds of the server: a queue of one is full after one connection, so connections are
queued, dropped and left over; two clients give an order of peers and one that joins
while another leaves; two log entries are what can be repeated, swapped or skipped; one client
reads and one does not, so that what is lost for one is seen by the other. A
tick of the clock stands for `mUpdateMs`.

Bounds of the target: a command that is overwritten, mixed up or answered twice needs
a second one. With two left-over end bytes each case of `OneByOne` is reached: none, one, and
more than one. One log entry meets everything that is sent: it is made before, in and
behind a command, an answer and a tree, and overflows when its buffer is in use; the
theorems hold for any number. `CntDelayMin` is longer than the way from the debug mode
to the content behind the first answer, so that trees and answers meet in both orders;
with less the first tree always comes before the first answer.

### Fairness

`FairSpec` assumes what the scheduler of the operating system and the contract
of the framework give: every thread, the main loop and every frame keep running
(`Progressing`, weak); every virtual function returns after it has made its
finitely many calls (`CallPending` or `Complete`, weak); `shutdown()` does not
return Pending for ever (`ShutdownDone`, strong: the frame is left and entered
again between two answers); a mutex that is free again and again is obtained
(`Locking`, strong: the walk releases it for the whole pause between two prints);
a walk goes on (weak); `main()` goes on (`RootDestroy`, weak). Nothing is assumed
about `initialize()` and `process()` finishing, about `start()`, `repel()` and
signals happening, or about the walk being started. `cancel()` is not in the
instances of the liveness runs: a function that calls it for ever never returns.

In the runs of pipes, `FairSpec` assumes that pumps push and readers read again and
again, as processes that are ticked do, and that a thread gets a mutex that is
free again and again (strong fairness of pushing and of the list steps: the
mutex of a list is free between two pushes). Nothing is assumed about commits,
the ends of sources and sinks, and about connecting.

In the run of the connection, the process is ticked (`Tick`, weak) and time passes
(`TimePasses`, weak). Neither users nor the peer nor the network need to do
anything, and no call of the system needs to fail (`PollFails` is not a part of `Tick`): a
connect that is never answered ends by its time limit and by nothing else.

In the run of the terminal, the process is ticked (`Tick`, weak) and time passes while
it waits for an automatic command (weak); nobody needs to type, and neither a command nor
an automatic command needs to be received (`MainReceive` and `CmdAutoReceive` are not parts
of `Tick`). In that of the
server, its thread goes on ticking (`Tick`, weak) and time passes (`TimePasses`,
strong, as the model lets it pass at one step of the tick only); clients, threads
that log and the parent do nothing unless they want to. In that of the target, the
loop runs and what is sent arrives (`Loop`, `DataSent`, weak), and the scheduler goes
on polling and finishes the bytes of a command it has begun (`Poll`, `ByteArrives`,
strong, as the target may be busy in between).

## Findings

* **A pipe is destroyed while its child leaves** (`pipe_leave`): the destructor
  holds `mChildListMtx` of the parent and asks for `mParentListMtx` of the child,
  `parentDisconnect()` the other way round. `Pipe.h:49` says "Thread safe".
* **A blank runs a command** (`commanding_blank`): the word of a line that begins with
  a blank is empty, and `commandExecute()` finds it equal to the empty shortcut of the
  first command without one, which is executed instead of "Command not found".

Observed while modelling, without a run:

* Tree: `treeTick()` sets the result when `process()` (or a failing `initialize()`)
  returns, before `shutdown()`, while `TcpListening.md:98` says that `success()` returns
  Pending as long as the process is not finished. `whenFinishedRepel()` of a child
  that has passed `PsFinishedPrepare` is in vain. A process that is cancelled before
  its first tick never gets `shutdown()`: a `TcpTransfering` that was created with a
  descriptor leaks it. The signal handler of `hello-world` (`main.cpp:67-73`) uses `pApp`
  before it is set and after it has been destroyed.
* Pipe: `get()` of a pipe with children takes the particle between the check (394) and
  the pop (420) of `toPushTry()`; `connect()` of one parent between the halves of
  `disconnect()` of another gives the child two parents; `toPushTry()` goes on as long
  as particles come.
* Connection: `readFlush()` (`TcpTransfering.cpp:394`) never ends on a closed
  connection; `read()` of a connection that failed before its options were set
  answers 0, "data can be expected", for ever.
* Terminal: after IAC everything but DO is swallowed (`StKeyIacWont` is never
  entered); most function keys are computed from the byte instead of its digit
  (1272); a read that is a lone ESC is dropped (426), so that a sequence that is split
  behind it types its rest; an automatic command that fills the row writes its zero
  into the next one (369), and an empty one is taken from before the first row; a
  command is shadowed by a shortcut with its name.
* Server: a `create()` that fails (338, 322) and a failing `sockaddrInfoGet()`
  (`TcpListening.cpp:322`) leak the descriptor; the results of `send()` to peers are ignored
  (416, 461): a log entry is popped first and is lost for a peer that does not take it, and
  such a peer sees the tree again at its next change only, while the others have it; the log hook is never taken back, so
  that the queue grows when the server has ended. No descriptor is lost to a
  cancellation before the first tick only because the server marks its children two
  ticks after it has seen its own.
* Target: in `StCmdReceive` `mBufId[1]` is let go of before the command is interpreted
  when the last answer is still unsent, so that a scheduler that does not wait
  overwrites it; a command whose end arrives within the two ticks behind an answer is
  lost: `mValidIdTx` still names that answer, and `StContentOutSent` lets go of
  `mBufId[1]`, which is now that of the new command (`IsTicked` excludes it); a content
  of none leaves `mValidIdTx` as it was, and the flag of a
  log entry that was made since is cleared without `logOvf`; when log entries are
  sent at once, one in the middle of an answer changes `mValidIdTx`: the answer is
  sent again, and a later one is lost; `mBufInCmd` is not initialised, and two end
  bytes in it make a command out of nothing: the one before is answered twice, and the one
  behind it may be overwritten or lost (TLC finds each of them when `OneByOne` is dropped).

## Proofs

Eight modules hold proofs. Each begins with the invariant it needs, in named parts, then
one lemma per action, then the theorems. Where a theorem needs a condition on the callers
(`ASSUME ... PROVE Spec => ...`), the condition is a definition of its own; the last
section collects them. Without such a condition a theorem needs nothing but the named
assumption on the constants of its module.

### The tree

`ProcessingProofs` proves for every instance that satisfies
`ProcessingAssumption`, that is for any set of processes, any program of
`start()` calls, any walkers and any burst:

| Theorem | Property |
|---|---|
| `Invariance` | `Spec => []IInv` |
| `TypeCorrect` | `TypeOK`, a part of `IInv` |
| `DriversStayLive` | `DriversLive` |
| `PointersStayValid` | `PointerValid` |
| `WalkStaysLive` | `WalkLive` |
| `DeletedBottomUp` | `BottomUp` |
| `TreeIsGone` | `TreeGone` |
| `NoFlagIsLost` | `FlagsSticky` |
| `ShutDownFirst` | `ShutdownBeforeDelete` |
| `TreeKeepsPromises` | `KeepsPromises`, the refinement of `ProcessTree` |

The properties are not inductive: that a deleted process has no running thread
follows from its being undriven, unused and out of the list before, which the
frames, the flags and the list only guarantee together. `IInv` says

* *tree*: child lists and parent pointers describe the same tree; a live process
  is in its parent's list except while the parent is starting or removing it;
  there is no cycle (`Acyclic`, stated as: every set of live processes has one
  whose parent is outside of it);
* *frames*: what a frame points to is a child in the list, and a process driven
  by its parent only runs inside the parent's visit;
* *end*: undriven means finished, childless, without frame, and for a user's
  loop that it has been left; only undriven and unused children are removed;
* *pointers*: a child that its parent still holds is in the list, is not marked
  unused or to be repelled, and nobody has such a mark in flight;
* *walk*: the mutexes held are those of a path from the root.

`TreeGone` is the one that needs `Acyclic`: among the processes still live below
a finished root there would be one whose parent is the root.

`FlagsSticky` needs `StickyInv` besides: `mStatParent |= flags` loses what another
thread stored between its load and its store, so the proof has to say who may be there
at the same time. Two stores to one `mStatParent` are outstanding together only when both
write the mark of an unused child: one by the parent, one by the process itself, and the
latter only if it was asked to be repelled when finished, after which its parent has
nothing else to write. `ShutdownBeforeDelete` needs `ShutdownInv`: who has been opened
gets past `DownShutting` only by the end of `shutdown()`. For the refinement,
`KindOfStep` sorts the actions by what they change of a process (its state, its flags, its
existence, or nothing of these), and `TreeStep` maps each kind to an action of
`ProcessTree` or to a stutter; that a deleted process has no living child is `IInv`.

`LoadKeeps` and `LeaveKeeps` are shared by the actions that load `mStatParent` and by
those that end a `treeTick()`.

### The pipes

`PipeProofs` is about any pipes, threads, sizes, particles and calls.

| Theorem | Property | Condition |
|---|---|---|
| `QueuesBounded` | `TypeOK` | – |
| `PushesFindTheirParticle` | `QueueInv` | `ReadersDoNotPush` |
| `OneParentAtMost` | `UpToOneParent` | `ConnectsAlone` |
| `BothListsAgree` | `LinksAgree` | `ConnectsAlone` |
| `NothingDangles` | `ListsLive` | `ConnectsAlone` |
| `OnlyLeaversDeadlock` | `CirclesAreLeavers` | – |

`Types`, `Framed` (a thread is where its call leads it) and `Locks` (who is in a push or a
destructor holds the mutex, and nobody else does) hold without any condition. `Seen`
carries what a push saw when it looked at its queue over to its pop: other pushes wait
for `mChildListMtx`, and a `get()` would be a second consumer. `Links` is inductive only as
a whole: the lists agree up to the half that a thread has still to do (`HalvesMatch`),
which needs that the pipes a thread works on live (`NamesLive`) and that a pipe has one
parent (`OneParent`), which in turn needs that nobody else undoes the first half
(`ConnectsAlone`). `OnlyLeaversDeadlock` has no condition. In a circle everybody waits; who
waits with the mutex of a list of children in its hand is in a destructor, and who waits with that
of a list of parents is leaving (`Locks`). So one that leaves waits for the destructor of
its own parent, a destructor waits for one that leaves, and everybody else in the circle
waits for one of these two: a pair of them exists.

`StreamProofs` proves `TreeIsAStream`: under `StreamUse`, `Pipe` implements `PipeStream`
for any tree and all its levels together. The account of a pipe is what has left it with
what waits in it, so that taking a particle does not change it. In `StreamInv`

* `Static`: nothing but pushes is under way, and the lists are those of the tree;
* `Room`: a child that a push has found not full stays so until it gets the particle;
* `Ends`: the mark of the end is only where the parent is marked and empty;
* `Counted`, `Passed`: on ways without losses the account of a pipe is `1, 2, 3, ...`, and as
  long as what its parent has let go, but for a particle that is just handed out and for
  those it refused since its sink is done;
* `ToldLast`: who is told of the end has accepted everything;
* `InOrder`: on ways with losses, accounts still increase and are behind the parent's.

### The connection

`TransferingProofs` proves for any `TmoConnDone`, `LenBuf` and `NumBytes` that satisfy
`TransferingAssumption`:

| Theorem | Property |
|---|---|
| `TypeCorrect` | `TypeOK` |
| `DescriptorsOwned` | `DescriptorOwned` |
| `SendsOnlyWhenConnected` | `SendsWhenConnected` |
| `NegativeStaysFinal` | `NegativeIsFinal` |
| `ResultIsTrue` | `ResultTells` |
| `NoByteLost` | `NothingLost` |

`TransferInv` adds what the states of a client mean: before the socket is opened
there is none, and nothing to read from; a connection that is announced has been
established; whoever was told of the end finds the socket closed. `EndInv` rests on
it and says why a socket is closed while the process works on: an error is kept
in `mErrno`, or the peer has ended the connection and nothing was left to read.
`Ordered` is about the two sequences of bytes only; it needs that concatenation
is associative and that the two parts of a sequence make the whole, which
`SequenceTheorems` has. `WatchInv` is what is left of the types, with the connections
that are watched: those that `read()` looks at.

### The terminal

`CommandingProofs` proves for any number and length of rows, any command list and any
inputs:

| Theorem | Property | Condition |
|---|---|---|
| `EditorKeepsItsRows` | `EditInv` | – |
| `UserSeesTheLine` | `ShownIsLine` | – |
| `TerminalEdits` | `Edits`, the refinement of `LineEditing` | `Typeable` |

`TermInv` holds between any two bytes. `LineKept` keeps the place for the zero; `Ring` says
that the rows behind the line are its history: used rows without a gap, no line twice in
a row; `Viewed` that only used rows are looked at, `Modes` that the automatic mode uses row
0 only, `Shown` that the prompt sent last is the line, or that another one is due. That
`mIdxLineEdit + 1` modulo the number of rows is both the next line and the oldest one
makes the arithmetic of the ring a matter of its own (`RingBefore`, `RingNext`,
`RingDistance`).

The history of `LineEditing` is a sequence that `Edits` reads off the ring, of the length
`HistLen`, a `CHOOSE`: that there is one and only one such length follows from `Ring` and the least
number of an unused row (`LeastOf`, from the well-foundedness of `<`). Each key is then a
step of the editor (`KeyMaps`), and an acknowledged line is put before the history unless
it is its first already.

### The listeners and the debug server

`ListeningProofs` proves `ListenersKeepTheirPeers`, that `LstSpec` implies `[]ListeningInv`,
for any set of listeners, limits, ports, families and clients: `LstTypeOK` (types),
`QueuedOnce` (what is queued is open, was not taken, and is in one place),
`OpenIsHeld` (what is open is with a user or in a queue; what `Lose` has leaked is `"lost"` and
nobody's), `QueueLimit`. It is needed as a
whole: `LstShutdown` closes what is queued, and only `QueuedOnce` says that nobody else
holds it. The lemmas about `Append` and `Tail` say where an element of a queue comes from.

`DebuggingProofs` proves for any listeners, clients and numbers of log entries:

| Theorem | Property |
|---|---|
| `UsesItsListeners` | `Listens`: the composition implements `LstSpec` |
| `ServerClosesAll` | `ServerInv` |
| `PeersSeeTheTree` | `SeenByAll` in every tick of the server behind the tree: every peer has the last tree, but for those that did not take it: the safety part of `TreeShown` |
| `PeersGetEachEntry` | `LogCurrent`, `LogInOrder`: entries in order and none twice, and of those since it joined a peer lacks only what its own connection did not take: the safety part of `LogDelivered` |

`ServerInv` counts who closes a descriptor: exactly one process while it is open and
taken, and none is open at the end. This is a matter of ticks. A process that is
marked as unused before its first tick never gets `shutdown()`, so a transfer with a
descriptor would leak it; the server marks its children only two ticks after it has seen
its own mark. The proof needs that a child is always ahead of the server on this way:
`ConnInv` (`CommandAhead`, `TransferAhead`) compares their ages, one visit more or less
according to whether the round has come to the child, and `Rounds`, `ListedFor` and
`ListenersListed` say that the round comes to every child. `PeersKept` says that nobody
in the list of peers is marked while the server works.

`TreeInv` and `LogInv` say that peers of one kind that took the last tree have all seen
the same, a new one from the moment it is added; that the queue of the log holds
what lies between the last entry that was taken and the last one that was made; and
that `missed` of a peer has every entry popped since the last one it took. They do not
promise that entries arrive: the code does not.

### The target

`SingleWireProofs` has two parts. `BuffersKept`, the conjunct `BufferKept` of `WireInv`:
what is being sent is marked as valid and still in its buffer. By itself it is not
inductive: that no answer is written while one is sent follows from `Marked` (whoever
is going to write an answer has seen that the buffer is free, and only he fills
it), and that no flag is cleared while something is sent from `Waited` (the transfer
process is in `StContentOutSentWait`, or the loop waits in place). It needs nothing of
the scheduler: the steps of the wire may come at any time.

`WireKept` (`WireInv`) and `AnswersOnce` (`AnsweredOnce`) follow a command from the scheduler to
its answer, for any number of commands and log entries. Their invariant has two
layers. `BaseInv` holds for every scheduler and every content of the memory; it rests on
nothing but the half-duplex wire (`IsTicked`):

* `Placed`: while contents go out no command waits at `mBufId`;
* `Ordered`: what the buffers hold has been sent before, and the command that is being sent
  is in none of them and has no answer;
* `Pointed`: before the first "no content" something has been sent, so that `mpDataTx` points
  to a buffer;
* `Twice`: no command has more than two answers, and one that is in the input buffer or
  waits to be sent has one answer less for each of these places.

`LinkInv` is about the lockstep of the two processes, which one loop ticks in turn, and
is inductive under `OneByOne`:

* `Numbered`: buffers, flags and states all speak of the same command;
* `Quietly`: the interrupt writes into `mBufInCmd` only when nothing is left of the last
  command;
* `EndsLeft`: how many end bytes may be left at which point of the turn. While
  `mBufId[1]` names a command, the transfer process looks for its end again and again; an
  end byte more is taken for one more command, which `stale <= 1` bounds;
* `Once`: an answer that has been received is either not marked any more, or on the way to
  be unmarked before the next content is chosen.

`LinkInvariance` proves `[](BaseInv /\ (OneByOne => LinkInv))`; `OneByOne` never changes, so
that its layer can be dropped where it is false.

### Conditions

| Condition | Of | Why the code justifies it |
|---|---|---|
| `ReadersDoNotPush` | `PushesFindTheirParticle`, `TreeIsAStream` | a pipe has one consumer: its user or its children; with both, `get()` takes the particle between the check (394) and the pop (420) |
| `ConnectsAlone` | the lists of pipes | the code leaves it to its users: `connect()` and `disconnect()` take the two mutexes one after the other, so of two threads that do both to one child, one gets between the halves of the other (see the observations); any number of threads may connect a child that nobody else takes away |
| `StreamUse` | `TreeIsAStream` | the tree is built before particles flow, and the user ends the source only: what `PipeStream` is about. Trees that change are the subject of the lists |
| `Typeable` | `TerminalEdits` | command names are made of characters that can be typed, as all those that the repository registers are; another one could be completed to something that is no line of `LineEditing` |

The instances of the runs that check these properties satisfy the conditions.

### Only model-checked

Everything that needs fairness, which is beyond TLAPS: `UnusedDestroyed`,
`RepelledInTime`, `Delivered`, `EndArrives`, `DestroyEnds`, `Ends`, `ConnectEnds`, `SessionEnds`,
`ServerEnds`, `CmdAnswered`, and the parts of `TreeShown` and `LogDelivered` that say that trees
and log entries are sent in the end. The two findings are runs: `NoCircularWait`, which the
code breaks in the way that `CirclesAreLeavers` leaves, and `RunsNamed`.

## Not modelled

* **Log**: one function under one mutex that makes texts; the hooks that it calls are
  actions of `SystemDebugging` and `SingleWire`.
* **EspWifiConnecting**: a sequence of library calls. Its hazard, a wait without a limit
  for a bit that is never set (289, 376), is seen without a model.
* **Processing.py**: a port of the tree with drivers by parents only, which `Processing`
  covers. **Generated code, build files and scripts** are not part of the system.
* In the modelled components: what texts look like, statistics, Windows, the builds
  without the C++ library, and what `PROJECT.json` names for each.
