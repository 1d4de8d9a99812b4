# TLA+ models of the GRAMS TOF DAQ library

This directory models the part of the repository that runs on the flight
computer: it takes commands from a hub over TCP, runs a DAQ loop in a thread,
serves the acquisition scripts over a Unix socket, receives raw data from the
front end over UDP into a ring of frames in shared memory, and turns calibration
runs into the tables it uses. It also models the server program
(`tools/grams_tof_server_daq.cpp`) and the thread pipeline of the offline
conversion. Numerical fits, vendored libraries and register encodings are not
modelled. Source paths below are relative to `src/FlightOps`.

To check a run: `tlc -config <cfg> <Module>`. To check the proofs of a module:
`tlapm <Module>Proofs.tla`. `PROJECT.json` ties every definition to the lines it
models, lists the runs and theorems, and gives for each property a small
mutation of the model (the operators with a comment "Mutated form of ...") that
breaks it.

## 1. The system

### Threads and processes

| actor | started by | what it does |
|---|---|---|
| main thread | `tools/grams_tof_client_daq.cpp` | `DAQController::run`, then stops the clients and destroys everything |
| command thread | `CommandClient::start` | reads commands, runs their handlers, sends the CALLBACKs |
| event thread | `EventClient::start` | keeps the event connection alive |
| DAQ thread (`daqThread_`) | START_DAQ, RESET_DAQ | `DAQManager::run`: answers the scripts and daqd requests |
| UDP worker | `FrameServer::startWorker` | copies frames from UDP into the ring |
| script | the embedded Python, on the command thread | `daqd.py`: configuration commands and `acquire()` |
| `write_raw` | `acquire()` | a process that reads blocks of the ring through shared memory |
| command server, event server, heart beat | `grams_tof_server_daq`, instead of the two clients | accept hubs and listeners, run commands, send CALLBACK and HEART_BEAT |
| pool workers | `ThreadPool`, in an analysis | take the buffers of a file through the stages of a conversion |

### Components, their state, and where it is hard

**DAQ life cycle** (`GRAMS_TOF_CommandDispatch`, `DAQManager`, `DAQController`).
State: `daqThread_`, `daqRunning_`, `daqMutex_`, the global stop flag, the raw
pointer `frameServer_`, the listening socket. Operations: START_DAQ, STOP_DAQ,
RESET_DAQ, script commands, signals, shutdown. Hard: the stop flag is cleared by
the thread it is meant for; START joins a thread while it holds a lock that the
thread also takes; RESET frees what the loop uses; `cleanup()` leaves the
pointer; scripts wait without a time limit. Correct if no join waits for a
thread that cannot end, the loop never uses a deleted server, `daqRunning_`
tells the truth where decisions are made on it, and every command ends.

**Frame ring** (`UDPFrameServer`, `FrameServer`, `Client`, `daqd.py`,
`write_raw`). State: the slots (shared memory, no lock), two pointers that run
over twice the ring, `acquisitionMode`, `die`, `minimumFrameID`. Hard: the
worker tests for room and pushes in two critical sections with the copy between
them; a start wipes the pointers while the worker still runs; the reader works
without the lock. Correct if the ring is a bounded queue and no slot is written
while it may be read.

**Front-end commands** (`daqd.py` `sendCommand`, `UDPFrameServer::sendCommand`).
State: the serial number, replies in the socket and in `replyQueue`. Hard:
replies that are lost or come after their wait was given up, retries, the wrap
of the number. Correct if a reply is never taken for that of another command
that could be told from it, and every command returns.

**Hub links** (`CommandClient`, `EventClient`, `Client`, `FDManager`). State:
connection objects, descriptors by number in two registries. Hard: a descriptor
is known by its number in several places and may be closed twice while other
threads open new ones; `stop()` takes the connection away from under the loop.
Correct if the links come back, nothing leaks, and a client only touches its own
descriptor.

**Command stream** (`CommandClient::run`, `CommandCodec`,
`DAQController::handleIncomingCommand`, `EventClient::sendPacket`). State: bytes
not yet consumed, the packet at hand, the two connections. Hard: packets cut and
joined anywhere, malformed ones, losses of either connection between any two of
read, acknowledge, execute and CALLBACK. Correct if the commands executed are a
prefix of those sent, and what the hub is told agrees with it.

**Hub servers** (`CommandServer`, `EventServer`, `Client`, `FDManager`). State:
each server's `clientList_`, `clientListMutex_`, the registry of descriptors by
number, the stop flags. Hard: `send()` and `heartbeatLoop()` keep raw pointers to
clients after they gave up the lock; a client is closed without the lock and its
entry erased by number, which may by then be another connection's; sends stop half
way when a listener does not read; an acknowledgement reads an argument it does
not have. Correct if nothing leaks, a reported success is one, the threads do each
other no harm while nobody is lost, and the shutdown ends.

**Calibration files** (`Config`, `Analyzer`, the RUN_ACQUIRE, RUN_PROCESS and
RUN_CONVERT handlers, the scripts and programs they call). State: the files on disk,
named by kind and time, and the links that are the tables in use. Hard: names are
compared as text and milliseconds written without zeros; the newest name may be of a
failed run; the table is set whatever the analysis answered; a kill may come between
any two file operations. Correct if TRUE means that the table is the one asked for,
and a table is complete and never older than the one before.

**Event pipeline** (`ThreadPool`, `OrderedEventHandler`, `RawReader::processStep`).
State: the pool's queue and flags, each worker's place, the ordered stage's
`expectedSeqN`. Hard: tasks wait for each other on the workers' threads;
`completeQueue()` counts workers instead of waiting for a condition; the pool is
destroyed while workers may run. Correct if the buffers leave in the order of the
file, each once, and the step ends.

**Not modelled**: the frame server for DAQ cards, which frames `write_raw`
counts as lost, the event stages, reading the `.ini` file, the Python marshalling,
register encodings, numerical fits, the stand-alone `daqd`, the kernel driver, the
vendored libraries. `PROJECT.json` gives the reason for each.

### Interactions

The hub's bytes reach the command thread (CommandStream, over a connection of
HubLinks); a command changes the life cycle (DaqControl) or runs a script there;
the script asks the DAQ thread, over the socket whose service DaqControl models,
for front-end commands (FrontEndCommand) and for acquisitions (FrameRing). The
modules meet at these points: DaqControl's `script_wait` is any request of a
script; CommandStream's `Execute` is any handler of DaqControl, taken to end;
FrameRing and FrontEndCommand take a live DAQ loop, which is what
`LoopUsesLiveServer` of DaqControl says. RUN_ACQUIRE commands leave files by way of a
script and `write_raw` (CalibrationFiles: `CreateFile`, `AcquireMore`,
`EndAcquire`); RUN_PROCESS and RUN_CONVERT call analyses, some of which run the
pipeline of EventPipeline inside. HubServers is another program with the same
handlers: its `Receive` is CommandStream's read, acknowledge and execute in one.

The hazards of this code are listed in `PROJECT.json`, each with the properties
that would notice it going wrong, or why none does yet.

## 2. The modules

| module | models |
|---|---|
| `DaqControl` | dispatcher, DAQ loop, scripts' connection, signals, shutdown |
| `FrameRing` | worker, DAQ thread and acquiring script on the ring |
| `FrameFifo` | what the ring promises: a bounded queue |
| `FdTable` | the kernel's descriptor table and `FDManager` |
| `HubLinks` | the two clients' threads and their `stop()`, on `FdTable` |
| `CommandStream` | bytes to commands, acknowledgements and CALLBACKs |
| `FrontEndCommand` | serial numbers, replies and retries |
| `HubServers` | the two servers, their senders and their shutdown |
| `CalibrationFiles` | from acquisitions to calibration tables, by file names |
| `EventPipeline` | thread pool, ordered stage and the end of a step |
| `OrderedSink` | what the pipeline promises: an ordered sink |
| `DaqControlProofs`, `FrameRingProofs`, `HubLinksProofs`, `CommandStreamProofs`, `FrontEndCommandProofs`, `HubServersProofs`, `CalibrationFilesProofs`, `EventPipelineProofs` | theorems |

### DaqControl

`pc` is the place of the command thread in a handler (after shutdown, of the main
thread, which has joined it); `thr` the place of the DAQ thread. A place begins
wherever another thread can see a difference: at each lock, store to a shared
flag, spawn and join. Handlers are the actions named after the commands
(`StartLock`, `StartJoin`, `StartInit`, `SpawnThread`, `StopStore`, ...);
`initialize()` and `cleanup()` are operators used by them, with each way to fail
(before or after `frameServer_` is assigned). A spawn may throw (`SpawnThread`). The loop may
close a script's connection while the script lives (`ThreadServe`). The
commands that change none of this state are left out.

### FrameRing and FrameFifo

Actions are critical sections of `FrameServer::lock`, or the stretch of code
between two of them that touches one shared field. The worker is `WorkerRecv`,
`WorkerMode`, `WorkerPick` (is there room?), `WorkerCopy` (into the slot, without
the lock, and comparing `minimumFrameID`), `WorkerPush`. The DAQ thread's start
and stop are `FirstWipe`, `TellWorker`, `JoinWorker`, `SecondWipe`, `StartWorker`.
The script synchronizes (`SyncTag` to `SyncSet`) and reads blocks (`FirstFrame`,
`NextBlock`, `ReadFrame`, `ReleaseBlock`). Frames are numbers in the order the FPGA makes
them; the frame ID is this number less `base`, so that the restart of the IDs is
visible. The refinement mapping to `FrameFifo` reads the queue off the slots
between the pointers, and is empty while `acquisitionMode` is off.

### HubLinks and FdTable

`FdTable` hands out the lowest free number, as the kernel does, and closes
whatever a number refers to at that moment. `HubLinks` runs the two `run()`
functions step by step over it: socket, `setServerFD`, connect, store, epoll,
wait, receive, close, reset, and the four steps of `stop()`. The two functions
differ in the pointer they keep (`Follow`) and in what a bad packet does. Which
packets arrive is left to `CommandStream`.

### CommandStream

A packet is a first byte with header and `argc`, one byte for each argument and a
last byte with CRC and footer, and the network may cut between any two of them;
reads return any number up to the buffer's size. A packet that begins in the
middle of another may ask for any `argc`. The sockets do not
block, so a send may also fail on a connection that stands, before or among its bytes:
`AckFailed` may leave a part of an acknowledgement on the wire. The event connection is up, closed
(descriptor closed, pointer still set, which is what the thread that closes it
leaves for a moment) or down. `before` is history: how many commands had been executed
when this connection was made. Only the properties and the proofs read it. The
commands' codes are left out.

### FrontEndCommand

Each try has an `id` the code does not know, so that a reply can be compared with
the try it answers. The front end answers any number of tries late or not at
all; replies go to the socket, and while an acquisition runs to `replyQueue`
by way of the worker. A `NewScript` draws a new serial number.

### HubServers

`pc` is the place of each of five threads: the two servers' `run()`, the heart beat,
main, and the command server's again while it sends a CALLBACK. A connection and
the client made for it have one name; `conn` is the kernel's table, `clientFDs` the
registry, `list` the two client lists. What a kept pointer leads to is `Reached`: the
client, or, when it was destroyed, one that is closed or the one that now has its
memory (`place`), or the program ends (`Crash`). This holds for what `closeFD()` writes,
too: `struck` is history, the connections whose client lost its number to the close of
the client that had its memory before. The other way to end the program is
`AckFaults`: an acknowledgement reads `argv[0]` of a vector that never had
memory, which is undefined, so the program ends there or goes on with `Receive`.
`fault` tells the two apart. After a crash all places are left,
since no property speaks of what a process does afterwards. A read or a send fails
only on a connection in `failing` (its peer left or does not read) or on a number that the
registry does not have.

### CalibrationFiles

`raw[k][s]` is how far the acquisition of kind `k` with time `s` has come: not there,
found by the search, readable, whole. `out[k][s]` is the output made from it,
`table[k]` the time of the output the link leads to. `job` is the command and its
step; one command runs at a time. `FracText` compares milliseconds as the text they
are written as. `TextBefore` is the comparison of `getLatestTimestamp()`. `Crash` ends a
command anywhere and leaves the files. An output may lack a part without its analysis
noticing (`WriteIncomplete`): the disk was full, a child process was killed, or a read fell short. RUN_CONVERT_RAW_TO_SINGLES always fails
(section 6). `linked` and `cut` are history, read by properties only.

### EventPipeline and OrderedSink

Actions are the sections under the pool's or the writer's mutex. A wait on a
condition is a place that a signal, or `Spurious`, ends. `completeQueue()` is `Drain`
and `Scan`, called twice: by `processStep()` and by the destructor. The
unordered stages are one step (`Stages`), which also holds the race for the virtual
`runTask()` of a pool under destruction: its outcome is `aborted`. The refinement to
`OrderedSink` reads the buffers off the writer (`order`, `left`, `finished`).

## 3. The runs

Twelve runs. The numbers of states are those of the instances in the `.cfg` files.

| run | shows |
|---|---|
| `daq_safety` | four commands, one signal, all failures of `initialize()` (26,244 states) |
| `ring_safety` | ring of two slots, loss, one bad frame, two starts (1.18 million) |
| `ring_blocks` | ring of four slots over the wrap of the pointers; liveness of start and stop (1.17 million) |
| `link_event` | one client with three losses: recovery and stop (740) |
| `link_pair` | both clients on one table (600,735) |
| `command_stream` | three packets of every kind, two losses (772,329) |
| `front_end_command` | five tries over three serial numbers (88,464) |
| `servers` | one hub, two listeners, two descriptors, one command, the shutdown (660,913) |
| `calibration` | two acquisitions at six times, failures and kills (540,005) |
| `pipeline` | four workers, a queue of two, five buffers (789,186) |
| `daq_stop_lost`, `link_stuck` | disagreements between code and its comments, section 6 |

**daq_safety.** `StartJoinsFinishedThread`: the join under `daqMutex_` never meets
a thread that still has to take it. `LoopUsesLiveServer`: the loop's frame server
was not deleted. `FlagTellsLoop`: between commands, a live loop has
`daqRunning_` set. `TerminateOnlyAfterSelfExit` and
`DoubleFreeOnlyAfterFailedInit` say which sequences end in `std::terminate` or a
second delete, and that no others do. `CommandsEnd` is liveness; it names the
only two ways a command hangs: the lost stop, and a script that nobody serves. Four commands are enough for any
handler after any other with a start and an end around them, and the state that outlives a
handler is small. Deadlock is not checked because a hang is an outcome that
`CommandsEnd` describes.

**ring_safety.** `OccupancyBounded`: the split test and push never overfill the
ring, although `isFull()` is an equality that would not notice. `NoTornFrame`: the slot
the worker copies into is never one that is still to be read. `InOrder`: over
starts, stops and dead scripts, what the script reads increases.
`OnlyOlderPassedOver`: `minimumFrameID` does not outlive its IDs. `AtMostOneStale`: a
synchronization lets through at most one old frame. `ImplementsFifo`: every step
is one of the bounded queue or changes nothing there. Two slots, five
frames and two starts suffice to fill the ring, lose frames, wipe it with the
worker in each of its places, and run the pointers over twice the ring.

**ring_blocks.** Eight frames over four slots run the pointers past their wrap, with blocks of up
to half the ring. `AtMostOneFrameMore`: a step of `acquire()` takes the frames
it needs and at most one more, because its first block counts from a frame not yet
consumed and the later ones from the last one consumed. `RequestAnswered`: a start
or a stop always comes back from the join of the worker. `ImplementsFifo` is
checked here with blocks longer than one frame, whose end is computed over the wrap.

**link_event, link_pair.** `NoLeak`: never more than a socket and an epoll
instance for a client, and none after its stop, also when the table is full.
`ConnectionChecked`: the loop of a client follows its connection to nowhere in one case
only, the command client's between the move and the join of `stop()` (section 6); no loss,
failed attempt or act of the other client does it. `OnlySecondCloseTakes`: as long as both
clients hold what they opened, one step takes a number from either of them in two
cases only, both a second close of one number: `setFD()` of a number that the registry kept
beyond its close, and `stop()` behind a thread that has ended. Both
cases are needed: without either of them TLC finds the property violated. `LinkRecovered`: a running client is linked
again and again. `StopReturns`: `stop()` ends whatever the loop is doing. The single
client has descriptors 3 and 4 only, which is what it needs and no more; the pair
shares 3 to 5, so that the table is full at times. Deadlock is not checked: a
process whose clients have stopped, or whose hub does nothing more, stands still.

**command_stream.** `TypeOK` includes that the buffer between two reads is shorter
than the longest packet. `ExecutesPrefix`: on each connection the commands executed are the first ones
sent, in order, once each, and all well-formed. `AcksMatch`: the acknowledgements are
those of the commands executed; there is one more only while its command is about to
run, and a partial one only when the connection is given up.
`CallbackAfterEnd`: a CALLBACK belongs to a command that ended, comes at most once and in order.
`CommandExecuted`: a command that was sent whole, after well-formed ones only, is
executed without a further byte from the hub, unless the hub closes the
connection: nothing whole is left in the buffer. Three packets of at most three bytes and
reads of up to four give every cut and every join of two packets. Deadlock is not
checked: the system waits for the hub once the bound on packets is reached.

**servers.** `NoLeak`: every open descriptor has a client that will close it, and none is open
after the shutdown, except that of a client that lost its number to another's close
(`struck`). `SuccessIsTrue`: when `send()` reports success, every listener in the
list at its beginning got the CALLBACK, unless its memory or number had gone to
another connection, which got it instead. `HarmOnlyAfterLoss`: until a listener leaves or
does not read, and the servers are not being stopped, no client is used after its end, none
loses its number to another's close, and no good connection is closed; the one thing that may
end the program then is its own acknowledgement. `StopReturns`: the shutdown gets through
its joins. One hub, two listeners and two numbers let a number, and the memory of a client,
be used again while both senders hold the old pointer. Deadlock is not checked: the
program waits for the peers and for Enter, and after the shutdown it is over.

**calibration.** `LatestIsNewest`: the acquisition processed is the newest, or of the same
second as the newest, which the text of the milliseconds may put in the wrong
order. `TrueMeansTable`: TRUE means that the table leads to the output of the
acquisition chosen, written to its end unless a part was lost where the analysis does not
look (a full disk, a killed child, a short read). `TableSound`: a
table leads to a complete output, unless that output is being made again in place,
was cut short by a kill, or lacks such a part. Both say what the code can promise and do
not catch these losses themselves. `TableNeverBack`: a table is never set to
an earlier second than before. The milliseconds 9, 10 and 95 are the cases of one digit and two,
with texts in another order than the numbers. Two acquisitions are enough for an
older and a newer, and for one that failed.

**pipeline.** `ImplementsSink`: the writer takes the buffers one at a time in order, each
once, and `finish()` comes after the last has left, although `completeQueue()` may
return early: the joins of the destructor make up for it. `Finishes`: the step comes to
its end; no signal is lost and no worker waits for a buffer still queued, unless the program is
aborted (section 6). Four workers can all be in the ordered stage with a full queue
behind them. The code queues a quarter as many tasks as it has workers; two tasks are the
fewest for which the order of the queue matters, and stand here before four workers instead of
eight. Deadlock is not checked: the end of the step is the end of the model.

**front_end_command.** `WrongAnswerOnlyWhenReused`: a reply is taken for another try's only if its
number was in use again, by a later script or after all numbers went round.
`CommandReturns`: each command ends with a reply or a timeout. Five tries over three
numbers let the number wrap with replies still on their way.

### Fairness

* DaqControl: weak fairness of the handler and of the DAQ thread (the scheduler);
  strong fairness of the end of a script, which does not ask questions for ever.
  Nothing of hub, operator and signals.
* FrameRing: weak fairness of worker and DAQ thread. The worker's `recv()` returns
  after 100 ms without data, so it is never stuck. Nothing of FPGA and script.
* HubLinks: weak fairness of the clients' loops and of `stop()`; strong fairness of a
  successful connect: the hub that is asked again and again accepts some time.
* CommandStream: weak fairness of the command thread: commands end (the
  exceptions are those of `CommandsEnd`), and what the hub sent arrives as long as the connection stands.
* HubServers: weak fairness of the three threads and, once asked for, of the shutdown. The
  waits without a limit are for each other: `epoll_pwait` has a timeout, the sockets do
  not block, and handlers end as in CommandStream.
* EventPipeline: weak fairness of the reader and of each worker. Waits that end by
  themselves are not counted on.
* CalibrationFiles states no liveness: a script may hang (`CommandsEnd`).
* FrontEndCommand: weak fairness of the script's next try and of the DAQ loop,
  whose wait ends after 250 ms. Nothing of the front end.

## 4. What is proved

The proofs hold for every value of the constants that satisfies the module's named
assumption. Each rests on an inductive invariant `IInv` in the proof module, shown
by `InitIInv` and by `NextIInv` or the proof of `Invariance`, with a step or a
lemma per action. Where a property needs more than types and control, the further
parts of the invariant are proved on top of `IInv`. All of these invariants were checked
by TLC on the instances of section 3 before they were proved.

**DaqControlProofs** (`Invariance`, `StartJoinSafe`, `LoopServerSafe`,
`FlagCorrect`, `TerminateCause`, `DoubleFreeCause`). The safety properties say
little about the places in between, so `IInv` adds at which places no thread can
be left (`ThreadGone`), where `daqRunning_` is honest and where false, that
`frameServer_` is live or the last initialization failed early (`ServerLive`), and that
a loop told to end, without a signal, is being joined by the handler that told it (`EndedByStop`).

**FrameRingProofs** (`Invariance`, `TypeCorrect`, `Bounded`, `NoTear`, `Refinement`,
`ContentInvariance`, `FramesInOrder`, `OlderPassedOver`, `OneStale`, `OneFrameMore`), for every size
of the ring from two. The first part is arithmetic of pointers modulo `2 * Q` and
slots modulo `Q`: distances add up (`GapAdvance`, `GapMove`, `GapSplit`), and two
pointers less than `Q` apart have different slots (`SlotsDiffer`). The core of `IInv` is
`RoomInv` and `SlotInv`: while the worker holds a slot, there is room for one more
frame, and the slot is the one at the write pointer, unless a start or stop has
wiped the pointers and will still join the worker before anyone reads. `BlockInv` places the
script's block between the pointers; the slot being written lies beyond it.
`Refinement` maps each action to a step of FrameFifo or a
stutter: slots between the pointers do not change but by a push, at the end, or a
release, at the front, and a wipe empties the mapped queue or finds it empty.
It and the theorems about contents add `ModeInv` (where `acquisitionMode` is on and where
off, and when the worker has no datagram at hand), `FrameInv` (frames on their way are not
numbered before the last restart of the IDs), `CopyInv` (what will be pushed is in its slot) and `ReadInv`.
`OrderInv` then says that what was read, what the ring holds, the datagram at
hand and those on the network increase in this order, which gives `FramesInOrder`.
`MinInv` (while there is a worker, the minimum is none, or not above that of the frame
the script synchronized with) gives
`OlderPassedOver`; `StaleInv` (older than the target is at most the one frame the worker
held when the minimum was set, wherever it now is) gives `OneStale`; `StepInv` (how many
frames were released for the IDs passed) gives `OneFrameMore`.

**HubLinksProofs** (`Invariance`, `NothingLeaks`, `OnlyStopCrashes`, `OnlySecondCloses`), for
every set of clients, size of the table and number of events. `IInv` says of each client
that an open socket or epoll file it made is the one of its present attempt, and
that someone is still to close it (`SocketInv`, `EpollInv`); at which steps of `stop()`
the loop has ended (`StopInv`); and that only the command client's loop crashes, after
`stop()` has emptied the pointer it follows (`CrashInv`). This is inductive for several
clients although they close each other's descriptors, because a wrong close only takes a file away.
`OnlySecondCloses` adds `HoldInv`: a running client's connection is in `hubConnection_`, an
attempting client has none, and an ended one has no number left in the registry of servers. A step that closes neither a number kept too long nor one behind an ended thread
closes a number of its own client, and what it opens was free: so the others' numbers are
as good as before (`OthersIntact`).

**CommandStreamProofs** (`Invariance`, `TypeCorrect`, `ExecutesOnlyPrefix`, `AcksMatchDone`,
`CallbacksAfterEnd`), for any number of packets and losses, any `MAX_ARGC` and size of a read.
The buffer and the bytes on their way are one stream (`StreamInv`). It is not described as a concatenation of
packets, which would need an induction, but by its first byte, its last byte, and which
byte follows which (`Follows`); cutting, joining and taking a packet off keep this
form, and a packet that parses at the front of it is the first one not yet executed.
`DoneInv` says what was executed before this connection and on it, `PacketInv` which packet is in
the client's hands, `AckInv` that the acknowledgements are those of `DoneInv`, but for the last
one, and `EventInv` that CALLBACKs name executed commands in order.

**FrontEndCommandProofs** (`Invariance`, `TypeCorrect`, `AnswersMatch`), for every number of serial
numbers, tries and scripts. `NumbersInv` ties each message on its way to the
distance between its try and the next one, modulo `Window`, so that equal numbers
within a window mean equal tries.

**HubServersProofs** (`Invariance`, `NothingLeaks`, `SuccessHolds`, `HarmNeedsLoss`), for every number of descriptors,
connections and commands. `NoLeak` is far from inductive, because a number is in a list,
in the hands of threads, in copies and in the registry, and may be closed and given
out again between any two of them. The core is `OwnerInv`: each number in the
registry is that of a client which is in a list and not about to be destroyed or to
have its number cleared by a thread past its close (`Doomed`), or its connection is `struck`; `RegisterInv` makes
open and registered the same, `FreshInv` says who may know a connection
just accepted, `NumberInv` that entries have the number they are indexed by or none, `RemoveInv` what
`closeFD()` may still erase, `StopInv` that a joined server's list stays empty.
`SuccessHolds` adds `AudienceInv` and `TellInv`: as long as `send()` has not
failed, each listener it began with is still in its copy or has got the CALLBACK, or another connection has.
`HarmNeedsLoss` adds `QuietInv`: while no listener was lost and the event server is not
stopped (`Quiet`), nobody but the command server's `run()` closes a client, and only one whose hub is
lost, and all pointers and numbers kept by the others are good (`Calm`); the program has not
ended but by an acknowledgement.

**CalibrationFilesProofs** (`Invariance`, `TypeCorrect`, `LatestChosen`, `AnswersTrue`,
`TablesSound`, `TablesForward`), for every clock and number of acquisitions.
`JobInv` ties the step of a command to what it has chosen and made, `OutInv`
an incomplete output to the command that writes it or to a cut, and `TableInv` a table to
its output and its acquisition, so that the next search sees it. `TablesForward` then
follows from the order of the texts, which decides seconds first (`TextOrder`).

**EventPipelineProofs** (`Invariance`, `SinkImplemented`), for every number of workers,
length of the queue and of the file: EventPipeline implements OrderedSink.
The invariant says where the buffers are: the queue holds the last ones in order
(`QueueInv`), each one between the writer's and the queue's is held by one
worker (`HeldInv`) and none is missing (`CoverInv`), one worker at most is in the writer, with
the one expected (`WriterInv`), and `processStep()` is past the scan only with an empty queue
(`MainInv`). When all threads were joined nobody holds a buffer, so that all have left: this,
and not the return of `completeQueue()`, is why `finish()` comes last.

Every safety invariant, action property and refinement of the passing runs has a
theorem. Not proved, only model-checked, are the liveness properties, since
the prover reaches neither fairness nor ENABLED: `CommandsEnd` of DaqControl, `RequestAnswered` of FrameRing,
`LinkRecovered` and `StopReturns` of HubLinks, `CommandExecuted` of CommandStream,
`CommandReturns` of FrontEndCommand, `StopReturns` of HubServers and `Finishes` of EventPipeline.
For these the bounds of section 5 count. What a recursive definition computes
for all inputs is out of reach, as no prover takes an induction over data; the models
proved about use none.

## 5. Bounds

`MaxCommands`, `MaxSignals`; `MaxFrame`, `MaxStarts`, `NetSize`; `MaxEvents`, `LastFd`;
`MaxPackets`, `MaxLosses`; `MaxTotal`; `MaxHubs`, `MaxListeners`, `NFds`; `MaxStarts`,
`Secs`, `Millis`; `NBuffers` bound how much the environment does. They
appear in guards of the environment only (hub, FPGA, signals, scripts), and the theorems hold for
all of their values. `Q`, `Window`, `MaxTries`, `MaxArgc`, `ReadSize`, `NRequired` are
parameters of the code with small values, like `NWorkers` and `MaxQueue` (a worker for
each CPU, a quarter as many tasks queued): the ring has thousands of slots,
the serial number 15 bits, a read 1024 bytes and a packet at most 142.

## 6. Where code and comments disagree

* `daq_stop_lost`: `DAQManager::run` clears the stop flag on the new thread, so a stop
  made between spawn and that store is lost and the join of STOP_DAQ or RESET_DAQ never returns.
* `link_stuck`: a failed connect closes its number twice, and the second close may hit
  the other client's new connection, whose loop then waits without noticing.

Met while modelling, and described by the conditions in the properties of passing runs
rather than by runs of their own:

* `daqd.py:1429` says that a synchronization discards all earlier frames; one that the
  worker compared with the old minimum (`UDPFrameServer.cpp:160`) is still pushed:
  `AtMostOneStale` allows it.
* `CommandClient.cpp:163` announces a safety check for the connection, but the loop follows
  `hubConnection_` itself after the unlock (line 174), when `stop()` may have emptied it:
  `ConnectionChecked` has this case. The event client (`EventClient.cpp:219`) does not.
* After a loss the registry still holds the closed number; the new socket gets it
  and `setFD()` (`FDManager.h:21`) closes it when it is registered, so the first attempt to
  reconnect fails. The link recovers at a later one (`LinkRecovered`).
* `completeQueue()` may return early (`ThreadPool.cpp:80`), and `ThreadPool`'s destructor then
  leaves an object whose `runTask()` is pure virtual; a worker that has just taken its task may
  call it, and the program is aborted: `Finishes` has this case.
* A listener that leaves or stops reading may take the server program with it, or another
  connection (`EventServer.cpp:64`, `Client.cpp:90`): `HarmOnlyAfterLoss`. `closeFD()`, "Close the
  client FD safely" (`Client.cpp:87`), writes `fd_ = -1` through a pointer that `run()` kept over
  an unlock: when the heart beat has destroyed that client and a new one has its memory, the
  new one forgets its number, and its descriptor is never closed. `NoLeak` names it (`struck`).
* `CommandServer.cpp:140` sends an acknowledgement whose `argc` is 1 and whose `argv` was never
  filled, and `serialize()` (`CommandCodec.cpp:137`) reads `argv[0]`. With the usual library the
  first well-formed command ends the server program before it is run: `AckFaults` and the
  exception in `HarmOnlyAfterLoss`. Everything else the run `servers` shows about commands is about a
  library under which that read gives some word.
* Two acquisitions of one second may be taken in the wrong order (`Config.cpp:225`):
  `LatestIsNewest`. A failed analysis, a full disk or a kill may leave a table that leads
  to an incomplete output: `TableSound`. An ASIC whose child process was killed
  (`process_tdc_calibration_impl.cpp:1019`) or events behind a short read are missing
  from an output that counts as good: `TrueMeansTable`. A table of an interrupted acquisition is made with
  the answer TRUE as soon as there is enough data to process.

And outside what properties say: RUN_CONVERT_RAW_TO_SINGLES passes a full file name
where the converter expects a prefix and always answers FALSE
(`CommandDispatch.cpp:416`); RUN_CONVERT_RAW_TO_RAW tests `argv.size() > 1` and uses
`argv[0]` (line 391); the deadline of the wait for a
reply is normalised with a wrong number of nanoseconds (`UDPFrameServer.cpp:215`).

## 7. What the models leave out

There is no clock but in CalibrationFiles: a timeout is a step that may happen once its
wait began. The clock of
CalibrationFiles is never set back, and a script takes more than a millisecond to
connect before it makes a file. Plain members read
without a lock (`die`, `acquisitionMode`, `minimumFrameID`, `fd_`) are read and written
in single steps: any value that was stored, never a torn one; so are the unordered
reads of a client's `fd_` in HubLinks. What `write_raw` counts as lost is not modelled, only which slots it
reads. Files are not deleted by hand.

Of the front end it is assumed that no frame states the size 0, on which the worker would stay
for good (`UDPFrameServer.cpp:147`), and that a reply has at least 18 bytes: of a shorter
one `daqd.py:816` leaves the rest in its socket, and under two bytes
`UDPFrameServer.cpp:257` drops it. `accept()` of the script service is taken to succeed
(`DAQManager.cpp:173`).

Payloads, CRC arithmetic, command codes and logging are abstracted away.

## 8. Plan

Done, in this order: DaqControl; FrameRing with FrameFifo; FdTable and HubLinks;
FrontEndCommand; CommandStream; HubServers; CalibrationFiles; EventPipeline with
OrderedSink; the eight proof modules, one for each module with properties.

Next modules:

1. `WriteRaw`: the accounting of lost and empty frames, on top of FrameRing's blocks,
   against a reference definition (the types at `write_raw.cpp:240`).
2. `CardBuffer`: the double buffer of a DAQ card and the card server's ring.
3. Pure operators: the coarse sorter and the grouper over bounded inputs.

Next theorems: no safety property of a run is left without one. What can be added are
theorems beyond the runs: hypotheses under which the exceptions named in properties cannot
occur (a listener that is never lost and `SuccessIsTrue` without its exception; one script at a time and
`WrongAnswerOnlyWhenReused`), and those of the modules above when they are written.
